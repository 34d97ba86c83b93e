---------------------------- MODULE ClaudeBudget ----------------------------
(***************************************************************************)
(* app/upstream/anthropic.py: what token-card and fact-check spend on      *)
(* Claude, against the monthly budget read from the requests table, where  *)
(* a call's cost arrives with its 'paid' row; and the breaker that a       *)
(* billing error trips for five minutes.                                   *)
(***************************************************************************)
EXTENDS Naturals, FiniteSets

CONSTANTS
    Callers,        \* calls in flight at once
    Budget,         \* ANTHROPIC_MONTHLY_BUDGET_USD, in requests to Claude
    MaxSales        \* bound: calls that arrive in the month

VARIABLES
    call,       \* each caller: its route, where it stands, what Claude costs it
    tripped,    \* the breaker is open
    logged,     \* SUM(upstream_cost_usd) of the month
    ungated,    \* history: the part of it spent through GET /token-card
    leaked,     \* history: billed requests that no row will ever count
    sales       \* history: calls that have arrived

BudgetConstants ==
    /\ IsFiniteSet(Callers) /\ Callers # {}
    /\ Budget \in Nat /\ MaxSales \in Nat

budgetVars == <<call, tripped, logged, ungated, leaked, sales>>

Gone == [route |-> "none", at |-> "gone", cost |-> 0]

TypeOK ==
    /\ call \in [Callers -> [route : {"none", "POST-token-card", "GET-token-card", "fact-check"},
                             at : {"gone", "queries", "asking-queries", "verdict", "asking-verdict",
                                   "card", "asking-card", "answered"},
                             cost : 0..2]]
    /\ tripped \in BOOLEAN
    /\ logged \in Nat /\ ungated \in 0..logged /\ leaked \in Nat
    /\ sales \in 0..MaxSales

Init ==
    /\ call = [c \in Callers |-> Gone]
    /\ tripped = FALSE
    /\ logged = 0 /\ ungated = 0 /\ leaked = 0 /\ sales = 0

monthly_budget_ok == logged < Budget

-----------------------------------------------------------------------------
(* The gate of POST /token-card; GET and fact-check have none.             *)

Arrive(c, route) ==
    /\ call[c] = Gone
    /\ sales < MaxSales
    /\ sales' = sales + 1
    /\ route = "POST-token-card" => monthly_budget_ok /\ ~tripped
    /\ call' = [call EXCEPT ![c] = [route |-> route, cost |-> 0,
                                    at |-> IF route = "fact-check" THEN "queries" ELSE "card"]]
    /\ UNCHANGED <<tripped, logged, ungated, leaked>>

Move(c, to) == call' = [call EXCEPT ![c].at = to]
After(at) == IF at \in {"queries", "asking-queries"} THEN "verdict" ELSE "answered"
Asking == {"asking-queries", "asking-verdict", "asking-card"}

-----------------------------------------------------------------------------
(* The three generators: generate_token_card does not ask for the budget.  *)

AskClaude(c) ==
    /\ \/ call[c].at = "card" /\ ~tripped /\ Move(c, "asking-card")
       \/ call[c].at = "queries" /\ ~tripped /\ monthly_budget_ok /\ Move(c, "asking-queries")
       \/ call[c].at = "verdict" /\ ~tripped /\ monthly_budget_ok /\ Move(c, "asking-verdict")
    /\ UNCHANGED <<tripped, logged, ungated, leaked, sales>>

\* The breaker, the budget or the deadline: the deterministic card, or Ollama
DoWithout(c) ==
    /\ \/ call[c].at = "card"
       \/ call[c].at \in {"queries", "verdict"} /\ (tripped \/ ~monthly_budget_ok)
    /\ Move(c, After(call[c].at))
    /\ UNCHANGED <<tripped, logged, ungated, leaked, sales>>

Answered(c) ==
    /\ call[c].at \in Asking
    /\ call' = [call EXCEPT ![c].at = After(@), ![c].cost = @ + 1]
    /\ UNCHANGED <<tripped, logged, ungated, leaked, sales>>

\* A billed answer that does not validate: the card keeps its cost, the
\* fact-check's fallbacks drop it
Malformed(c) ==
    /\ call[c].at \in {"asking-queries", "asking-verdict"}
    /\ Move(c, After(call[c].at))
    /\ leaked' = leaked + 1
    /\ UNCHANGED <<tripped, logged, ungated, sales>>

\* An exception that is not about billing, or one that is
ClaudeFails(c, billing) ==
    /\ call[c].at \in Asking
    /\ Move(c, After(call[c].at))
    /\ tripped' = (tripped \/ billing)
    /\ UNCHANGED <<logged, ungated, leaked, sales>>

Cooldown ==
    /\ tripped
    /\ tripped' = FALSE
    /\ UNCHANGED <<call, logged, ungated, leaked, sales>>

-----------------------------------------------------------------------------
(* The end of the handler.                                                 *)

LogPaid(c) ==
    /\ call[c].at = "answered"
    /\ logged' = logged + call[c].cost
    /\ ungated' = ungated + IF call[c].route = "GET-token-card" THEN call[c].cost ELSE 0
    /\ call' = [call EXCEPT ![c] = Gone]
    /\ UNCHANGED <<tripped, leaked, sales>>

\* The deadline, a search that fails, a verdict that names no source: the
\* 'error' row, or none, carries no cost
FailLate(c) ==
    /\ call[c] # Gone
    /\ leaked' = leaked + call[c].cost
    /\ call' = [call EXCEPT ![c] = Gone]
    /\ UNCHANGED <<tripped, logged, ungated, sales>>

Next ==
    \/ \E c \in Callers, route \in {"POST-token-card", "GET-token-card", "fact-check"} : Arrive(c, route)
    \/ \E c \in Callers : \/ AskClaude(c) \/ DoWithout(c) \/ Answered(c) \/ Malformed(c)
                          \/ LogPaid(c) \/ FailLate(c)
    \/ \E c \in Callers, billing \in BOOLEAN : ClaudeFails(c, billing)
    \/ Cooldown

-----------------------------------------------------------------------------
\* The month's logged spending exceeds the budget by no more than what the
\* calls in flight at the limit may cost (the budget is read when a call
\* starts and its cost written when it ends), GET /token-card apart, which
\* nothing limits.
SpendingIsBounded ==
    logged - ungated < Budget + 2 * Cardinality(Callers)
=============================================================================
