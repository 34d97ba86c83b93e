---------------------------- MODULE BalanceBreaker ----------------------------
(***************************************************************************)
(* The OpenRouter balance check of app/upstream/openrouter.py, and the     *)
(* circuit breakers of app/capacity.py in front of the routes that spend   *)
(* that balance: one cached reading, one lock and one counter of bad       *)
(* readings in each process, shared by routes with different floors, by    *)
(* the dashboard that only looks, and unknown to the ways of ordering that *)
(* have no breaker.  A step is what one call does between two awaits.      *)
(***************************************************************************)
EXTENDS Naturals

CONSTANTS
    Calls,          \* HTTP calls, MCP calls and dashboard refreshes
    NoCall,         \* the holder of a free lock
    Routes,         \* routes behind a breaker
    Floor,          \* MIN_BALANCE_USD or FLOORS_USD of each
    Unchecked,      \* other ways to the same spending: GET, or an MCP tool
    Lookers,        \* the dashboard's own reads of the balance
    Amounts,        \* balances the account may have, in cents
    Trip            \* _CONSECUTIVE_FAILURES_TO_TRIP

ASSUME BreakerConstants ==
    /\ NoCall \notin Calls
    /\ Amounts \subseteq Nat
    /\ Floor \in [Routes \cup Unchecked -> Nat]
    /\ Lookers \cap (Routes \cup Unchecked) = {}
    /\ Routes \cap Unchecked = {}
    /\ Trip \in Nat \ {0}

VARIABLES
    balance,    \* the account at OpenRouter
    value,      \* _balance_cache and _last_good_balance, always set together
    age,        \* of that value: under 60 s, under 600 s, older
    bad,        \* _consecutive_bad_reads
    lock,       \* _balance_lock
    pc,         \* where each call stands
    route,      \* what it is for
    verdict,    \* what it was told
    failures,   \* history: readings of calls, not of the dashboard, that failed
                \* since the last that did not
    lowChecks,  \* history: checks of each route since a reading last covered it
    covered     \* history: the account has always covered every floor

vars == <<balance, value, age, bad, lock, pc, route, verdict, failures,
          lowChecks, covered>>

Covers(amount) == \A r \in Routes : Floor[r] <= amount

TypeOK ==
    /\ balance \in Amounts
    /\ value \in Amounts
    /\ age \in {"none", "fresh", "stale", "old"}
    /\ bad \in Nat
    /\ lock \in Calls \cup {NoCall}
    /\ pc \in [Calls -> {"new", "waiting", "reading", "done"}]
    /\ route \in [Calls -> Routes \cup Unchecked \cup Lookers]
    /\ verdict \in [Calls -> {"none", "admitted", "refused"}]
    /\ failures \in Nat
    /\ lowChecks \in [Routes -> Nat]
    /\ covered \in BOOLEAN

\* A process that has just started has read nothing; value means nothing
\* while age is "none"
Init ==
    /\ balance \in Amounts
    /\ value = balance /\ age = "none"
    /\ bad = 0
    /\ lock = NoCall
    /\ pc = [c \in Calls |-> "new"]
    /\ route \in [Calls -> Routes \cup Unchecked \cup Lookers]
    /\ verdict = [c \in Calls |-> "none"]
    /\ failures = 0
    /\ lowChecks = [r \in Routes |-> 0]
    /\ covered = Covers(balance)

-----------------------------------------------------------------------------
Checked(c) == route[c] \in Routes

\* The breaker passes the call on, or answers 503 and logs it
Finish(c, answer) ==
    /\ pc' = [pc EXCEPT ![c] = "done"]
    /\ verdict' = [verdict EXCEPT ![c] = answer]

\* One more bad reading: insufficient from the third on
BadRead(c) ==
    /\ bad' = bad + 1
    /\ Finish(c, IF bad + 1 < Trip THEN "admitted" ELSE "refused")

\* The history of low checks, when this call sees this amount
See(c, amount) ==
    lowChecks' = [r \in Routes |->
        IF Floor[r] <= amount THEN 0
        ELSE IF route[c] = r THEN lowChecks[r] + 1 ELSE lowChecks[r]]

\* Mutants: the counter forgives nothing; or a low balance is tolerated like
\* a flaky read, and not counted
JudgeKeepsCount(c, amount) ==
    /\ See(c, amount)
    /\ \/ ~Checked(c) /\ Finish(c, "none") /\ UNCHANGED bad
       \/ Checked(c) /\ amount >= Floor[route[c]] /\ Finish(c, "admitted")
             /\ UNCHANGED bad
       \/ Checked(c) /\ amount < Floor[route[c]] /\ BadRead(c)

JudgeForgivesLow(c, amount) ==
    /\ See(c, amount)
    /\ \/ ~Checked(c) /\ Finish(c, "none") /\ UNCHANGED bad
       \/ Checked(c) /\ amount >= Floor[route[c]] /\ Finish(c, "admitted")
             /\ bad' = 0
       \/ Checked(c) /\ amount < Floor[route[c]] /\ Finish(c, "admitted")
             /\ UNCHANGED bad

\* has_sufficient_balance with a balance in hand; the dashboard only shows it
Judge(c, amount) ==
    /\ See(c, amount)
    /\ \/ ~Checked(c) /\ Finish(c, "none") /\ UNCHANGED bad
       \/ Checked(c) /\ amount >= Floor[route[c]] /\ Finish(c, "admitted")
             /\ bad' = 0
       \/ Checked(c) /\ amount < Floor[route[c]] /\ BadRead(c)

-----------------------------------------------------------------------------
(* get_balance_usd                                                         *)

\* The breaker lets these through without a look: the method is not POST, or
\* the call came in as an MCP tool
OrderUnchecked(c) ==
    /\ pc[c] = "new" /\ route[c] \in Unchecked
    /\ Finish(c, "admitted")
    /\ UNCHANGED <<balance, value, age, bad, lock, route, failures, lowChecks,
                   covered>>

\* A value less than 60 s old is used without the lock
UseCached(c) ==
    /\ pc[c] = "new" /\ route[c] \notin Unchecked
    /\ age = "fresh"
    /\ Judge(c, value)
    /\ UNCHANGED <<balance, value, age, lock, route, failures, covered>>

WaitForLock(c) ==
    /\ pc[c] = "new" /\ route[c] \notin Unchecked
    /\ age # "fresh"
    /\ pc' = [pc EXCEPT ![c] = "waiting"]
    /\ UNCHANGED <<balance, value, age, bad, lock, route, verdict, failures,
                   lowChecks, covered>>

\* The call before it may have read the balance meanwhile
FindRefreshed(c) ==
    /\ pc[c] = "waiting" /\ lock = NoCall
    /\ age = "fresh"
    /\ Judge(c, value)
    /\ UNCHANGED <<balance, value, age, lock, route, failures, covered>>

\* Mutant: the value is not looked at again under the lock
StartReadUnseen(c) ==
    /\ pc[c] = "waiting" /\ lock = NoCall
    /\ lock' = c
    /\ pc' = [pc EXCEPT ![c] = "reading"]
    /\ UNCHANGED <<balance, value, age, bad, route, verdict, failures,
                   lowChecks, covered>>

StartRead(c) ==
    /\ pc[c] = "waiting" /\ lock = NoCall
    /\ age # "fresh"
    /\ lock' = c
    /\ pc' = [pc EXCEPT ![c] = "reading"]
    /\ UNCHANGED <<balance, value, age, bad, route, verdict, failures,
                   lowChecks, covered>>

ReadSucceeds(c) ==
    /\ pc[c] = "reading"
    /\ value' = balance /\ age' = "fresh"
    /\ lock' = NoCall
    /\ failures' = IF Checked(c) THEN 0 ELSE failures
    /\ Judge(c, balance)
    /\ UNCHANGED <<balance, route, covered>>

\* Mutant: a lock that is not released when the read fails
ReadFailsHolding(c) ==
    /\ pc[c] = "reading"
    /\ failures' = IF Checked(c) THEN failures + 1 ELSE failures
    /\ IF Checked(c) THEN BadRead(c) ELSE Finish(c, "none") /\ UNCHANGED bad
    /\ UNCHANGED <<balance, value, age, lock, route, lowChecks, covered>>

\* A timeout, an HTTP error or an answer that does not parse: the last good
\* value counts for 600 s, and then each failure does
ReadFails(c) ==
    /\ pc[c] = "reading"
    /\ lock' = NoCall
    /\ failures' = IF Checked(c) THEN failures + 1 ELSE failures
    /\ \/ ~Checked(c) /\ Finish(c, "none") /\ UNCHANGED bad
       \/ /\ Checked(c) /\ age \in {"fresh", "stale"}
          /\ Finish(c, IF value >= Floor[route[c]] THEN "admitted" ELSE "refused")
          /\ UNCHANGED bad
       \/ /\ Checked(c) /\ age \in {"none", "old"}
          /\ BadRead(c)
    /\ UNCHANGED <<balance, value, age, route, lowChecks, covered>>

-----------------------------------------------------------------------------
(* The environment: money is spent or added, and time passes.              *)

ChangeBalance ==
    /\ balance' \in Amounts \ {balance}
    /\ covered' = (covered /\ Covers(balance'))
    /\ UNCHANGED <<value, age, bad, lock, pc, route, verdict, failures,
                   lowChecks>>

Age ==
    /\ \/ age = "fresh" /\ age' = "stale"
       \/ age = "stale" /\ age' = "old"
    /\ UNCHANGED <<balance, value, bad, lock, pc, route, verdict, failures,
                   lowChecks, covered>>

-----------------------------------------------------------------------------
Step(c) ==
    \/ OrderUnchecked(c) \/ UseCached(c) \/ WaitForLock(c)
    \/ FindRefreshed(c) \/ StartRead(c)
    \/ ReadSucceeds(c) \/ ReadFails(c)

Next == ChangeBalance \/ Age \/ \E c \in Calls : Step(c)

Spec == Init /\ [][Next]_vars

\* The lock is handed on in the order it was asked for, and the client's
\* timeout of 10 s ends every read
FairSpec == Spec /\ \A c \in Calls : SF_vars(Step(c))

-----------------------------------------------------------------------------
(* What the breaker guarantees.                                            *)

\* However many calls find the value expired, one of them at a time asks
\* OpenRouter, and the others use its answer
OneReader ==
    \A c, d \in Calls :
        pc[c] = "reading" => age # "fresh" /\ (pc[d] = "reading" => c = d)

\* The incident of 2026-10-02: while the account covers every floor, a call
\* is refused only after three readings by calls in a row have failed, and
\* never while a value of the last 600 s is known
FlakyReadsDoNotTrip ==
    [][\A c \in Calls :
          covered /\ verdict[c] = "none" /\ verdict'[c] = "refused" =>
              failures' >= Trip /\ age \in {"none", "old"}]_vars

\* A balance that stays low is enforced: a route admits at most two calls in
\* a row that found less than its floor
Enforced(c) ==
    Checked(c) /\ verdict[c] = "none" /\ verdict'[c] = "admitted" =>
        lowChecks'[route[c]] < Trip

\* So it is for the route with the lowest floor: whoever resets the counter has
\* seen a balance that covers it.  (A check of a lower floor resets what the
\* checks of a higher one have counted.)
Lowest(r) == r \in Routes /\ \A s \in Routes : Floor[r] <= Floor[s]

LowestIsEnforced ==
    [][\A c \in Calls : Lowest(route[c]) => Enforced(c)]_vars

\* Every call is judged, whatever reads fail
EveryCallIsJudged == \A c \in Calls : pc[c] = "waiting" ~> pc[c] = "done"

-----------------------------------------------------------------------------
(* The inductive invariant.                                                *)

\* The holder of the lock is the call that is reading
LockHeld == \A c \in Calls : pc[c] = "reading" <=> lock = c

\* While the account has always covered every floor, so does each value read
ValueCovers == covered => Covers(balance) /\ Covers(value)

\* and the counter counts failed readings only
BadAreFailures == covered => bad <= failures

\* A route is low while the last value read is below its floor, and each low
\* check of the lowest floor is in the counter
LowIsCounted ==
    \A r \in Routes :
        /\ lowChecks[r] > 0 => value < Floor[r]
        /\ Lowest(r) => lowChecks[r] <= bad

BreakerInv ==
    LockHeld /\ OneReader /\ ValueCovers /\ BadAreFailures
        /\ LowIsCounted
=============================================================================
