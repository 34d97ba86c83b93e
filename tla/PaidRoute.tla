------------------------------ MODULE PaidRoute ------------------------------
(***************************************************************************)
(* One paid HTTP route: the middleware stack of app/main.py around one     *)
(* priced handler, the SQLite tables it shares with the other container,   *)
(* and the token contract on Base.                                         *)
(*                                                                         *)
(* A request crosses CapacityGateMiddleware, then either the MPP rail      *)
(* (MPPMiddleware: charge, then run the handler) or the x402 rail          *)
(* (IntentLoggingMiddleware around the x402 SDK: verify, run the handler,  *)
(* settle).  A call of the MCP tool of the same route has its own verify,  *)
(* run, settle and never meets the gate.  A step is what one request does  *)
(* between two suspension points, so requests of one process, or of the    *)
(* blue and the green container, interleave wherever the program awaits.   *)
(***************************************************************************)
EXTENDS Naturals, FiniteSets

CONSTANTS
    Requests,       \* HTTP calls to the route
    Wallets,        \* buyers' addresses
    Auths,          \* EIP-3009 authorisations the buyers have signed
    Payer,          \* the wallet that signed each authorisation
    NoAuth,         \* the authorisation of a request that carries none
    Rails,          \* how buyers call: "none" (unpaid), "x402", "mpp", "mcp"
    DailyLimit,     \* config.DAILY_CAPACITY of the route
    MaxInFlight,    \* bound: calls in progress at once, the program has none
    FreeFirstCall,  \* config.FREE_FIRST_CALL
    Faults          \* faults of the environment: "crash", "lostAnswer"

ASSUME ConstantsAssumption ==
    /\ IsFiniteSet(Requests)
    /\ Payer \in [Auths -> Wallets]
    /\ NoAuth \notin Auths
    /\ Rails \subseteq {"none", "x402", "mpp", "mcp"}
    /\ DailyLimit \in Nat \ {0}
    /\ MaxInFlight \in Nat \ {0}
    /\ FreeFirstCall \in BOOLEAN
    /\ Faults \subseteq {"crash", "lostAnswer"}

VARIABLES
    pc,         \* where each request stands in the stack
    rail,       \* the rail it came in on
    auth,       \* the authorisation it carries
    resp,       \* what the buyer got back
    quoted,     \* the price in the receipt and in the 'paid' row
    tx,         \* the transfer submitted for the request
    spentBy,    \* the chain: which request's transfer consumed an authorisation
    granted,    \* requests whose settlement the first-call hook skipped
    log,        \* table requests: <<request, status>>
    today,      \* requests whose 'paid' row carries today's date
    seen,       \* table seen_wallets
    nonces,     \* table mpp_nonces
    protected   \* the route is in the SDK's table built at startup

vars == <<pc, rail, auth, resp, quoted, tx, spentBy, granted, log, today,
          seen, nonces, protected>>

Places == {"new", "verify", "nonce", "broadcast", "mark", "handle", "hook",
           "settle", "await", "done", "dead"}
Statuses == {"capacity_reached", "unpaid", "payment_failed", "error", "paid"}

TypeOK ==
    /\ pc \in [Requests -> Places]
    /\ rail \in [Requests -> Rails \cup {"none"}]
    /\ auth \in [Requests -> Auths \cup {NoAuth}]
    /\ resp \in [Requests -> {"none", "delivered", "refused", "error"}]
    /\ quoted \in [Requests -> {"none", "free", "full"}]
    /\ tx \in [Requests -> {"none", "submitted", "moved", "reverted"}]
    /\ spentBy \in [Auths -> SUBSET Requests]
    /\ granted \subseteq Requests
    /\ log \subseteq Requests \X Statuses
    /\ today \subseteq Requests
    /\ seen \subseteq Wallets
    /\ nonces \subseteq Auths
    /\ protected \in BOOLEAN

\* SQLite and the chain start empty; the route may have been missing from the
\* table the SDK middleware copied at startup (the incident of 2026-10-02).
Init ==
    /\ pc = [r \in Requests |-> "new"]
    /\ rail = [r \in Requests |-> "none"]
    /\ auth = [r \in Requests |-> NoAuth]
    /\ resp = [r \in Requests |-> "none"]
    /\ quoted = [r \in Requests |-> "none"]
    /\ tx = [r \in Requests |-> "none"]
    /\ spentBy = [a \in Auths |-> {}]
    /\ granted = {} /\ log = {} /\ today = {} /\ seen = {} /\ nonces = {}
    /\ protected \in BOOLEAN

-----------------------------------------------------------------------------
InFlight == {r \in Requests : pc[r] \notin {"new", "done", "dead"}}

\* Mutant: the gate lets one call too many through
AtCapacityOffByOne == Cardinality(today) > DailyLimit

\* db.count_paid_today(route) >= limit
AtCapacity == Cardinality(today) >= DailyLimit

\* receipts.effective_price: a read-only look at seen_wallets
EffectivePrice(w) == IF FreeFirstCall /\ w \notin seen THEN "free" ELSE "full"

Goto(r, place) == pc' = [pc EXCEPT ![r] = place]

Answer(r, place, answer) ==
    /\ Goto(r, place)
    /\ resp' = [resp EXCEPT ![r] = answer]

Record(r, status) == log' = log \cup {<<r, status>>}

\* A final 402, and the row of whichever layer noticed it
Refuse(r, status) ==
    /\ Answer(r, "done", "refused")
    /\ Record(r, status)
    /\ UNCHANGED <<rail, auth, quoted, tx, spentBy, granted, today, seen,
                   nonces, protected>>

\* The MCP rail's error result, of which the requests table knows nothing
RefuseSilently(r) ==
    /\ Answer(r, "done", "refused")
    /\ UNCHANGED <<rail, auth, quoted, tx, spentBy, granted, log, today, seen,
                   nonces, protected>>

-----------------------------------------------------------------------------
(* CapacityGateMiddleware.__call__, which looks at the HTTP route only: a  *)
(* tool call is a POST to /mcp.                                            *)

Arrive(r, l, a) ==
    /\ pc[r] = "new"
    /\ Cardinality(InFlight) < MaxInFlight
    /\ IF l = "none" THEN a = NoAuth ELSE a = NoAuth => l = "mcp"
    /\ rail' = [rail EXCEPT ![r] = l]
    /\ auth' = [auth EXCEPT ![r] = a]
    /\ UNCHANGED <<quoted, tx, spentBy, granted, today, seen, nonces,
                   protected>>

Admit(r, l, a) ==
    /\ l = "mcp" \/ ~AtCapacity
    /\ Arrive(r, l, a)
    /\ Goto(r, IF l = "mpp" THEN "nonce" ELSE "verify")
    /\ UNCHANGED <<resp, log>>

RejectAtCapacity(r, l, a) ==
    /\ l # "mcp" /\ AtCapacity
    /\ Arrive(r, l, a)
    /\ Answer(r, "done", "refused")
    /\ Record(r, "capacity_reached")

-----------------------------------------------------------------------------
(* The x402 and MCP rails up to the handler.                               *)

\* No payment header: the SDK's own challenge, logged as a browse
Challenge(r) ==
    /\ pc[r] = "verify" /\ protected /\ rail[r] = "none"
    /\ Refuse(r, "unpaid")

\* The facilitator's answer to verify is the environment's choice
VerifyFails(r) ==
    /\ pc[r] = "verify" /\ protected /\ rail[r] = "x402"
    /\ Refuse(r, "payment_failed")

\* No payment in the tool call's _meta, or one that does not verify
ToolAsksPayment(r) ==
    /\ pc[r] = "verify" /\ rail[r] = "mcp"
    /\ RefuseSilently(r)

VerifySucceeds(r) ==
    /\ pc[r] = "verify"
    /\ \/ protected /\ rail[r] = "x402"
       \/ rail[r] = "mcp" /\ auth[r] # NoAuth
    /\ Goto(r, "handle")
    /\ UNCHANGED <<rail, auth, resp, quoted, tx, spentBy, granted, log, today,
                   seen, nonces, protected>>

\* A route missing from the SDK's table: the request reaches the handler with
\* no verified payer, and the engine's own check refuses it; the intent layer
\* then logs the same 402 a second time
HandlerRefusesUnverified(r) ==
    /\ pc[r] = "verify" /\ ~protected /\ rail[r] # "mcp"
    /\ Answer(r, "done", "refused")
    /\ log' = log \cup {<<r, "payment_failed">>,
                        <<r, IF rail[r] = "none" THEN "unpaid"
                                                 ELSE "payment_failed">>}
    /\ UNCHANGED <<rail, auth, quoted, tx, spentBy, granted, today, seen,
                   nonces, protected>>

-----------------------------------------------------------------------------
(* The MPP rail: MPPMiddleware._handle_mpp_credential.                      *)

\* Mutant: the nonce is burnt before the transfer has been sent
CredentialAcceptedBurns(r) ==
    /\ pc[r] = "nonce"
    /\ auth[r] \notin nonces
    /\ Goto(r, "broadcast")
    /\ nonces' = nonces \cup {auth[r]}
    /\ UNCHANGED <<rail, auth, resp, quoted, tx, spentBy, granted, log, today,
                   seen, protected>>

\* parse_credential, verify_credential, then has_mpp_nonce
CredentialRejected(r) ==
    /\ pc[r] = "nonce"
    /\ Refuse(r, "payment_failed")

CredentialAccepted(r) ==
    /\ pc[r] = "nonce"
    /\ auth[r] \notin nonces
    /\ Goto(r, "broadcast")
    /\ UNCHANGED <<rail, auth, resp, quoted, tx, spentBy, granted, log, today,
                   seen, nonces, protected>>

\* settle_credential returns as soon as send_transaction has a hash
Broadcast(r) ==
    /\ pc[r] = "broadcast"
    /\ Goto(r, "mark")
    /\ tx' = [tx EXCEPT ![r] = "submitted"]
    /\ UNCHANGED <<rail, auth, resp, quoted, spentBy, granted, log, today,
                   seen, nonces, protected>>

\* Nothing reached the chain; the nonce is deliberately not burnt
BroadcastFails(r) ==
    /\ pc[r] = "broadcast"
    /\ Refuse(r, "payment_failed")

\* mark_mpp_nonce_consumed, whose result is ignored, then the handler
MarkNonce(r) ==
    /\ pc[r] = "mark"
    /\ Goto(r, "handle")
    /\ nonces' = nonces \cup {auth[r]}
    /\ UNCHANGED <<rail, auth, resp, quoted, tx, spentBy, granted, log, today,
                   seen, protected>>

-----------------------------------------------------------------------------
(* The handler (purecalc/engine.py, base_chain/engine.py): nothing is      *)
(* written before the computation it awaits has ended.                     *)

\* Invalid input, a domain error or an upstream timeout: 422 or 504; an
\* unforeseen exception of an MCP tool leaves no row
HandlerFails(r) ==
    /\ pc[r] = "handle"
    /\ Answer(r, "done", "error")
    /\ \/ Record(r, "error")
       \/ rail[r] = "mcp" /\ UNCHANGED log
    /\ UNCHANGED <<rail, auth, quoted, tx, spentBy, granted, today, seen,
                   nonces, protected>>

\* Mutant: the 'paid' row is lost to an error that is swallowed
HandlerSucceedsUnlogged(r) ==
    /\ pc[r] = "handle"
    /\ quoted' = [quoted EXCEPT ![r] = EffectivePrice(Payer[auth[r]])]
    /\ IF rail[r] = "mpp" THEN Answer(r, "done", "delivered")
                          ELSE Goto(r, "hook") /\ UNCHANGED resp
    /\ UNCHANGED <<rail, auth, tx, spentBy, granted, log, today, seen, nonces,
                   protected>>

\* The preview of the price, then the 'paid' row: on the x402 rail, before
\* anything is settled
HandlerSucceeds(r) ==
    /\ pc[r] = "handle"
    /\ quoted' = [quoted EXCEPT ![r] = EffectivePrice(Payer[auth[r]])]
    /\ Record(r, "paid")
    /\ today' = today \cup {r}
    /\ IF rail[r] = "mpp" THEN Answer(r, "done", "delivered")
                          ELSE Goto(r, "hook") /\ UNCHANGED resp
    /\ UNCHANGED <<rail, auth, tx, spentBy, granted, seen, nonces, protected>>

-----------------------------------------------------------------------------
(* The x402 and MCP rails after the handler.                               *)

\* Mutants: the hook trusts the preview instead of its own INSERT; or records
\* the authorisation where the wallet belongs
HookGrantsOnPreview(r) ==
    /\ pc[r] = "hook" /\ quoted[r] = "free"
    /\ seen' = seen \cup {Payer[auth[r]]}
    /\ granted' = granted \cup {r}
    /\ Answer(r, "done", "delivered")
    /\ UNCHANGED <<rail, auth, quoted, tx, spentBy, log, today, nonces,
                   protected>>

HookGrantsToNonce(r) ==
    /\ pc[r] = "hook"
    /\ FreeFirstCall /\ auth[r] \notin seen
    /\ seen' = seen \cup {auth[r]}
    /\ granted' = granted \cup {r}
    /\ Answer(r, "done", "delivered")
    /\ UNCHANGED <<rail, auth, quoted, tx, spentBy, log, today, nonces,
                   protected>>

\* _first_call_free_hook: db.mark_wallet_seen inserted the row
HookGrants(r) ==
    /\ pc[r] = "hook"
    /\ FreeFirstCall /\ Payer[auth[r]] \notin seen
    /\ seen' = seen \cup {Payer[auth[r]]}
    /\ granted' = granted \cup {r}
    /\ Answer(r, "done", "delivered")
    /\ UNCHANGED <<rail, auth, quoted, tx, spentBy, log, today, nonces,
                   protected>>

\* Mutant: only a call that was quoted its full price goes on to settle
HookDeclinesOnPreview(r) ==
    /\ pc[r] = "hook"
    /\ ~(FreeFirstCall /\ Payer[auth[r]] \notin seen)
    /\ quoted[r] = "full"
    /\ Goto(r, "settle")
    /\ UNCHANGED <<rail, auth, resp, quoted, tx, spentBy, granted, log, today,
                   seen, nonces, protected>>

HookDeclines(r) ==
    /\ pc[r] = "hook"
    /\ ~(FreeFirstCall /\ Payer[auth[r]] \notin seen)
    /\ Goto(r, "settle")
    /\ UNCHANGED <<rail, auth, resp, quoted, tx, spentBy, granted, log, today,
                   seen, nonces, protected>>

\* The facilitator receives the settlement and submits the transfer
Submit(r) ==
    /\ pc[r] = "settle"
    /\ Goto(r, "await")
    /\ tx' = [tx EXCEPT ![r] = "submitted"]
    /\ UNCHANGED <<rail, auth, resp, quoted, spentBy, granted, log, today,
                   seen, nonces, protected>>

\* Mutant: the result is sent whatever the settlement's outcome
SettledUnchecked(r) ==
    /\ pc[r] = "await"
    /\ Answer(r, "done", "delivered")
    /\ UNCHANGED <<rail, auth, quoted, tx, spentBy, granted, log, today, seen,
                   nonces, protected>>

Settled(r) ==
    /\ pc[r] = "await" /\ tx[r] = "moved"
    /\ Answer(r, "done", "delivered")
    /\ UNCHANGED <<rail, auth, quoted, tx, spentBy, granted, log, today, seen,
                   nonces, protected>>

\* The result is thrown away: an empty 402 that the intent layer logs, or an
\* MCP error result
ResultWithheld(r) ==
    IF rail[r] = "mcp" THEN RefuseSilently(r) ELSE Refuse(r, "payment_failed")

\* Mutant: a settlement that takes too long is reported as failed
SettlementTimesOut(r) ==
    /\ pc[r] = "await"
    /\ ResultWithheld(r)

SettlementFails(r) ==
    /\ pc[r] = "await" /\ tx[r] = "reverted"
    /\ ResultWithheld(r)

-----------------------------------------------------------------------------
(* The environment.                                                        *)

\* The token contract consumes an authorisation once
Mine(r) ==
    /\ tx[r] = "submitted"
    /\ spentBy[auth[r]] = {}
    /\ tx' = [tx EXCEPT ![r] = "moved"]
    /\ spentBy' = [spentBy EXCEPT ![auth[r]] = {r}]
    /\ UNCHANGED <<pc, rail, auth, resp, quoted, granted, log, today, seen,
                   nonces, protected>>

\* Consumed already, no balance, or dropped
Revert(r) ==
    /\ tx[r] = "submitted"
    /\ tx' = [tx EXCEPT ![r] = "reverted"]
    /\ UNCHANGED <<pc, rail, auth, resp, quoted, spentBy, granted, log, today,
                   seen, nonces, protected>>

\* The facilitator settled, or will, and its answer never comes
LoseAnswer(r) ==
    /\ "lostAnswer" \in Faults
    /\ pc[r] = "await"
    /\ ResultWithheld(r)

\* The container dies or is stopped with the request in progress: one such
\* step for each request it held
Abandon(r) ==
    /\ "crash" \in Faults
    /\ r \in InFlight
    /\ Goto(r, "dead")
    /\ UNCHANGED <<rail, auth, resp, quoted, tx, spentBy, granted, log, today,
                   seen, nonces, protected>>

\* The UTC date changes: count_paid_today starts from zero
Midnight ==
    /\ today # {}
    /\ today' = {}
    /\ UNCHANGED <<pc, rail, auth, resp, quoted, tx, spentBy, granted, log,
                   seen, nonces, protected>>

-----------------------------------------------------------------------------
\* The steps the process itself takes for a request it has admitted
Advance(r) ==
    \/ Challenge(r) \/ VerifyFails(r) \/ ToolAsksPayment(r)
    \/ VerifySucceeds(r) \/ HandlerRefusesUnverified(r)
    \/ CredentialRejected(r) \/ CredentialAccepted(r)
    \/ Broadcast(r) \/ BroadcastFails(r) \/ MarkNonce(r)
    \/ HandlerFails(r) \/ HandlerSucceeds(r)
    \/ HookGrants(r) \/ HookDeclines(r)
    \/ Submit(r) \/ Settled(r) \/ SettlementFails(r) \/ LoseAnswer(r)

Chain(r) == Mine(r) \/ Revert(r)

Next ==
    \/ \E r \in Requests, l \in Rails, a \in Auths \cup {NoAuth} :
           Admit(r, l, a) \/ RejectAtCapacity(r, l, a)
    \/ \E r \in Requests : Advance(r) \/ Chain(r) \/ Abandon(r)
    \/ Midnight

Spec == Init /\ [][Next]_vars

\* Every await in the stack is bounded by a client's timeout, and the chain
\* mines or drops what it was sent
Fairness == \A r \in Requests : WF_vars(Advance(r)) /\ WF_vars(Chain(r))

FairSpec == Spec /\ Fairness

-----------------------------------------------------------------------------
(* What the route must guarantee.                                          *)

\* The rails that verify, run the handler, and then settle
SettlesLast(r) == rail[r] \in {"x402", "mcp"}

\* An x402 or MCP buyer holds the handler's result only against the transfer
\* made for this very call, or the one call given away: two calls that race
\* with the same authorisation are both verified and both run, and at most
\* one of them is answered with its result.  Also when the route is missing
\* from the SDK's table.
ServedIsPaidFor ==
    \A r \in Requests :
        resp[r] = "delivered" /\ SettlesLast(r) =>
            r \in granted \/ spentBy[auth[r]] = {r}

\* However the first calls of a wallet interleave, the before-settle hook
\* waives one of them
OneGrantPerWallet ==
    \A r, s \in granted : Payer[auth[r]] = Payer[auth[s]] => r = s

\* A call answered with an error or a 402 costs its buyer nothing, then or
\* later: the "not charged" of the error bodies and the refund policy
FailureIsFree ==
    \A r \in Requests : resp[r] \in {"refused", "error"} => tx[r] # "moved"

\* The gate counts rows written long after it looked: without MCP calls, the
\* day's paid calls exceed the limit by no more than the calls that were in
\* flight with the last one admitted
OvershootBounded ==
    "mcp" \notin Rails => Cardinality(today) < DailyLimit + MaxInFlight

\* On the x402 and MCP rails no money moves, and no call is given away, without its
\* 'paid' row already in the table, whatever dies in between
IncomeIsLogged ==
    \A r \in Requests :
        SettlesLast(r) /\ (tx[r] # "none" \/ r \in granted) =>
            <<r, "paid">> \in log

\* A call the hook gave away was shown as free: the read-only preview can be
\* outdated in one direction only
GrantWasQuotedFree == \A r \in granted : quoted[r] = "free"

\* An MPP nonce is burnt only for an authorisation that was sent to the
\* chain: a failed broadcast leaves the buyer's authorisation usable, also
\* across a crash
BurntNonceWasSent ==
    \A a \in nonces : \E r \in Requests :
        rail[r] = "mpp" /\ auth[r] = a /\ tx[r] # "none"

\* Every call the gate admits is answered, unless its container dies
EveryCallAnswered ==
    \A r \in Requests : r \in InFlight ~> resp[r] # "none" \/ pc[r] = "dead"

\* The route sells as Sale promises: the sale is the step that moves the
\* money, and the answer that follows is its delivery
Outcome(r) ==
    IF resp[r] \in {"refused", "error"} THEN "refused"
    ELSE IF r \in granted THEN "gift"
    ELSE IF tx[r] = "moved" THEN "sold"
    ELSE "open"

Offer == INSTANCE Sale WITH
    deal <- [r \in Requests |-> Outcome(r)],
    paidWith <- [r \in Requests |->
        IF Outcome(r) \in {"sold", "gift"} THEN auth[r] ELSE NoAuth]

SellsAsPromised == Offer!SaleSpec

-----------------------------------------------------------------------------
(* The inductive invariant behind the safety properties.                   *)

Parked == {"new", "verify", "done", "dead"}

\* Which rails lead to a place, and that an authorisation came along
RailFitsPlace ==
    \A r \in Requests :
        /\ pc[r] \in {"nonce", "broadcast", "mark"} => rail[r] = "mpp"
        /\ pc[r] \in {"hook", "settle", "await"} => SettlesLast(r)
        /\ pc[r] \notin Parked => auth[r] \in Auths
        /\ pc[r] = "handle" => rail[r] # "none"
        /\ rail[r] \in {"x402", "mpp"} => auth[r] \in Auths

\* When a transfer has been submitted, and whose it is
TransferFitsPlace ==
    \A r \in Requests :
        /\ pc[r] \in {"new", "verify", "nonce", "broadcast"} => tx[r] = "none"
        /\ pc[r] \in {"handle", "hook", "settle"} /\ SettlesLast(r)
               => tx[r] = "none"
        /\ pc[r] = "mark" => tx[r] # "none"
        /\ tx[r] # "none" => auth[r] \in Auths
        /\ tx[r] = "moved" => spentBy[auth[r]] = {r}

\* When the 'paid' row exists
RowFitsPlace ==
    \A r \in Requests :
        /\ pc[r] \in {"hook", "settle", "await"} => <<r, "paid">> \in log
        /\ SettlesLast(r) /\ tx[r] # "none" => <<r, "paid">> \in log

\* When the buyer has been answered, and what a result rests on
AnswerFitsPlace ==
    \A r \in Requests :
        /\ resp[r] # "none" => pc[r] = "done"
        /\ resp[r] = "delivered" /\ SettlesLast(r) =>
               r \in granted \/ tx[r] = "moved"

\* What the hook has recorded for the calls it gave away
GrantIsRecorded ==
    \A r \in granted :
        /\ pc[r] = "done" /\ SettlesLast(r) /\ auth[r] \in Auths
        /\ Payer[auth[r]] \in seen
        /\ <<r, "paid">> \in log

\* A wallet the hook would still favour was quoted a free call
PreviewAgesOneWay ==
    \A r \in Requests :
        pc[r] = "hook" /\ FreeFirstCall /\ Payer[auth[r]] \notin seen =>
            quoted[r] = "free"

\* Calls past the gate that may still write a 'paid' row
WillCount == {r \in Requests :
                 pc[r] \in {"verify", "nonce", "broadcast", "mark", "handle"}}

GateInv ==
    "mcp" \notin Rails =>
        Cardinality(today \cup WillCount) < DailyLimit + MaxInFlight

SalesInv ==
    /\ RailFitsPlace
    /\ TransferFitsPlace
    /\ RowFitsPlace
    /\ AnswerFitsPlace
    /\ GrantIsRecorded
    /\ PreviewAgesOneWay
    /\ GrantWasQuotedFree
    /\ OneGrantPerWallet
    /\ BurntNonceWasSent
=============================================================================
