--------------------------- MODULE PaidRouteProofs ---------------------------
(***************************************************************************)
(* Proofs of the safety of PaidRoute, for any number of calls, wallets and *)
(* authorisations, any mix of rails and any faults; and of its refinement  *)
(* of Sale, on the rails and under the faults where it does implement it.  *)
(***************************************************************************)
EXTENDS PaidRoute, FiniteSetTheorems, TLAPS

\* Every step of every actor keeps the types of the state, given that a call
\* past its verification carries an authorisation.
LEMMA TypeStep == TypeOK /\ RailFitsPlace /\ [Next]_vars => TypeOK'
<1> SUFFICES ASSUME TypeOK, RailFitsPlace, [Next]_vars
             PROVE  TypeOK'
  OBVIOUS
<1> USE DEF TypeOK, Places, Statuses
<1>1. TypeOK'
  <2>1. ASSUME NEW r \in Requests, NEW l \in Rails, NEW a \in Auths \cup {NoAuth},
               Admit(r, l, a)
        PROVE  TypeOK'
    BY <2>1, ConstantsAssumption DEF Admit, Arrive, Goto, RailFitsPlace, Parked
  <2>2. ASSUME NEW r \in Requests, NEW l \in Rails, NEW a \in Auths \cup {NoAuth},
               RejectAtCapacity(r, l, a)
        PROVE  TypeOK'
    BY <2>2, ConstantsAssumption
       DEF RejectAtCapacity, Arrive, Answer, Goto, Record, RailFitsPlace, Parked
  <2>3. ASSUME NEW r \in Requests, Challenge(r)
        PROVE  TypeOK'
    BY <2>3, ConstantsAssumption
       DEF Challenge, Refuse, Answer, Goto, Record, RailFitsPlace, Parked
  <2>4. ASSUME NEW r \in Requests, VerifyFails(r)
        PROVE  TypeOK'
    BY <2>4, ConstantsAssumption
       DEF VerifyFails, Refuse, Answer, Goto, Record, RailFitsPlace, Parked
  <2>5. ASSUME NEW r \in Requests, ToolAsksPayment(r)
        PROVE  TypeOK'
    BY <2>5, ConstantsAssumption
       DEF ToolAsksPayment, RefuseSilently, Answer, Goto, RailFitsPlace, Parked
  <2>6. ASSUME NEW r \in Requests, VerifySucceeds(r)
        PROVE  TypeOK'
    BY <2>6, ConstantsAssumption
       DEF VerifySucceeds, Goto, RailFitsPlace, Parked
  <2>7. ASSUME NEW r \in Requests, HandlerRefusesUnverified(r)
        PROVE  TypeOK'
    BY <2>7, ConstantsAssumption
       DEF HandlerRefusesUnverified, Answer, Goto, RailFitsPlace, Parked
  <2>8. ASSUME NEW r \in Requests, CredentialRejected(r)
        PROVE  TypeOK'
    BY <2>8, ConstantsAssumption
       DEF CredentialRejected, Refuse, Answer, Goto, Record, RailFitsPlace, Parked
  <2>9. ASSUME NEW r \in Requests, CredentialAccepted(r)
        PROVE  TypeOK'
    BY <2>9, ConstantsAssumption
       DEF CredentialAccepted, Goto, RailFitsPlace, Parked
  <2>10. ASSUME NEW r \in Requests, Broadcast(r)
        PROVE  TypeOK'
    BY <2>10, ConstantsAssumption
       DEF Broadcast, Goto, RailFitsPlace, Parked
  <2>11. ASSUME NEW r \in Requests, BroadcastFails(r)
        PROVE  TypeOK'
    BY <2>11, ConstantsAssumption
       DEF BroadcastFails, Refuse, Answer, Goto, Record, RailFitsPlace, Parked
  <2>12. ASSUME NEW r \in Requests, MarkNonce(r)
        PROVE  TypeOK'
    BY <2>12, ConstantsAssumption
       DEF MarkNonce, Goto, RailFitsPlace, Parked
  <2>13. ASSUME NEW r \in Requests, HandlerFails(r)
        PROVE  TypeOK'
    BY <2>13, ConstantsAssumption
       DEF HandlerFails, Answer, Goto, Record, RailFitsPlace, Parked
  <2>14. ASSUME NEW r \in Requests, HandlerSucceeds(r)
        PROVE  TypeOK'
    BY <2>14, ConstantsAssumption
       DEF HandlerSucceeds, Answer, Goto, Record, EffectivePrice, RailFitsPlace, Parked
  <2>15. ASSUME NEW r \in Requests, HookGrants(r)
        PROVE  TypeOK'
    BY <2>15, ConstantsAssumption
       DEF HookGrants, Answer, Goto, RailFitsPlace, Parked
  <2>16. ASSUME NEW r \in Requests, HookDeclines(r)
        PROVE  TypeOK'
    BY <2>16, ConstantsAssumption
       DEF HookDeclines, Goto, RailFitsPlace, Parked
  <2>17. ASSUME NEW r \in Requests, Submit(r)
        PROVE  TypeOK'
    BY <2>17, ConstantsAssumption
       DEF Submit, Goto, RailFitsPlace, Parked
  <2>18. ASSUME NEW r \in Requests, Settled(r)
        PROVE  TypeOK'
    BY <2>18, ConstantsAssumption
       DEF Settled, Answer, Goto, RailFitsPlace, Parked
  <2>19. ASSUME NEW r \in Requests, SettlementFails(r)
        PROVE  TypeOK'
    BY <2>19, ConstantsAssumption
       DEF SettlementFails, ResultWithheld, RefuseSilently, Refuse, Answer, Goto, Record, RailFitsPlace, Parked
  <2>20. ASSUME NEW r \in Requests, LoseAnswer(r)
        PROVE  TypeOK'
    BY <2>20, ConstantsAssumption
       DEF LoseAnswer, ResultWithheld, RefuseSilently, Refuse, Answer, Goto, Record, RailFitsPlace, Parked
  <2>21. ASSUME NEW r \in Requests, Mine(r)
        PROVE  TypeOK'
    <3>1. /\ UNCHANGED <<pc, rail, auth, resp, quoted, granted, log, today, seen, nonces, protected>>
          /\ tx' = [tx EXCEPT ![r] = "moved"] /\ spentBy' = [spentBy EXCEPT ![auth[r]] = {r}]
      BY <2>21 DEF Mine
    <3>2. tx' \in [Requests -> {"none", "submitted", "moved", "reverted"}]
      BY <3>1
    <3>3. spentBy' \in [Auths -> SUBSET Requests]
      BY <3>1
    <3> QED BY <3>1, <3>2, <3>3
  <2>22. ASSUME NEW r \in Requests, Revert(r)
        PROVE  TypeOK'
    BY <2>22, ConstantsAssumption
       DEF Revert, RailFitsPlace, Parked
  <2>23. ASSUME NEW r \in Requests, Abandon(r)
        PROVE  TypeOK'
    BY <2>23, ConstantsAssumption
       DEF Abandon, Goto, InFlight, RailFitsPlace, Parked
  <2>24. CASE Midnight
    BY <2>24 DEF Midnight, RailFitsPlace, Parked
  <2>25. CASE UNCHANGED vars
    BY <2>25 DEF vars, RailFitsPlace, Parked
  <2>26. QED
    BY <2>1, <2>2, <2>3, <2>4, <2>5, <2>6, <2>7, <2>8, <2>9, <2>10, <2>11, <2>12, <2>13, <2>14, <2>15, <2>16, <2>17, <2>18, <2>19, <2>20, <2>21, <2>22, <2>23, <2>24, <2>25
       DEF Next, Advance, Chain
<1> QED
  BY <1>1

\* No step takes a call to a place its rail does not lead to.
LEMMA RailStep == TypeOK /\ RailFitsPlace /\ [Next]_vars => RailFitsPlace'
<1> SUFFICES ASSUME TypeOK, RailFitsPlace, [Next]_vars
             PROVE  RailFitsPlace'
  OBVIOUS
<1> USE DEF TypeOK, Places, RailFitsPlace, Parked, SettlesLast
<1>1. RailFitsPlace'
  <2>1. ASSUME NEW r \in Requests, NEW l \in Rails, NEW a \in Auths \cup {NoAuth},
               Admit(r, l, a)
        PROVE  RailFitsPlace'
    BY <2>1, ConstantsAssumption DEF Admit, Arrive, Goto
  <2>2. ASSUME NEW r \in Requests, NEW l \in Rails, NEW a \in Auths \cup {NoAuth},
               RejectAtCapacity(r, l, a)
        PROVE  RailFitsPlace'
    BY <2>2, ConstantsAssumption
       DEF RejectAtCapacity, Arrive, Answer, Goto, Record
  <2>3. ASSUME NEW r \in Requests, Challenge(r)
        PROVE  RailFitsPlace'
    BY <2>3, ConstantsAssumption
       DEF Challenge, Refuse, Answer, Goto, Record
  <2>4. ASSUME NEW r \in Requests, VerifyFails(r)
        PROVE  RailFitsPlace'
    BY <2>4, ConstantsAssumption
       DEF VerifyFails, Refuse, Answer, Goto, Record
  <2>5. ASSUME NEW r \in Requests, ToolAsksPayment(r)
        PROVE  RailFitsPlace'
    BY <2>5, ConstantsAssumption
       DEF ToolAsksPayment, RefuseSilently, Answer, Goto
  <2>6. ASSUME NEW r \in Requests, VerifySucceeds(r)
        PROVE  RailFitsPlace'
    BY <2>6, ConstantsAssumption
       DEF VerifySucceeds, Goto
  <2>7. ASSUME NEW r \in Requests, HandlerRefusesUnverified(r)
        PROVE  RailFitsPlace'
    BY <2>7, ConstantsAssumption
       DEF HandlerRefusesUnverified, Answer, Goto
  <2>8. ASSUME NEW r \in Requests, CredentialRejected(r)
        PROVE  RailFitsPlace'
    BY <2>8, ConstantsAssumption
       DEF CredentialRejected, Refuse, Answer, Goto, Record
  <2>9. ASSUME NEW r \in Requests, CredentialAccepted(r)
        PROVE  RailFitsPlace'
    BY <2>9, ConstantsAssumption
       DEF CredentialAccepted, Goto
  <2>10. ASSUME NEW r \in Requests, Broadcast(r)
        PROVE  RailFitsPlace'
    BY <2>10, ConstantsAssumption
       DEF Broadcast, Goto
  <2>11. ASSUME NEW r \in Requests, BroadcastFails(r)
        PROVE  RailFitsPlace'
    BY <2>11, ConstantsAssumption
       DEF BroadcastFails, Refuse, Answer, Goto, Record
  <2>12. ASSUME NEW r \in Requests, MarkNonce(r)
        PROVE  RailFitsPlace'
    BY <2>12, ConstantsAssumption
       DEF MarkNonce, Goto
  <2>13. ASSUME NEW r \in Requests, HandlerFails(r)
        PROVE  RailFitsPlace'
    BY <2>13, ConstantsAssumption
       DEF HandlerFails, Answer, Goto, Record
  <2>14. ASSUME NEW r \in Requests, HandlerSucceeds(r)
        PROVE  RailFitsPlace'
    <3>1. rail[r] \in {"x402", "mpp", "mcp"}
      BY <2>14, ConstantsAssumption DEF HandlerSucceeds
    <3>2. CASE rail[r] = "mpp"
      BY <2>14, <3>2 DEF HandlerSucceeds, Answer, Goto
    <3>3. CASE rail[r] # "mpp"
      BY <2>14, <3>1, <3>3 DEF HandlerSucceeds, Goto
    <3>4. QED
      BY <3>2, <3>3
  <2>15. ASSUME NEW r \in Requests, HookGrants(r)
        PROVE  RailFitsPlace'
    BY <2>15, ConstantsAssumption
       DEF HookGrants, Answer, Goto
  <2>16. ASSUME NEW r \in Requests, HookDeclines(r)
        PROVE  RailFitsPlace'
    BY <2>16, ConstantsAssumption
       DEF HookDeclines, Goto
  <2>17. ASSUME NEW r \in Requests, Submit(r)
        PROVE  RailFitsPlace'
    BY <2>17, ConstantsAssumption
       DEF Submit, Goto
  <2>18. ASSUME NEW r \in Requests, Settled(r)
        PROVE  RailFitsPlace'
    BY <2>18, ConstantsAssumption
       DEF Settled, Answer, Goto
  <2>19. ASSUME NEW r \in Requests, SettlementFails(r)
        PROVE  RailFitsPlace'
    BY <2>19, ConstantsAssumption
       DEF SettlementFails, ResultWithheld, RefuseSilently, Refuse, Answer, Goto, Record
  <2>20. ASSUME NEW r \in Requests, LoseAnswer(r)
        PROVE  RailFitsPlace'
    BY <2>20, ConstantsAssumption
       DEF LoseAnswer, ResultWithheld, RefuseSilently, Refuse, Answer, Goto, Record
  <2>21. ASSUME NEW r \in Requests, Mine(r)
        PROVE  RailFitsPlace'
    BY <2>21, ConstantsAssumption
       DEF Mine
  <2>22. ASSUME NEW r \in Requests, Revert(r)
        PROVE  RailFitsPlace'
    BY <2>22, ConstantsAssumption
       DEF Revert
  <2>23. ASSUME NEW r \in Requests, Abandon(r)
        PROVE  RailFitsPlace'
    BY <2>23, ConstantsAssumption
       DEF Abandon, Goto, InFlight
  <2>24. CASE Midnight
    BY <2>24 DEF Midnight
  <2>25. CASE UNCHANGED vars
    BY <2>25 DEF vars
  <2>26. QED
    BY <2>1, <2>2, <2>3, <2>4, <2>5, <2>6, <2>7, <2>8, <2>9, <2>10, <2>11, <2>12, <2>13, <2>14, <2>15, <2>16, <2>17, <2>18, <2>19, <2>20, <2>21, <2>22, <2>23, <2>24, <2>25
       DEF Next, Advance, Chain
<1> QED
  BY <1>1

\* The state of the stack, of the shared tables and of the chain is always well
\* typed, and every call stands where its rail leads.
THEOREM TypeCorrect == Spec => [](TypeOK /\ RailFitsPlace)
<1>1. Init => TypeOK /\ RailFitsPlace
  BY ConstantsAssumption DEF Init, TypeOK, Places, RailFitsPlace, Parked, SettlesLast
<1> QED
  BY <1>1, TypeStep, RailStep, PTL DEF Spec

\* What the hook recorded survives every step that leaves the granted calls,
\* their wallets and their rows alone.
LEMMA GrantsKept ==
    ASSUME GrantIsRecorded, OneGrantPerWallet, GrantWasQuotedFree,
           granted' = granted, seen \subseteq seen', log \subseteq log',
           \A s \in granted : /\ pc'[s] = pc[s] /\ rail'[s] = rail[s]
                              /\ auth'[s] = auth[s] /\ quoted'[s] = quoted[s]
    PROVE  GrantIsRecorded' /\ OneGrantPerWallet' /\ GrantWasQuotedFree'
  BY DEF GrantIsRecorded, OneGrantPerWallet, GrantWasQuotedFree, SettlesLast

\* Rows are only added, so a step of one call keeps every other call's row.
LEMMA RowsKept ==
    ASSUME RowFitsPlace, NEW r \in Requests, log \subseteq log',
           \A s \in Requests : s # r =>
               pc'[s] = pc[s] /\ rail'[s] = rail[s] /\ tx'[s] = tx[s],
           \/ <<r, "paid">> \in log'
           \/ pc'[r] \notin {"hook", "settle", "await"} /\ tx'[r] = "none"
    PROVE  RowFitsPlace'
  BY DEF RowFitsPlace, SettlesLast

LEMMA SalesStep ==
    TypeOK /\ SalesInv /\ [Next]_vars => SalesInv'
<1> SUFFICES ASSUME TypeOK, SalesInv, [Next]_vars
             PROVE  SalesInv'
  OBVIOUS
<1> USE DEF TypeOK, Places, SalesInv, RailFitsPlace, Parked, SettlesLast,
            TransferFitsPlace, RowFitsPlace, AnswerFitsPlace, GrantIsRecorded,
            PreviewAgesOneWay, GrantWasQuotedFree, OneGrantPerWallet,
            BurntNonceWasSent
<1>1. SalesInv'
  <2>1. ASSUME NEW r \in Requests, NEW l \in Rails, NEW a \in Auths \cup {NoAuth},
               Admit(r, l, a)
        PROVE  SalesInv'
    <3>1. RailFitsPlace' /\ TransferFitsPlace'
      BY <2>1, ConstantsAssumption DEF Admit, Arrive, Goto
    <3>2. AnswerFitsPlace' /\ PreviewAgesOneWay' /\ BurntNonceWasSent'
      BY <2>1, ConstantsAssumption DEF Admit, Arrive, Goto
    <3>3. /\ pc[r] = "new" /\ tx[r] = "none"
          /\ pc'[r] \notin {"hook", "settle", "await"}
          /\ log \subseteq log' /\ UNCHANGED <<tx, quoted, granted, seen>>
      BY <2>1 DEF Admit, Arrive, Goto
    <3>4. \A s \in Requests : s # r =>
              pc'[s] = pc[s] /\ rail'[s] = rail[s] /\ auth'[s] = auth[s]
      BY <2>1 DEF Admit, Arrive, Goto
    <3>5. r \notin granted
      BY <3>3
    <3> HIDE DEF TypeOK, Places, SalesInv, RailFitsPlace, Parked, SettlesLast,
                 TransferFitsPlace, RowFitsPlace, AnswerFitsPlace, GrantIsRecorded,
                 PreviewAgesOneWay, GrantWasQuotedFree, OneGrantPerWallet,
                 BurntNonceWasSent
    <3>6. RowFitsPlace'
      BY <3>3, <3>4, RowsKept DEF SalesInv
    <3>7. GrantIsRecorded' /\ OneGrantPerWallet' /\ GrantWasQuotedFree'
      <4>1. \A s \in granted : s \in Requests /\ s # r
        BY <3>5 DEF TypeOK
      <4> QED
        BY <4>1, <3>3, <3>4, GrantsKept DEF SalesInv
    <3> QED
      BY <3>1, <3>2, <3>6, <3>7 DEF SalesInv
  <2>2. ASSUME NEW r \in Requests, NEW l \in Rails, NEW a \in Auths \cup {NoAuth},
               RejectAtCapacity(r, l, a)
        PROVE  SalesInv'
    <3>1. RailFitsPlace' /\ TransferFitsPlace'
      BY <2>2, ConstantsAssumption DEF RejectAtCapacity, Arrive, Answer, Goto, Record
    <3>2. AnswerFitsPlace' /\ PreviewAgesOneWay' /\ BurntNonceWasSent'
      BY <2>2, ConstantsAssumption DEF RejectAtCapacity, Arrive, Answer, Goto, Record
    <3>3. /\ pc[r] = "new" /\ tx[r] = "none"
          /\ pc'[r] \notin {"hook", "settle", "await"}
          /\ log \subseteq log' /\ UNCHANGED <<tx, quoted, granted, seen>>
      BY <2>2 DEF RejectAtCapacity, Arrive, Answer, Goto, Record
    <3>4. \A s \in Requests : s # r =>
              pc'[s] = pc[s] /\ rail'[s] = rail[s] /\ auth'[s] = auth[s]
      BY <2>2 DEF RejectAtCapacity, Arrive, Answer, Goto, Record
    <3>5. r \notin granted
      BY <3>3
    <3> HIDE DEF TypeOK, Places, SalesInv, RailFitsPlace, Parked, SettlesLast,
                 TransferFitsPlace, RowFitsPlace, AnswerFitsPlace, GrantIsRecorded,
                 PreviewAgesOneWay, GrantWasQuotedFree, OneGrantPerWallet,
                 BurntNonceWasSent
    <3>6. RowFitsPlace'
      BY <3>3, <3>4, RowsKept DEF SalesInv
    <3>7. GrantIsRecorded' /\ OneGrantPerWallet' /\ GrantWasQuotedFree'
      <4>1. \A s \in granted : s \in Requests /\ s # r
        BY <3>5 DEF TypeOK
      <4> QED
        BY <4>1, <3>3, <3>4, GrantsKept DEF SalesInv
    <3> QED
      BY <3>1, <3>2, <3>6, <3>7 DEF SalesInv
  <2>3. ASSUME NEW r \in Requests, Challenge(r)
        PROVE  SalesInv'
    BY <2>3, ConstantsAssumption
       DEF Challenge, Refuse, Answer, Goto, Record
  <2>4. ASSUME NEW r \in Requests, VerifyFails(r)
        PROVE  SalesInv'
    BY <2>4, ConstantsAssumption
       DEF VerifyFails, Refuse, Answer, Goto, Record
  <2>5. ASSUME NEW r \in Requests, ToolAsksPayment(r)
        PROVE  SalesInv'
    BY <2>5, ConstantsAssumption
       DEF ToolAsksPayment, RefuseSilently, Answer, Goto
  <2>6. ASSUME NEW r \in Requests, VerifySucceeds(r)
        PROVE  SalesInv'
    BY <2>6, ConstantsAssumption
       DEF VerifySucceeds, Goto
  <2>7. ASSUME NEW r \in Requests, HandlerRefusesUnverified(r)
        PROVE  SalesInv'
    BY <2>7, ConstantsAssumption
       DEF HandlerRefusesUnverified, Answer, Goto
  <2>8. ASSUME NEW r \in Requests, CredentialRejected(r)
        PROVE  SalesInv'
    BY <2>8, ConstantsAssumption
       DEF CredentialRejected, Refuse, Answer, Goto, Record
  <2>9. ASSUME NEW r \in Requests, CredentialAccepted(r)
        PROVE  SalesInv'
    BY <2>9, ConstantsAssumption
       DEF CredentialAccepted, Goto
  <2>10. ASSUME NEW r \in Requests, Broadcast(r)
        PROVE  SalesInv'
    BY <2>10, ConstantsAssumption
       DEF Broadcast, Goto
  <2>11. ASSUME NEW r \in Requests, BroadcastFails(r)
        PROVE  SalesInv'
    BY <2>11, ConstantsAssumption
       DEF BroadcastFails, Refuse, Answer, Goto, Record
  <2>12. ASSUME NEW r \in Requests, MarkNonce(r)
        PROVE  SalesInv'
    BY <2>12, ConstantsAssumption
       DEF MarkNonce, Goto
  <2>13. ASSUME NEW r \in Requests, HandlerFails(r)
        PROVE  SalesInv'
    BY <2>13, ConstantsAssumption
       DEF HandlerFails, Answer, Goto, Record
  <2>14. ASSUME NEW r \in Requests, HandlerSucceeds(r)
        PROVE  SalesInv'
    <3>1. pc[r] = "handle" /\ r \notin granted
      BY <2>14 DEF HandlerSucceeds
    <3>2. /\ pc' = [pc EXCEPT ![r] = IF rail[r] = "mpp" THEN "done" ELSE "hook"]
          /\ quoted' = [quoted EXCEPT ![r] = EffectivePrice(Payer[auth[r]])]
          /\ log' = log \cup {<<r, "paid">>}
          /\ UNCHANGED <<rail, auth, tx, spentBy, granted, seen, nonces>>
      BY <2>14 DEF HandlerSucceeds, Answer, Goto, Record
    <3>3. TransferFitsPlace' /\ AnswerFitsPlace' /\ BurntNonceWasSent'
      BY <2>14 DEF HandlerSucceeds, Answer, Goto, Record
    <3>4. PreviewAgesOneWay'
      BY <3>2 DEF EffectivePrice
    <3>5. rail[r] # "mpp" => SettlesLast(r)
      <4> HIDE DEF SalesInv, TransferFitsPlace, RowFitsPlace, AnswerFitsPlace,
                   GrantIsRecorded, PreviewAgesOneWay, GrantWasQuotedFree,
                   OneGrantPerWallet, BurntNonceWasSent
      <4>1. rail[r] \in Rails /\ rail[r] # "none"
        BY <3>1 DEF SalesInv
      <4> QED
        BY <4>1, ConstantsAssumption
    <3> HIDE DEF TypeOK, Places, SalesInv, RailFitsPlace, Parked, SettlesLast,
                 TransferFitsPlace, RowFitsPlace, AnswerFitsPlace, GrantIsRecorded,
                 PreviewAgesOneWay, GrantWasQuotedFree, OneGrantPerWallet,
                 BurntNonceWasSent
    <3>6. \A s \in Requests : s # r => pc'[s] = pc[s] /\ quoted'[s] = quoted[s]
      BY <3>2 DEF TypeOK
    <3>7. RailFitsPlace'
      BY <3>1, <3>2, <3>5, <3>6 DEF TypeOK, SalesInv, RailFitsPlace, Parked, SettlesLast
    <3>8. RowFitsPlace'
      BY <3>2, <3>6, RowsKept DEF SalesInv
    <3>9. GrantIsRecorded' /\ OneGrantPerWallet' /\ GrantWasQuotedFree'
      <4>1. \A s \in granted : s \in Requests /\ s # r
        BY <3>1 DEF TypeOK
      <4> QED
        BY <4>1, <3>2, <3>6, GrantsKept DEF SalesInv
    <3> QED
      BY <3>3, <3>4, <3>7, <3>8, <3>9 DEF SalesInv
  <2>15. ASSUME NEW r \in Requests, HookGrants(r)
        PROVE  SalesInv'
    <3>1. /\ pc[r] = "hook" /\ FreeFirstCall /\ Payer[auth[r]] \notin seen
          /\ pc' = [pc EXCEPT ![r] = "done"]
          /\ granted' = granted \cup {r}
          /\ seen' = seen \cup {Payer[auth[r]]}
          /\ UNCHANGED <<rail, auth, quoted, tx, log>>
      BY <2>15 DEF HookGrants, Answer, Goto
    <3>2. RailFitsPlace' /\ TransferFitsPlace' /\ AnswerFitsPlace'
      BY <2>15 DEF HookGrants, Answer, Goto
    <3>3. PreviewAgesOneWay' /\ BurntNonceWasSent'
      BY <2>15 DEF HookGrants, Answer, Goto
    <3>4. /\ r \notin granted /\ quoted[r] = "free" /\ <<r, "paid">> \in log
          /\ SettlesLast(r) /\ auth[r] \in Auths
      BY <3>1
    <3>5. \A s \in granted : Payer[auth[s]] # Payer[auth[r]]
      BY <3>1
    <3> HIDE DEF TypeOK, Places, SalesInv, RailFitsPlace, Parked, SettlesLast,
                 TransferFitsPlace, RowFitsPlace, AnswerFitsPlace, GrantIsRecorded,
                 PreviewAgesOneWay, GrantWasQuotedFree, OneGrantPerWallet,
                 BurntNonceWasSent
    <3>6. pc'[r] = "done" /\ \A s \in Requests : s # r => pc'[s] = pc[s]
      BY <3>1 DEF TypeOK
    <3>7. \A s \in granted : s \in Requests /\ s # r
      BY <3>4 DEF TypeOK
    <3>8. RowFitsPlace'
      BY <3>1, <3>4, <3>6, RowsKept DEF SalesInv
    <3>9. GrantIsRecorded'
      BY <3>1, <3>4, <3>6, <3>7 DEF SalesInv, GrantIsRecorded, SettlesLast
    <3>10. OneGrantPerWallet'
      BY <3>1, <3>5 DEF SalesInv, OneGrantPerWallet
    <3>11. GrantWasQuotedFree'
      BY <3>1, <3>4 DEF SalesInv, GrantWasQuotedFree
    <3> QED
      BY <3>2, <3>3, <3>8, <3>9, <3>10, <3>11 DEF SalesInv
  <2>16. ASSUME NEW r \in Requests, HookDeclines(r)
        PROVE  SalesInv'
    BY <2>16, ConstantsAssumption
       DEF HookDeclines, Goto
  <2>17. ASSUME NEW r \in Requests, Submit(r)
        PROVE  SalesInv'
    BY <2>17, ConstantsAssumption
       DEF Submit, Goto
  <2>18. ASSUME NEW r \in Requests, Settled(r)
        PROVE  SalesInv'
    BY <2>18, ConstantsAssumption
       DEF Settled, Answer, Goto
  <2>19. ASSUME NEW r \in Requests, SettlementFails(r)
        PROVE  SalesInv'
    BY <2>19, ConstantsAssumption
       DEF SettlementFails, ResultWithheld, RefuseSilently, Refuse, Answer, Goto, Record
  <2>20. ASSUME NEW r \in Requests, LoseAnswer(r)
        PROVE  SalesInv'
    BY <2>20, ConstantsAssumption
       DEF LoseAnswer, ResultWithheld, RefuseSilently, Refuse, Answer, Goto, Record
  <2>21. ASSUME NEW r \in Requests, Mine(r)
        PROVE  SalesInv'
    <3>1. /\ tx[r] = "submitted" /\ spentBy[auth[r]] = {}
          /\ tx' = [tx EXCEPT ![r] = "moved"]
          /\ spentBy' = [spentBy EXCEPT ![auth[r]] = {r}]
          /\ UNCHANGED <<pc, rail, auth, resp, quoted, granted, log, seen, nonces>>
      BY <2>21 DEF Mine
    <3>2. RailFitsPlace' /\ AnswerFitsPlace' /\ PreviewAgesOneWay' /\ BurntNonceWasSent'
      BY <2>21 DEF Mine
    <3> HIDE DEF TypeOK, Places, SalesInv, RailFitsPlace, Parked, SettlesLast,
                 TransferFitsPlace, RowFitsPlace, AnswerFitsPlace, GrantIsRecorded,
                 PreviewAgesOneWay, GrantWasQuotedFree, OneGrantPerWallet,
                 BurntNonceWasSent
    <3>3. tx'[r] = "moved" /\ \A s \in Requests : s # r => tx'[s] = tx[s]
      BY <3>1 DEF TypeOK
    <3>4. auth[r] \in Auths
      BY <3>1 DEF SalesInv, TransferFitsPlace
    <3>5. spentBy'[auth[r]] = {r}
      BY <3>1, <3>4 DEF TypeOK
    <3>6. \A s \in Requests : s # r /\ tx[s] = "moved" =>
              spentBy'[auth[s]] = spentBy[auth[s]]
      BY <3>1, <3>4 DEF TypeOK, SalesInv, TransferFitsPlace
    <3>7. TransferFitsPlace'
      BY <3>1, <3>3, <3>4, <3>5, <3>6 DEF SalesInv, TransferFitsPlace, SettlesLast
    <3>8. RowFitsPlace'
      BY <3>1, <3>3 DEF SalesInv, RowFitsPlace, SettlesLast
    <3>9. GrantIsRecorded' /\ OneGrantPerWallet' /\ GrantWasQuotedFree'
      BY <3>1, GrantsKept DEF SalesInv
    <3> QED
      BY <3>2, <3>7, <3>8, <3>9 DEF SalesInv
  <2>22. ASSUME NEW r \in Requests, Revert(r)
        PROVE  SalesInv'
    BY <2>22, ConstantsAssumption
       DEF Revert
  <2>23. ASSUME NEW r \in Requests, Abandon(r)
        PROVE  SalesInv'
    BY <2>23, ConstantsAssumption
       DEF Abandon, Goto, InFlight
  <2>24. CASE Midnight
    BY <2>24 DEF Midnight
  <2>25. CASE UNCHANGED vars
    BY <2>25 DEF vars
  <2>26. QED
    BY <2>1, <2>2, <2>3, <2>4, <2>5, <2>6, <2>7, <2>8, <2>9, <2>10, <2>11, <2>12, <2>13, <2>14, <2>15, <2>16, <2>17, <2>18, <2>19, <2>20, <2>21, <2>22, <2>23, <2>24, <2>25
       DEF Next, Advance, Chain
<1> QED
  BY <1>1

\* The inductive invariant holds of every behaviour.
LEMMA SalesInvariant == Spec => [](TypeOK /\ SalesInv)
<1>1. Init => TypeOK /\ SalesInv
  BY ConstantsAssumption
     DEF Init, TypeOK, Places, SalesInv, RailFitsPlace, Parked, SettlesLast,
         TransferFitsPlace, RowFitsPlace, AnswerFitsPlace, GrantIsRecorded,
         PreviewAgesOneWay, GrantWasQuotedFree, OneGrantPerWallet,
         BurntNonceWasSent
<1>2. TypeOK /\ SalesInv /\ [Next]_vars => TypeOK'
  BY TypeStep DEF SalesInv
<1> QED
  BY <1>1, <1>2, SalesStep, PTL DEF Spec

\* On the rails that settle last, a result is delivered only against the
\* transfer of its own call or the gift of the hook.
THEOREM DeliveryIsPaid == Spec => []ServedIsPaidFor
<1>1. TypeOK /\ SalesInv => ServedIsPaidFor
  BY DEF SalesInv, AnswerFitsPlace, TransferFitsPlace, ServedIsPaidFor
<1> QED
  BY <1>1, SalesInvariant, PTL

\* The first-call hook gives each wallet one call, and only a call whose
\* receipt already showed the price as zero.
THEOREM GiftsAreSingle == Spec => [](OneGrantPerWallet /\ GrantWasQuotedFree)
<1>1. SalesInv => OneGrantPerWallet /\ GrantWasQuotedFree
  BY DEF SalesInv
<1> QED
  BY <1>1, SalesInvariant, PTL

\* No money moves and no call is given away before its 'paid' row is in the
\* table, on the rails that settle last.
THEOREM IncomeHasARow == Spec => []IncomeIsLogged
<1>1. TypeOK /\ SalesInv => IncomeIsLogged
  BY DEF TypeOK, SalesInv, RowFitsPlace, GrantIsRecorded, IncomeIsLogged
<1> QED
  BY <1>1, SalesInvariant, PTL

\* The MPP rail burns a nonce only after a transfer made with it was sent.
THEOREM NonceIsBurntLast == Spec => []BurntNonceWasSent
<1>1. SalesInv => BurntNonceWasSent
  BY DEF SalesInv
<1> QED
  BY <1>1, SalesInvariant, PTL
-----------------------------------------------------------------------------
(* How far the daily capacity can be overshot, for any limit and any number *)
(* of calls: the gate counts rows that the calls it admitted write long     *)
(* after it looked.                                                         *)

\* The calls that count, or still may
Counted == today \cup WillCount

\* Union of two sets of calls: finite, and no larger than the two together.
LEMMA UnionBound ==
    ASSUME NEW S \in SUBSET Requests, NEW T \in SUBSET Requests
    PROVE  /\ Cardinality(S) \in Nat /\ Cardinality(T) \in Nat
           /\ Cardinality(S \cup T) \in Nat
           /\ Cardinality(S \cup T) <= Cardinality(S) + Cardinality(T)
<1>1. IsFiniteSet(S) /\ IsFiniteSet(T)
  BY ConstantsAssumption, FS_Subset
<1>2. IsFiniteSet(S \cup T) /\ IsFiniteSet(S \cap T)
  BY <1>1, FS_Union, FS_Intersection
<1>3. /\ Cardinality(S) \in Nat /\ Cardinality(T) \in Nat
      /\ Cardinality(S \cup T) \in Nat /\ Cardinality(S \cap T) \in Nat
  BY <1>1, <1>2, FS_CardinalityType
<1>4. Cardinality(S \cup T) =
          Cardinality(S) + Cardinality(T) - Cardinality(S \cap T)
  BY <1>1, FS_Union
<1> QED
  BY <1>3, <1>4

\* A larger set of calls counts for more.
LEMMA SubsetBound ==
    ASSUME NEW S \in SUBSET Requests, NEW T \in SUBSET S
    PROVE  Cardinality(T) <= Cardinality(S)
<1>1. IsFiniteSet(S)
  BY ConstantsAssumption, FS_Subset
<1> QED
  BY <1>1, FS_Subset

\* Only admission adds a call to those that count or may: every other step
\* moves a call on towards its row, answers it, or loses it.
LEMMA OnlyAdmissionCounts ==
    ASSUME TypeOK, [Next]_vars,
           \A r \in Requests, l \in Rails, a \in Auths \cup {NoAuth} :
               ~Admit(r, l, a)
    PROVE  Counted' \subseteq Counted
<1> USE DEF TypeOK, Places, Counted, WillCount
<1>1. ASSUME NEW r \in Requests, NEW l \in Rails,
             NEW a \in Auths \cup {NoAuth}, RejectAtCapacity(r, l, a)
      PROVE  Counted' \subseteq Counted
  BY <1>1 DEF RejectAtCapacity, Arrive, Answer, Goto
<1>2. ASSUME NEW r \in Requests,
             \/ Challenge(r) \/ VerifyFails(r) \/ ToolAsksPayment(r)
             \/ VerifySucceeds(r) \/ HandlerRefusesUnverified(r)
             \/ CredentialRejected(r) \/ CredentialAccepted(r)
      PROVE  Counted' \subseteq Counted
  BY <1>2 DEF Challenge, VerifyFails, ToolAsksPayment, VerifySucceeds,
              HandlerRefusesUnverified, CredentialRejected, CredentialAccepted,
              Refuse, RefuseSilently, Answer, Goto
<1>3. ASSUME NEW r \in Requests,
             \/ Broadcast(r) \/ BroadcastFails(r) \/ MarkNonce(r)
             \/ HandlerFails(r) \/ HandlerSucceeds(r)
      PROVE  Counted' \subseteq Counted
  BY <1>3 DEF Broadcast, BroadcastFails, MarkNonce, HandlerFails,
              HandlerSucceeds, Refuse, Answer, Goto
<1>4. ASSUME NEW r \in Requests,
             \/ HookGrants(r) \/ HookDeclines(r) \/ Submit(r) \/ Settled(r)
             \/ SettlementFails(r) \/ LoseAnswer(r) \/ Abandon(r)
      PROVE  Counted' \subseteq Counted
  BY <1>4 DEF HookGrants, HookDeclines, Submit, Settled, SettlementFails,
              LoseAnswer, Abandon, ResultWithheld, Refuse, RefuseSilently,
              Answer, Goto
<1>5. ASSUME NEW r \in Requests, Chain(r)
      PROVE  Counted' \subseteq Counted
  BY <1>5 DEF Chain, Mine, Revert
<1>6. CASE Midnight
  BY <1>6 DEF Midnight
<1>7. CASE UNCHANGED vars
  BY <1>7 DEF vars
<1> QED
  BY <1>1, <1>2, <1>3, <1>4, <1>5, <1>6, <1>7 DEF Next, Advance

\* The calls that count or may stay below limit plus concurrency.
LEMMA GateStep == TypeOK /\ GateInv /\ [Next]_vars => GateInv'
<1> SUFFICES ASSUME TypeOK, GateInv, [Next]_vars, "mcp" \notin Rails
             PROVE  Cardinality(Counted') < DailyLimit + MaxInFlight
  BY DEF GateInv, Counted
<1>1. DailyLimit \in Nat /\ MaxInFlight \in Nat
  BY ConstantsAssumption
<1>2. Counted \in SUBSET Requests /\ InFlight \in SUBSET Requests
  BY DEF TypeOK, Counted, WillCount, InFlight
<1>3. Cardinality(Counted) \in Nat
  BY <1>2, UnionBound
<1>4. CASE \A r \in Requests, l \in Rails, a \in Auths \cup {NoAuth} :
               ~Admit(r, l, a)
  <2>1. Counted' \in SUBSET Counted
    BY <1>4, OnlyAdmissionCounts
  <2>2. Cardinality(Counted') <= Cardinality(Counted)
    BY <2>1, <1>2, SubsetBound
  <2>3. Cardinality(Counted') \in Nat
    BY <2>1, <1>2, UnionBound
  <2>4. Cardinality(Counted) < DailyLimit + MaxInFlight
    BY DEF GateInv, Counted
  <2> QED
    BY <1>1, <1>3, <2>2, <2>3, <2>4
<1>5. ASSUME NEW r \in Requests, NEW l \in Rails,
             NEW a \in Auths \cup {NoAuth}, Admit(r, l, a)
      PROVE  Cardinality(Counted') < DailyLimit + MaxInFlight
  <2>1. ~(Cardinality(today) >= DailyLimit) /\ Cardinality(InFlight) < MaxInFlight
    BY <1>5 DEF Admit, Arrive, AtCapacity
  <2>2. Counted' \in SUBSET (today \cup (InFlight \cup {r}))
    BY <1>5 DEF Admit, Arrive, Goto, TypeOK, Places, Counted, WillCount, InFlight
  <2>3. today \in SUBSET Requests /\ InFlight \cup {r} \in SUBSET Requests
        /\ {r} \in SUBSET Requests
    BY <1>2 DEF TypeOK
  <2>4. /\ Cardinality(InFlight) \in Nat /\ Cardinality(InFlight \cup {r}) \in Nat
        /\ Cardinality(InFlight \cup {r}) <= Cardinality(InFlight) + 1
    BY <1>2, <2>3, UnionBound, FS_Singleton
  <2>5. /\ Cardinality(today) \in Nat
        /\ Cardinality(today \cup (InFlight \cup {r})) \in Nat
        /\ Cardinality(today \cup (InFlight \cup {r}))
               <= Cardinality(today) + Cardinality(InFlight \cup {r})
    BY <2>3, UnionBound
  <2>6. /\ Cardinality(Counted') <= Cardinality(today \cup (InFlight \cup {r}))
        /\ Cardinality(Counted') \in Nat
    BY <2>2, <2>3, SubsetBound, UnionBound
  <2> QED
    BY <1>1, <2>1, <2>4, <2>5, <2>6
<1> QED
  BY <1>4, <1>5

\* In one day a route sells fewer calls than its limit plus the calls in
\* progress at once, whatever the interleaving of gate, handler and row.
THEOREM OvershootIsBounded == Spec => []OvershootBounded
<1>1. Init => GateInv
  <2> SUFFICES ASSUME Init PROVE GateInv
    OBVIOUS
  <2>1. today \cup WillCount = {}
    BY DEF Init, WillCount
  <2>2. 0 < DailyLimit + MaxInFlight
    BY ConstantsAssumption
  <2> QED
    BY <2>1, <2>2, FS_EmptySet DEF GateInv
<1>2. TypeOK /\ GateInv => OvershootBounded
  <2> SUFFICES ASSUME TypeOK, GateInv, "mcp" \notin Rails
               PROVE  Cardinality(today) < DailyLimit + MaxInFlight
    BY DEF OvershootBounded
  <2>1. today \cup WillCount \in SUBSET Requests
    BY DEF TypeOK, WillCount
  <2>2. today \in SUBSET (today \cup WillCount)
    OBVIOUS
  <2>3. Cardinality(today) <= Cardinality(today \cup WillCount)
    BY <2>1, <2>2, SubsetBound
  <2>4. /\ Cardinality(today) \in Nat /\ Cardinality(today \cup WillCount) \in Nat
        /\ DailyLimit \in Nat /\ MaxInFlight \in Nat
    BY <2>1, UnionBound, ConstantsAssumption DEF TypeOK
  <2> QED
    BY <2>3, <2>4 DEF GateInv
<1> QED
  BY <1>1, <1>2, GateStep, TypeCorrect, PTL DEF Spec
-----------------------------------------------------------------------------
(* The x402 and MCP rails sell as Sale promises, as long as the            *)
(* facilitator's answers arrive: every step of the stack, of the tables    *)
(* and of the chain is a sale, a gift, a refusal, or nothing to the buyer. *)

\* The rails and faults under which the promise is kept
SettlesLastOnly == "mpp" \notin Rails /\ "lostAnswer" \notin Faults

\* A refused call has no transfer left that could still move money
RefusedIsSettled ==
    \A r \in Requests :
        resp[r] \in {"refused", "error"} => tx[r] \notin {"submitted", "moved"}

RefineInv == TypeOK /\ SalesInv /\ RefusedIsSettled

\* Without MPP, nothing has been submitted for a call that is not settling.
LEMMA PlacesWithoutMpp ==
    ASSUME SettlesLastOnly, TypeOK, SalesInv, NEW r \in Requests
    PROVE  /\ resp[r] # "none" => pc[r] = "done"
           /\ pc[r] \in {"new", "verify", "handle", "hook", "settle"} => tx[r] = "none"
           /\ pc[r] \notin {"nonce", "broadcast", "mark"}
<1>1. rail[r] \in Rails \cup {"none"} /\ "mpp" \notin Rails
  BY DEF TypeOK, SettlesLastOnly
<1>2. pc[r] = "handle" => rail[r] \in {"x402", "mcp"}
  BY <1>1, ConstantsAssumption DEF SalesInv, RailFitsPlace
<1>3. pc[r] \in {"hook", "settle"} => SettlesLast(r)
  BY DEF SalesInv, RailFitsPlace
<1>4. pc[r] \in {"new", "verify", "handle", "hook", "settle"} => tx[r] = "none"
  BY <1>2, <1>3 DEF SalesInv, TransferFitsPlace, SettlesLast
<1>5. pc[r] \notin {"nonce", "broadcast", "mark"}
  BY <1>1 DEF SalesInv, RailFitsPlace
<1> QED
  BY <1>4, <1>5 DEF SalesInv, AnswerFitsPlace

\* On these rails a refusal is final: it follows a transfer that reverted or
\* none at all.
LEMMA RefusalStep ==
    ASSUME SettlesLastOnly
    PROVE  RefineInv /\ [Next]_vars => RefusedIsSettled'
<1> SUFFICES ASSUME RefineInv, [Next]_vars
             PROVE  RefusedIsSettled'
  OBVIOUS
<1> USE DEF RefineInv, TypeOK, Places, RefusedIsSettled
<1>0. \A r \in Requests :
        /\ resp[r] # "none" => pc[r] = "done"
        /\ pc[r] \in {"new", "verify", "handle", "hook", "settle"} => tx[r] = "none"
        /\ pc[r] \notin {"nonce", "broadcast", "mark"}
  BY PlacesWithoutMpp
<1>1. ASSUME NEW r \in Requests, NEW l \in Rails, NEW a \in Auths \cup {NoAuth},
             Admit(r, l, a) \/ RejectAtCapacity(r, l, a)
      PROVE  RefusedIsSettled'
  BY <1>0, <1>1 DEF Admit, RejectAtCapacity, Arrive, Answer, Goto
<1>2. ASSUME NEW r \in Requests,
             \/ Challenge(r) \/ VerifyFails(r) \/ ToolAsksPayment(r)
             \/ VerifySucceeds(r) \/ HandlerRefusesUnverified(r)
             \/ HandlerFails(r) \/ HandlerSucceeds(r)
      PROVE  RefusedIsSettled'
  BY <1>0, <1>2 DEF Challenge, VerifyFails, ToolAsksPayment, VerifySucceeds,
                    HandlerRefusesUnverified, HandlerFails, HandlerSucceeds,
                    Refuse, RefuseSilently, Answer, Goto
<1>3. ASSUME NEW r \in Requests,
             \/ CredentialRejected(r) \/ CredentialAccepted(r) \/ Broadcast(r)
             \/ BroadcastFails(r) \/ MarkNonce(r) \/ LoseAnswer(r)
      PROVE  RefusedIsSettled'
  BY <1>0, <1>3 DEF CredentialRejected, CredentialAccepted, Broadcast,
                    BroadcastFails, MarkNonce, LoseAnswer, SettlesLastOnly
<1>4. ASSUME NEW r \in Requests,
             \/ HookGrants(r) \/ HookDeclines(r) \/ Submit(r) \/ Settled(r)
             \/ SettlementFails(r) \/ Abandon(r)
      PROVE  RefusedIsSettled'
  BY <1>0, <1>4 DEF HookGrants, HookDeclines, Submit, Settled, SettlementFails,
                    Abandon, ResultWithheld, Refuse, RefuseSilently, Answer, Goto
<1>5. ASSUME NEW r \in Requests, Chain(r)
      PROVE  RefusedIsSettled'
  BY <1>0, <1>5 DEF Chain, Mine, Revert
<1>6. CASE Midnight \/ UNCHANGED vars
  BY <1>6 DEF Midnight, vars
<1> QED
  BY <1>1, <1>2, <1>3, <1>4, <1>5, <1>6 DEF Next, Advance

\* What the buyer's deal and payment are in terms of the abstract promise
Deal == [r \in Requests |-> Outcome(r)]
PaidWith == [r \in Requests |->
                IF Outcome(r) \in {"sold", "gift"} THEN auth[r] ELSE NoAuth]
DealStep == Offer!SaleNext \/ UNCHANGED <<Deal, PaidWith>>

\* A step of one call that leaves the outcome and authorisation of every
\* other call alone changes the deal at that call only.
LEMMA OneDealChanges ==
    ASSUME NEW r \in Requests,
           \A s \in Requests : s # r =>
               Outcome(s)' = Outcome(s) /\ auth'[s] = auth[s]
    PROVE  /\ Deal' = [Deal EXCEPT ![r] = Outcome(r)']
           /\ PaidWith' = [PaidWith EXCEPT ![r] = PaidWith'[r]]
  BY DEF Deal, PaidWith

\* A refusal of an open call is the abstract Decline.
LEMMA RefusalIsDecline ==
    ASSUME NEW r \in Requests, Outcome(r) = "open", Outcome(r)' = "refused",
           \A s \in Requests : s # r =>
               Outcome(s)' = Outcome(s) /\ auth'[s] = auth[s]
    PROVE  DealStep
<1>1. /\ Deal' = [Deal EXCEPT ![r] = "refused"]
      /\ PaidWith' = [PaidWith EXCEPT ![r] = NoAuth]
  BY OneDealChanges DEF PaidWith
<1>2. Deal[r] = "open"
  BY DEF Deal
<1> QED
  BY <1>1, <1>2
     DEF DealStep, Deal, PaidWith, Offer!SaleNext, Offer!Decline, Offer!Conclude

\* A step that changes no outcome, and no authorisation of a call sold or
\* given away, is nothing to the buyer.
LEMMA SilentStep ==
    ASSUME \A s \in Requests :
               /\ Outcome(s)' = Outcome(s)
               /\ Outcome(s) \in {"sold", "gift"} => auth'[s] = auth[s]
    PROVE  DealStep
  BY DEF DealStep, Deal, PaidWith

\* Every step of the route is a step of the promise.
LEMMA DealSteps ==
    ASSUME SettlesLastOnly, RefineInv, RefusedIsSettled', [Next]_vars
    PROVE  DealStep
<1> USE DEF RefineInv, TypeOK, Places
<1>0. \A r \in Requests :
        /\ resp[r] # "none" => pc[r] = "done"
        /\ pc[r] \in {"new", "verify", "handle", "hook", "settle"} => tx[r] = "none"
        /\ pc[r] \notin {"nonce", "broadcast", "mark"}
        /\ r \in granted => pc[r] = "done"
  BY PlacesWithoutMpp DEF SalesInv, GrantIsRecorded
<1>1. ASSUME NEW r \in Requests, NEW l \in Rails, NEW a \in Auths \cup {NoAuth},
             Admit(r, l, a)
      PROVE  DealStep
  BY <1>0, <1>1, SilentStep DEF Admit, Arrive, Goto, Outcome
<1>2. ASSUME NEW r \in Requests, NEW l \in Rails, NEW a \in Auths \cup {NoAuth},
             RejectAtCapacity(r, l, a)
      PROVE  DealStep
  BY <1>0, <1>2, RefusalIsDecline
     DEF RejectAtCapacity, Arrive, Answer, Goto, Outcome
<1>3. ASSUME NEW r \in Requests,
             \/ Challenge(r) \/ VerifyFails(r) \/ ToolAsksPayment(r)
             \/ HandlerRefusesUnverified(r) \/ HandlerFails(r)
      PROVE  DealStep
  BY <1>0, <1>3, RefusalIsDecline
     DEF Challenge, VerifyFails, ToolAsksPayment, HandlerRefusesUnverified,
         HandlerFails, Refuse, RefuseSilently, Answer, Goto, Outcome
<1>4. ASSUME NEW r \in Requests,
             \/ VerifySucceeds(r) \/ HookDeclines(r) \/ Submit(r) \/ Abandon(r)
      PROVE  DealStep
  BY <1>0, <1>4, SilentStep
     DEF VerifySucceeds, HookDeclines, Submit, Abandon, Goto, Outcome
<1>5. ASSUME NEW r \in Requests, HandlerSucceeds(r)
      PROVE  DealStep
  BY <1>0, <1>5, SilentStep DEF HandlerSucceeds, Answer, Goto, Outcome
<1>6. ASSUME NEW r \in Requests, Settled(r)
      PROVE  DealStep
  BY <1>0, <1>6, SilentStep DEF Settled, Answer, Goto, Outcome
<1>7. ASSUME NEW r \in Requests, SettlementFails(r)
      PROVE  DealStep
  BY <1>0, <1>7, RefusalIsDecline
     DEF SettlementFails, ResultWithheld, Refuse, RefuseSilently, Answer, Goto,
         Outcome
<1>8. ASSUME NEW r \in Requests,
             \/ CredentialRejected(r) \/ CredentialAccepted(r) \/ Broadcast(r)
             \/ BroadcastFails(r) \/ MarkNonce(r) \/ LoseAnswer(r)
      PROVE  DealStep
  BY <1>0, <1>8 DEF CredentialRejected, CredentialAccepted, Broadcast,
                    BroadcastFails, MarkNonce, LoseAnswer, SettlesLastOnly
<1>9. ASSUME NEW r \in Requests, Revert(r)
      PROVE  DealStep
  BY <1>9, SilentStep DEF Revert, Outcome
<1>10. CASE Midnight \/ UNCHANGED vars
  BY <1>10, SilentStep DEF Midnight, vars, Outcome
<1>11. ASSUME NEW r \in Requests, HookGrants(r)
       PROVE  DealStep
  <2>1. /\ Outcome(r) = "open" /\ Outcome(r)' = "gift"
        /\ UNCHANGED auth
        /\ \A s \in Requests : s # r => Outcome(s)' = Outcome(s)
    BY <1>0, <1>11 DEF HookGrants, Answer, Goto, Outcome
  <2>2. /\ Deal' = [Deal EXCEPT ![r] = "gift"]
        /\ PaidWith' = [PaidWith EXCEPT ![r] = auth[r]]
    BY <2>1, OneDealChanges DEF PaidWith
  <2>3. FreeFirstCall /\ Payer[auth[r]] \notin seen /\ auth[r] \in Auths
    BY <1>11 DEF HookGrants, SalesInv, RailFitsPlace, Parked
  <2>4. \A s \in Requests : Deal[s] = "gift" => Payer[PaidWith[s]] # Payer[auth[r]]
    BY <2>3 DEF Deal, PaidWith, Outcome, SalesInv, GrantIsRecorded
  <2>5. Deal[r] = "open"
    BY <2>1 DEF Deal
  <2> HIDE DEF Deal, PaidWith
  <2>6. Offer!Give(r, auth[r])
    BY <2>2, <2>3, <2>4, <2>5 DEF Offer!Give, Offer!Conclude, Deal, PaidWith
  <2> QED
    BY <2>3, <2>6 DEF DealStep, Offer!SaleNext
<1>12. ASSUME NEW r \in Requests, Mine(r)
       PROVE  DealStep
  <2>1. tx[r] = "submitted" /\ auth[r] \in Auths /\ spentBy[auth[r]] = {}
    BY <1>12 DEF Mine, SalesInv, TransferFitsPlace
  <2>2. /\ UNCHANGED <<auth, resp, granted>>
        /\ tx' = [tx EXCEPT ![r] = "moved"]
    BY <1>12 DEF Mine
  <2>3. \A s \in Requests : s # r => Outcome(s)' = Outcome(s)
    BY <2>2 DEF Outcome
  <2>4. resp[r] \notin {"refused", "error"}
    BY <2>1 DEF RefusedIsSettled
  <2>5. CASE r \in granted
    BY <2>2, <2>3, <2>4, <2>5, SilentStep DEF Outcome
  <2>6. CASE r \notin granted
    <3>1. Outcome(r) = "open" /\ Outcome(r)' = "sold"
      BY <2>1, <2>2, <2>4, <2>6 DEF Outcome
    <3>2. /\ Deal' = [Deal EXCEPT ![r] = "sold"]
          /\ PaidWith' = [PaidWith EXCEPT ![r] = auth[r]]
      BY <2>2, <2>3, <3>1, OneDealChanges DEF PaidWith
    <3>3. \A s \in Requests : Deal[s] = "sold" => PaidWith[s] # auth[r]
      BY <2>1 DEF Deal, PaidWith, Outcome, SalesInv, TransferFitsPlace
    <3>4. Deal[r] = "open"
      BY <3>1 DEF Deal
    <3>5. Offer!Sell(r, auth[r])
      BY <3>2, <3>3, <3>4 DEF Offer!Sell, Offer!Conclude, Deal, PaidWith
    <3> QED
      BY <2>1, <3>5 DEF DealStep, Offer!SaleNext
  <2> QED
    BY <2>5, <2>6
<1> QED
  BY <1>1, <1>2, <1>3, <1>4, <1>5, <1>6, <1>7, <1>8, <1>9, <1>10, <1>11, <1>12
     DEF Next, Advance, Chain

\* Without MPP calls and lost facilitator answers, the route implements Sale:
\* a call is sold, given away or refused once, a sale uses its authorisation
\* up, and nothing changes a refusal afterwards.
THEOREM RouteKeepsItsPromise == ASSUME SettlesLastOnly PROVE Spec => SellsAsPromised
<1>1. Init => Offer!SaleInit /\ RefusedIsSettled
  BY DEF Init, Offer!SaleInit, Outcome, RefusedIsSettled
<1>2. TypeOK /\ SalesInv /\ RefusedIsSettled /\ [Next]_vars => RefusedIsSettled'
  BY RefusalStep DEF RefineInv
<1>3. TypeOK /\ SalesInv /\ RefusedIsSettled /\ RefusedIsSettled' /\ [Next]_vars
        => [Offer!SaleNext]_(Offer!saleVars)
  BY DealSteps DEF RefineInv, DealStep, Offer!saleVars, Deal, PaidWith
<1> QED
  BY <1>1, <1>2, <1>3, SalesInvariant, PTL
     DEF Spec, SellsAsPromised, Offer!SaleSpec

\* On those rails, and with the facilitator's answers arriving, an error or a
\* 402 costs the buyer nothing, then or later.
THEOREM FailureCostsNothing == ASSUME SettlesLastOnly PROVE Spec => []FailureIsFree
<1>1. Init => RefusedIsSettled
  BY DEF Init, RefusedIsSettled
<1>2. TypeOK /\ SalesInv /\ RefusedIsSettled /\ [Next]_vars => RefusedIsSettled'
  BY RefusalStep DEF RefineInv
<1>3. RefusedIsSettled => FailureIsFree
  BY DEF RefusedIsSettled, FailureIsFree
<1> QED
  BY <1>1, <1>2, <1>3, SalesInvariant, PTL DEF Spec
=============================================================================
