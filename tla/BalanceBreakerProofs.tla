------------------------- MODULE BalanceBreakerProofs -------------------------
(***************************************************************************)
(* The breaker's single reader and its tolerance of failing reads, for any *)
(* number of calls, routes, floors and amounts.                            *)
(***************************************************************************)
EXTENDS BalanceBreaker, TLAPS

\* Each answer a call may get keeps the types of the counters
LEMMA JudgeTyped ==
    ASSUME TypeOK, NEW c \in Calls, NEW amount \in Amounts, Judge(c, amount)
    PROVE  /\ bad' \in Nat
           /\ pc' \in [Calls -> {"new", "waiting", "reading", "done"}]
           /\ verdict' \in [Calls -> {"none", "admitted", "refused"}]
           /\ lowChecks' \in [Routes -> Nat]
BY BreakerConstants
   DEF TypeOK, BreakerConstants, Judge, See, Checked, Finish, BadRead

\* Every step keeps the types
LEMMA TypeStep == TypeOK /\ [Next]_vars => TypeOK'
<1> SUFFICES ASSUME TypeOK, [Next]_vars PROVE TypeOK'
  OBVIOUS
<1> USE DEF TypeOK
<1>1. CASE ChangeBalance
  BY <1>1 DEF ChangeBalance, Covers
<1>2. CASE Age
  BY <1>2 DEF Age
<1>3. ASSUME NEW c \in Calls, Step(c) PROVE TypeOK'
  <2>1. CASE OrderUnchecked(c)
    BY <2>1 DEF OrderUnchecked, Finish
  <2>2. CASE UseCached(c) \/ FindRefreshed(c)
    <3>1. Judge(c, value)
      BY <2>2 DEF UseCached, FindRefreshed
    <3> QED BY <2>2, <3>1, JudgeTyped DEF UseCached, FindRefreshed
  <2>3. CASE WaitForLock(c) \/ StartRead(c)
    BY <2>3 DEF WaitForLock, StartRead
  <2>4. CASE ReadSucceeds(c)
    <3>1. Judge(c, balance)
      BY <2>4 DEF ReadSucceeds
    <3> QED BY <2>4, <3>1, JudgeTyped DEF ReadSucceeds
  <2>5. CASE ReadFails(c)
    BY <2>5, BreakerConstants DEF ReadFails, Finish, BadRead, BreakerConstants
  <2> QED BY <1>3, <2>1, <2>2, <2>3, <2>4, <2>5 DEF Step
<1>4. CASE UNCHANGED vars
  BY <1>4 DEF vars
<1> QED BY <1>1, <1>2, <1>3, <1>4 DEF Next

\* A call that has been judged is done, and no other call has moved
LEMMA JudgeEnds ==
    ASSUME TypeOK, NEW c \in Calls, NEW amount, Judge(c, amount)
    PROVE  /\ pc'[c] = "done"
           /\ \A d \in Calls \ {c} : pc'[d] = pc[d] /\ verdict'[d] = verdict[d]
BY DEF TypeOK, Judge, Finish, BadRead

\* The lock is held by the call that reads, and by one at a time
LEMMA LockStep ==
    TypeOK /\ LockHeld /\ OneReader /\ [Next]_vars
        => LockHeld' /\ OneReader'
<1> DEFINE LockInv == LockHeld /\ OneReader
<1> SUFFICES ASSUME TypeOK, LockInv, [Next]_vars
             PROVE  LockInv'
  OBVIOUS
<1> USE BreakerConstants DEF TypeOK, LockHeld, OneReader, BreakerConstants
<1>1. CASE ChangeBalance
  BY <1>1 DEF ChangeBalance
<1>2. CASE Age
  BY <1>2 DEF Age
<1>3. ASSUME NEW c \in Calls, Step(c) PROVE LockInv'
  <2>1. CASE OrderUnchecked(c)
    BY <2>1 DEF OrderUnchecked, Finish
  <2>2. CASE UseCached(c) \/ FindRefreshed(c)
    <3>1. Judge(c, value)
      BY <2>2 DEF UseCached, FindRefreshed
    <3>2. /\ pc'[c] = "done" /\ pc[c] # "reading"
          /\ \A d \in Calls \ {c} : pc'[d] = pc[d]
          /\ lock' = lock /\ age' = age /\ route' = route
      BY <2>2, <3>1, JudgeEnds DEF UseCached, FindRefreshed
    <3> QED BY <3>2
  <2>3. CASE WaitForLock(c)
    BY <2>3 DEF WaitForLock
  <2>4. CASE StartRead(c)
    BY <2>4 DEF StartRead
  <2>5. CASE ReadSucceeds(c)
    <3>1. Judge(c, balance)
      BY <2>5 DEF ReadSucceeds
    <3>2. /\ pc'[c] = "done" /\ pc[c] = "reading"
          /\ \A d \in Calls \ {c} : pc'[d] = pc[d]
          /\ lock' = NoCall /\ route' = route
      BY <2>5, <3>1, JudgeEnds DEF ReadSucceeds
    <3>3. \A d \in Calls : pc[d] = "reading" => d = c
      BY <3>2
    <3> QED BY <3>2, <3>3
  <2>6. CASE ReadFails(c)
    <3>1. /\ pc'[c] = "done"
          /\ \A d \in Calls \ {c} : pc'[d] = pc[d]
          /\ lock' = NoCall /\ age' = age /\ route' = route
          /\ pc[c] = "reading"
      BY <2>6 DEF ReadFails, Finish, BadRead
    <3>2. \A d \in Calls : pc[d] = "reading" => d = c
      BY <3>1
    <3> QED BY <3>1, <3>2
  <2> QED BY <1>3, <2>1, <2>2, <2>3, <2>4, <2>5, <2>6 DEF Step
<1>4. CASE UNCHANGED vars
  BY <1>4 DEF vars
<1> QED BY <1>1, <1>2, <1>3, <1>4 DEF Next

\* A good reading never raises the counter of an account that covers every
\* floor, and never refuses
LEMMA JudgeCovered ==
    ASSUME TypeOK, NEW c \in Calls, NEW amount \in Amounts, Covers(amount),
           Judge(c, amount)
    PROVE  /\ bad' = bad \/ bad' = 0
           /\ Checked(c) => bad' = 0
           /\ \A d \in Calls : verdict'[d] = verdict[d] \/ verdict'[d] # "refused"
BY BreakerConstants
   DEF TypeOK, BreakerConstants, Covers, Judge, Checked, Finish

\* Values read from an account that covers every floor cover them too, and
\* only failed readings are counted
LEMMA CountStep ==
    TypeOK /\ ValueCovers /\ BadAreFailures /\ [Next]_vars
        => ValueCovers' /\ BadAreFailures'
<1> SUFFICES ASSUME TypeOK, ValueCovers, BadAreFailures, [Next]_vars
             PROVE  ValueCovers' /\ BadAreFailures'
  OBVIOUS
<1> USE DEF TypeOK, ValueCovers, BadAreFailures
<1>1. CASE ChangeBalance
  BY <1>1 DEF ChangeBalance, Covers
<1>2. CASE Age
  BY <1>2 DEF Age, Covers
<1>3. ASSUME NEW c \in Calls, Step(c) PROVE ValueCovers' /\ BadAreFailures'
  <2>1. CASE OrderUnchecked(c) \/ WaitForLock(c) \/ StartRead(c)
    BY <2>1 DEF OrderUnchecked, WaitForLock, StartRead, Covers
  <2>2. CASE UseCached(c) \/ FindRefreshed(c)
    <3>1. Judge(c, value) /\ UNCHANGED <<balance, value, failures, covered>>
      BY <2>2 DEF UseCached, FindRefreshed
    <3>2. ValueCovers'
      BY <3>1 DEF Covers
    <3>3. covered => bad' = bad \/ bad' = 0
      BY <3>1, JudgeCovered
    <3> QED BY <3>1, <3>2, <3>3
  <2>3. CASE ReadSucceeds(c)
    <3>1. /\ Judge(c, balance) /\ value' = balance /\ UNCHANGED <<balance, covered>>
          /\ failures' = IF Checked(c) THEN 0 ELSE failures
      BY <2>3 DEF ReadSucceeds
    <3>2. ValueCovers'
      BY <3>1 DEF Covers
    <3>3. covered => IF Checked(c) THEN bad' = 0 ELSE bad' = bad \/ bad' = 0
      BY <3>1, JudgeCovered
    <3> QED BY <3>1, <3>2, <3>3
  <2>4. CASE ReadFails(c)
    <3>1. ValueCovers'
      BY <2>4 DEF ReadFails, Covers
    <3>2. /\ failures' \in {failures, failures + 1} /\ covered' = covered
          /\ \/ bad' = bad
             \/ bad' = bad + 1 /\ failures' = failures + 1
      BY <2>4 DEF ReadFails, Finish, BadRead
    <3> QED BY <3>1, <3>2
  <2> QED BY <1>3, <2>1, <2>2, <2>3, <2>4 DEF Step
<1>4. CASE UNCHANGED vars
  BY <1>4 DEF vars, Covers
<1> QED BY <1>1, <1>2, <1>3, <1>4 DEF Next

\* A balance that is seen settles which routes are low, and the counter
\* keeps up with the lowest of them
LEMMA JudgeLow ==
    ASSUME TypeOK, LowIsCounted, NEW c \in Calls, NEW amount \in Amounts,
           Judge(c, amount)
    PROVE  \A r \in Routes :
               /\ lowChecks'[r] > 0 => amount < Floor[r]
               /\ Lowest(r) => lowChecks'[r] <= bad'
<1> TAKE r \in Routes
<1>1. /\ lowChecks'[r] = IF Floor[r] <= amount THEN 0
                         ELSE IF route[c] = r THEN lowChecks[r] + 1 ELSE lowChecks[r]
      /\ Floor[r] \in Nat /\ amount \in Nat /\ bad \in Nat /\ lowChecks[r] \in Nat
      /\ Lowest(r) => lowChecks[r] <= bad
  BY BreakerConstants DEF TypeOK, BreakerConstants, Judge, See, LowIsCounted
<1>2. CASE ~Checked(c)
  BY <1>1, <1>2 DEF Judge, Checked
<1>3. CASE Checked(c) /\ amount >= Floor[route[c]]
  <2>1. Lowest(r) => Floor[r] <= Floor[route[c]] /\ Floor[route[c]] \in Nat
    BY <1>3, BreakerConstants DEF Lowest, Checked, BreakerConstants
  <2> QED BY <1>1, <1>3, <2>1, BreakerConstants
          DEF Judge, Checked, BadRead, BreakerConstants, TypeOK
<1>4. CASE Checked(c) /\ amount < Floor[route[c]]
  BY <1>1, <1>4, BreakerConstants
     DEF Judge, Checked, BadRead, BreakerConstants, TypeOK
<1> QED BY <1>2, <1>3, <1>4, BreakerConstants DEF BreakerConstants, TypeOK, Judge

\* Every step keeps the low routes below their floors and in the counter
LEMMA LowStep == TypeOK /\ LowIsCounted /\ [Next]_vars => LowIsCounted'
<1> SUFFICES ASSUME TypeOK, LowIsCounted, [Next]_vars PROVE LowIsCounted'
  OBVIOUS
<1>1. CASE ChangeBalance \/ Age \/ UNCHANGED vars
  BY <1>1 DEF LowIsCounted, ChangeBalance, Age, vars, Lowest
<1>2. ASSUME NEW c \in Calls, Step(c) PROVE LowIsCounted'
  <2>1. CASE OrderUnchecked(c) \/ WaitForLock(c) \/ StartRead(c)
    BY <2>1 DEF LowIsCounted, OrderUnchecked, WaitForLock, StartRead, Lowest
  <2>2. CASE UseCached(c) \/ FindRefreshed(c)
    <3>1. Judge(c, value) /\ value' = value /\ value \in Amounts
      BY <2>2 DEF UseCached, FindRefreshed, TypeOK
    <3> QED BY <3>1, JudgeLow DEF LowIsCounted, Lowest
  <2>3. CASE ReadSucceeds(c)
    <3>1. Judge(c, balance) /\ value' = balance /\ balance \in Amounts
      BY <2>3 DEF ReadSucceeds, TypeOK
    <3> QED BY <3>1, JudgeLow DEF LowIsCounted, Lowest
  <2>4. CASE ReadFails(c)
    BY <2>4 DEF LowIsCounted, ReadFails, BadRead, Lowest, TypeOK
  <2> QED BY <1>2, <2>1, <2>2, <2>3, <2>4 DEF Step
<1> QED BY <1>1, <1>2 DEF Next

\* The inductive invariant
THEOREM BreakerInvariant == Spec => [](TypeOK /\ BreakerInv)
<1>1. Init => TypeOK /\ BreakerInv
  <2> SUFFICES ASSUME Init PROVE TypeOK /\ BreakerInv
    OBVIOUS
  <2>1. TypeOK
    BY DEF Init, TypeOK, Covers
  <2>2. LockHeld /\ OneReader
    BY BreakerConstants DEF Init, BreakerConstants, LockHeld, OneReader
  <2>3. ValueCovers /\ BadAreFailures
    BY DEF Init, ValueCovers, BadAreFailures, Covers
  <2>4. LowIsCounted
    BY DEF Init, LowIsCounted
  <2> QED BY <2>1, <2>2, <2>3, <2>4 DEF BreakerInv
<1>2. TypeOK /\ BreakerInv /\ [Next]_vars => (TypeOK /\ BreakerInv)'
  BY TypeStep, LockStep, CountStep, LowStep DEF BreakerInv
<1> QED BY <1>1, <1>2, PTL DEF Spec

\* Of the calls that find the value expired, one at a time asks OpenRouter
THEOREM OneReaderAtATime == Spec => []OneReader
<1>1. BreakerInv => OneReader
  BY DEF BreakerInv
<1> QED BY <1>1, BreakerInvariant, PTL

\* Fewer than three failed readings by calls in a row never refuse a call of
\* an account that has always covered every floor
THEOREM FlakyReadsAreForgiven == Spec => FlakyReadsDoNotTrip
<1> DEFINE Grounded == \A c \in Calls :
        covered /\ verdict[c] = "none" /\ verdict'[c] = "refused" =>
            failures' >= Trip /\ age \in {"none", "old"}
<1>1. TypeOK /\ BreakerInv /\ [Next]_vars => [Grounded]_vars
  <2> SUFFICES ASSUME TypeOK, BreakerInv, Next, covered
               PROVE  Grounded
    BY DEF vars
  <2> USE DEF TypeOK
  <2>1. Covers(balance) /\ Covers(value) /\ bad <= failures
    BY DEF BreakerInv, ValueCovers, BadAreFailures
  <2>2. CASE ChangeBalance \/ Age
    BY <2>2 DEF ChangeBalance, Age
  <2>3. ASSUME NEW c \in Calls, Step(c) PROVE Grounded
    <3>1. CASE OrderUnchecked(c) \/ WaitForLock(c) \/ StartRead(c)
      BY <3>1 DEF OrderUnchecked, WaitForLock, StartRead, Finish
    <3>2. CASE UseCached(c) \/ FindRefreshed(c)
      <4>1. Judge(c, value)
        BY <3>2 DEF UseCached, FindRefreshed
      <4> QED BY <4>1, <2>1, JudgeCovered
    <3>3. CASE ReadSucceeds(c)
      <4>1. Judge(c, balance)
        BY <3>3 DEF ReadSucceeds
      <4> QED BY <4>1, <2>1, JudgeCovered
    <3>4. CASE ReadFails(c)
      <4>1. \A d \in Calls \ {c} : verdict'[d] = verdict[d]
        BY <3>4 DEF ReadFails, Finish, BadRead
      <4>2. verdict'[c] = "refused" => failures' >= Trip /\ age \in {"none", "old"}
        BY <3>4, <2>1, BreakerConstants
           DEF ReadFails, Finish, BadRead, Checked, Covers, BreakerConstants
      <4> QED BY <4>1, <4>2
    <3> QED BY <2>3, <3>1, <3>2, <3>3, <3>4 DEF Step
  <2> QED BY <2>2, <2>3 DEF Next
<1> QED BY <1>1, BreakerInvariant, PTL DEF Spec, FlakyReadsDoNotTrip

\* A balance that stays below the lowest floor is enforced from the third
\* check on
THEOREM LowestFloorIsEnforced == Spec => LowestIsEnforced
<1> DEFINE Held == \A c \in Calls : Lowest(route[c]) => Enforced(c)
<1>1. TypeOK /\ BreakerInv /\ [Next]_vars => [Held]_vars
  <2> SUFFICES ASSUME TypeOK, BreakerInv, Next, NEW c \in Calls,
                      Lowest(route[c]), Checked(c),
                      verdict[c] = "none", verdict'[c] = "admitted"
               PROVE  lowChecks'[route[c]] < Trip
    BY DEF Enforced, vars
  <2> USE BreakerConstants DEF BreakerConstants
  <2>1. /\ route[c] \in Routes /\ Floor[route[c]] \in Nat
        /\ bad \in Nat /\ value \in Nat /\ lowChecks[route[c]] \in Nat
        /\ lowChecks[route[c]] <= bad
        /\ lowChecks[route[c]] > 0 => value < Floor[route[c]]
    BY DEF TypeOK, Checked, BreakerInv, LowIsCounted
  <2>2. PICK d \in Calls : Step(d)
    BY DEF Next, ChangeBalance, Age
  <2>3. d = c
    BY <2>2 DEF Step, OrderUnchecked, UseCached, WaitForLock, FindRefreshed,
                StartRead, ReadSucceeds, ReadFails, Judge, Finish, BadRead, TypeOK
  <2>4. ASSUME NEW amount \in Amounts, Judge(c, amount)
        PROVE  lowChecks'[route[c]] < Trip
    <3>1. lowChecks'[route[c]] = IF Floor[route[c]] <= amount THEN 0
                                 ELSE lowChecks[route[c]] + 1
      BY <2>1, <2>4 DEF Judge, See
    <3>2. CASE amount >= Floor[route[c]]
      BY <3>1, <3>2, <2>1
    <3>3. CASE amount < Floor[route[c]]
      <4>1. verdict'[c] = IF bad + 1 < Trip THEN "admitted" ELSE "refused"
        BY <2>1, <2>4, <3>3 DEF Judge, BadRead, Finish, TypeOK, Checked
      <4> QED BY <4>1, <3>1, <3>3, <2>1
    <3> QED BY <3>2, <3>3, <2>1
  <2>5. CASE UseCached(c) \/ FindRefreshed(c)
    BY <2>4, <2>5 DEF UseCached, FindRefreshed, TypeOK
  <2>6. CASE ReadSucceeds(c)
    BY <2>4, <2>6 DEF ReadSucceeds, TypeOK
  <2>7. CASE ReadFails(c)
    <3>1. lowChecks' = lowChecks
      BY <2>7 DEF ReadFails
    <3>2. \/ value >= Floor[route[c]]
          \/ bad + 1 < Trip
      BY <2>7 DEF ReadFails, BadRead, Finish, TypeOK, Checked
    <3> QED BY <3>1, <3>2, <2>1
  <2>8. CASE OrderUnchecked(c) \/ WaitForLock(c) \/ StartRead(c)
    BY <2>8 DEF OrderUnchecked, WaitForLock, StartRead, Checked
  <2> QED BY <2>2, <2>3, <2>5, <2>6, <2>7, <2>8 DEF Step
<1> QED BY <1>1, BreakerInvariant, PTL DEF Spec, LowestIsEnforced
=============================================================================
