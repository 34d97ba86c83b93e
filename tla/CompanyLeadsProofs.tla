-------------------------- MODULE CompanyLeadsProofs --------------------------
(***************************************************************************)
(* Whose leads a buyer gets, for any number of containers and any faults,  *)
(* and what a single container adds to that.                               *)
(***************************************************************************)
EXTENDS CompanyLeads, FiniteSetTheorems, TLAPS

LEMMA OrdersAreCounted == Cardinality(Ordered) \in Nat
<1>1. Ordered \in SUBSET Jobs
  BY DEF Ordered
<1> QED BY <1>1, LeadsConstants, FS_Subset, FS_CardinalityType

\* A worker's step either lets its job go with an outcome, lets it go as it
\* was, or is one of the four that keep it
LEMMA StepKinds ==
    ASSUME TypeOK, NEW c \in Containers,
           \/ Pick(c) \/ Start(c) \/ Poll(c) \/ Collect(c)
           \/ LosesTheJob(c) \/ Crash(c)
    PROVE  \/ worker[c] \in Busy /\ Close(c, "failed")
           \/ worker[c] = "fetching" /\ Close(c, "done")
           \/ worker[c] \in Busy /\ Lose(c) /\ UNCHANGED <<status, created, rowRun, runJob, runState>>
           \/ Pick(c) \/ MarkRunning(c)
           \/ \E r \in Runs : RunStarts(c, r)
           \/ /\ worker[c] = "polling" /\ runState[held[c]] = "succeeded"
              /\ worker' = [worker EXCEPT ![c] = "fetching"]
              /\ UNCHANGED <<status, created, rowRun, task, held, runJob, runState, lost>>
BY DEF TypeOK, Start, Poll, Collect, StartRefused, PollEnds, PollRefused, Deadline,
       Fetch, FetchRefused, LosesTheJob, Crash, Busy

\* Every step keeps the types
LEMMA TypeStep == TypeOK /\ JobHeld /\ [Next]_vars => TypeOK'
<1> SUFFICES ASSUME TypeOK, JobHeld, [Next]_vars PROVE TypeOK'
  OBVIOUS
<1> USE DEF TypeOK
<1>1. ASSUME NEW j \in Jobs, Create(j) PROVE TypeOK'
  BY <1>1, OrdersAreCounted DEF Create
<1>2. ASSUME NEW c \in Containers,
             \/ Pick(c) \/ Start(c) \/ Poll(c) \/ Collect(c)
             \/ LosesTheJob(c) \/ Crash(c)
      PROVE  TypeOK'
  <2>1. CASE worker[c] \in Busy /\ Close(c, "failed")
    BY <2>1 DEF Close, LetGo
  <2>2. CASE worker[c] = "fetching" /\ Close(c, "done")
    BY <2>2 DEF Close, LetGo
  <2>3. CASE worker[c] \in Busy /\ Lose(c) /\ UNCHANGED <<status, created, rowRun, runJob, runState>>
    <3>1. task[c] \in Jobs
      BY <2>3 DEF JobHeld
    <3> QED BY <2>3, <3>1 DEF LetGo, Lose
  <2>4. CASE Pick(c)
    BY <2>4 DEF Pick
  <2>5. CASE MarkRunning(c)
    BY <2>5 DEF MarkRunning
  <2>6. ASSUME NEW r \in Runs, RunStarts(c, r) PROVE TypeOK'
    BY <2>6 DEF RunStarts
  <2>7. CASE /\ worker[c] = "polling" /\ runState[held[c]] = "succeeded"
             /\ worker' = [worker EXCEPT ![c] = "fetching"]
             /\ UNCHANGED <<status, created, rowRun, task, held, runJob, runState, lost>>
    BY <2>7
  <2> QED BY <1>2, <2>1, <2>2, <2>3, <2>4, <2>5, <2>6, <2>7, StepKinds
<1>3. ASSUME NEW r \in Runs, RunEnds(r) PROVE TypeOK'
  BY <1>3 DEF RunEnds
<1>4. CASE UNCHANGED vars
  BY <1>4 DEF vars
<1> QED BY <1>1, <1>2, <1>3, <1>4 DEF Next

\* Every step keeps what a worker holds and what a result rests on
LEMMA LeadsStep == TypeOK /\ LeadsInv /\ [Next]_vars => LeadsInv'
<1> SUFFICES ASSUME TypeOK, LeadsInv, [Next]_vars PROVE LeadsInv'
  OBVIOUS
<1> USE LeadsConstants
    DEF TypeOK, LeadsInv, JobHeld, RunHeld, FetchedSucceeded, RunIsOwned,
        ResultIsOwn, Busy, LeadsConstants
<1>1. ASSUME NEW j \in Jobs, Create(j) PROVE LeadsInv'
  BY <1>1 DEF Create
<1>2. ASSUME NEW c \in Containers,
             \/ Pick(c) \/ Start(c) \/ Poll(c) \/ Collect(c)
             \/ LosesTheJob(c) \/ Crash(c)
      PROVE  LeadsInv'
  <2>1. CASE worker[c] \in Busy /\ Close(c, "failed")
    BY <2>1 DEF Close, LetGo
  <2>2. CASE worker[c] = "fetching" /\ Close(c, "done")
    <3>1. held[c] \in Runs /\ runJob[held[c]] = task[c]
          /\ runState[held[c]] = "succeeded"
      BY <2>2
    <3> QED BY <2>2, <3>1 DEF Close, LetGo
  <2>3. CASE worker[c] \in Busy /\ Lose(c) /\ UNCHANGED <<status, created, rowRun, runJob, runState>>
    BY <2>3 DEF LetGo, Lose
  <2>4. CASE Pick(c)
    BY <2>4 DEF Pick, Oldest
  <2>5. CASE MarkRunning(c)
    BY <2>5 DEF MarkRunning
  <2>6. ASSUME NEW r \in Runs, RunStarts(c, r) PROVE LeadsInv'
    <3>1. \A d \in Containers :
              worker[d] \in {"started", "polling", "fetching"} => held[d] # r
      BY <2>6 DEF RunStarts
    <3>2. JobHeld' /\ RunHeld' /\ FetchedSucceeded'
      BY <2>6, <3>1 DEF RunStarts
    <3>3. RunIsOwned'
      BY <2>6 DEF RunStarts
    <3>4. ResultIsOwn'
      BY <2>6 DEF RunStarts
    <3> QED BY <3>2, <3>3, <3>4
  <2>7. CASE /\ worker[c] = "polling" /\ runState[held[c]] = "succeeded"
             /\ worker' = [worker EXCEPT ![c] = "fetching"]
             /\ UNCHANGED <<status, created, rowRun, task, held, runJob, runState, lost>>
    BY <2>7
  <2> QED BY <1>2, <2>1, <2>2, <2>3, <2>4, <2>5, <2>6, <2>7, StepKinds
<1>3. ASSUME NEW r \in Runs, RunEnds(r) PROVE LeadsInv'
  BY <1>3 DEF RunEnds
<1>4. CASE UNCHANGED vars
  BY <1>4 DEF vars
<1> QED BY <1>1, <1>2, <1>3, <1>4 DEF Next

\* With one container, every step keeps rows and worker together
LEMMA OneContainerStep ==
    ASSUME OneContainer, TypeOK, LeadsInv, OneContainerInv, [Next]_vars
    PROVE  OneContainerInv'
<1> USE DEF TypeOK, OneContainerInv, RowIsMarked, UnmarkedIsQueued, MarkedIsRunning
<1>1. ASSUME NEW j \in Jobs, Create(j) PROVE OneContainerInv'
  BY <1>1 DEF Create, LeadsInv, JobHeld, Busy
<1>2. ASSUME NEW c \in Containers,
             \/ Pick(c) \/ Start(c) \/ Poll(c) \/ Collect(c)
             \/ LosesTheJob(c) \/ Crash(c)
      PROVE  OneContainerInv'
  <2>0. \A d \in Containers : d = c
    BY DEF OneContainer
  <2>1. CASE worker[c] \in Busy /\ Close(c, "failed")
    BY <2>0, <2>1 DEF Close, LetGo
  <2>2. CASE worker[c] = "fetching" /\ Close(c, "done")
    BY <2>0, <2>2 DEF Close, LetGo
  <2>3. CASE worker[c] \in Busy /\ Lose(c) /\ UNCHANGED <<status, created, rowRun, runJob, runState>>
    BY <2>0, <2>3 DEF LetGo, Lose
  <2>4. CASE Pick(c)
    BY <2>0, <2>4 DEF Pick, Oldest
  <2>5. CASE MarkRunning(c)
    <3>1. task[c] \in Jobs
      BY <2>5 DEF MarkRunning, LeadsInv, JobHeld, Busy
    <3>2. RowIsMarked'
      BY <2>5, <3>1 DEF MarkRunning
    <3>3. UnmarkedIsQueued' /\ MarkedIsRunning'
      BY <2>0, <2>5, <3>1 DEF MarkRunning
    <3> QED BY <3>2, <3>3
  <2>6. ASSUME NEW r \in Runs, RunStarts(c, r) PROVE OneContainerInv'
    BY <2>0, <2>6 DEF RunStarts
  <2>7. CASE /\ worker[c] = "polling" /\ runState[held[c]] = "succeeded"
             /\ worker' = [worker EXCEPT ![c] = "fetching"]
             /\ UNCHANGED <<status, created, rowRun, task, held, runJob, runState, lost>>
    BY <2>0, <2>7
  <2> QED BY <1>2, <2>1, <2>2, <2>3, <2>4, <2>5, <2>6, <2>7, StepKinds
<1>3. ASSUME NEW r \in Runs, RunEnds(r) PROVE OneContainerInv'
  BY <1>3 DEF RunEnds
<1>4. CASE UNCHANGED vars
  BY <1>4 DEF vars
<1> QED BY <1>1, <1>2, <1>3, <1>4 DEF Next

THEOREM LeadsInvariant == Spec => [](TypeOK /\ LeadsInv)
<1>1. Init => TypeOK /\ LeadsInv
  BY LeadsConstants
     DEF Init, TypeOK, LeadsConstants, LeadsInv, JobHeld, RunHeld, Busy,
         FetchedSucceeded, RunIsOwned, ResultIsOwn
<1>2. TypeOK /\ LeadsInv /\ [Next]_vars => (TypeOK /\ LeadsInv)'
  BY TypeStep, LeadsStep DEF LeadsInv
<1> QED BY <1>1, <1>2, PTL DEF Spec

\* The table, the workers and the runs at Apify are always well typed
THEOREM LeadsTypeCorrect == Spec => []TypeOK
  BY LeadsInvariant, PTL

\* Leads come from a run of the buyer's own that succeeded
THEOREM LeadsAreTheBuyersOwn == Spec => []ResultIsOwn
<1>1. LeadsInv => ResultIsOwn
  BY DEF LeadsInv
<1> QED BY <1>1, LeadsInvariant, PTL

LEMMA OneContainerInvariant ==
    ASSUME OneContainer PROVE Spec => [](TypeOK /\ LeadsInv /\ OneContainerInv)
<1>1. Init => OneContainerInv
  BY DEF Init, OneContainerInv, RowIsMarked, UnmarkedIsQueued, MarkedIsRunning
<1>2. TypeOK /\ LeadsInv /\ OneContainerInv /\ [Next]_vars => OneContainerInv'
  BY OneContainerStep
<1> QED BY <1>1, <1>2, LeadsInvariant, PTL DEF Spec

\* With one container, a job whose row names a run never gets another
THEOREM RunsAreNotRepeated ==
    ASSUME OneContainer PROVE Spec => RecordedRunIsLast
<1> DEFINE Kept == \A j \in Jobs : rowRun[j] # NoRun =>
                       /\ rowRun'[j] = rowRun[j]
                       /\ \A r \in Runs : runJob'[r] = j => runJob[r] = j
<1>1. TypeOK /\ LeadsInv /\ OneContainerInv /\ [Next]_vars => [Kept]_vars
  <2> SUFFICES ASSUME TypeOK, LeadsInv, OneContainerInv, Next PROVE Kept
    BY DEF vars
  <2> USE DEF TypeOK, OneContainerInv, UnmarkedIsQueued
  <2>1. ASSUME NEW j \in Jobs, Create(j) PROVE Kept
    BY <2>1 DEF Create
  <2>2. ASSUME NEW c \in Containers,
               \/ Pick(c) \/ Start(c) \/ Poll(c) \/ Collect(c)
               \/ LosesTheJob(c) \/ Crash(c)
        PROVE  Kept
    <3>1. CASE MarkRunning(c)
      BY <3>1 DEF MarkRunning
    <3>2. ASSUME NEW r \in Runs, RunStarts(c, r) PROVE Kept
      BY <3>2 DEF RunStarts
    <3>3. CASE rowRun' = rowRun /\ runJob' = runJob
      BY <3>3
    <3> QED BY <2>2, <3>1, <3>2, <3>3, StepKinds DEF Close, Pick
  <2>3. ASSUME NEW r \in Runs, RunEnds(r) PROVE Kept
    BY <2>3 DEF RunEnds
  <2> QED BY <2>1, <2>2, <2>3 DEF Next
<1> QED BY <1>1, OneContainerInvariant, PTL DEF Spec, RecordedRunIsLast

\* With one container, a job that has ended stays as it ended
THEOREM EndedJobsStay ==
    ASSUME OneContainer PROVE Spec => EndsStay
<1> DEFINE Kept == \A j \in Jobs :
                       status[j] \in {"done", "failed"} => status'[j] = status[j]
<1>1. TypeOK /\ LeadsInv /\ OneContainerInv /\ [Next]_vars => [Kept]_vars
  <2> SUFFICES ASSUME TypeOK, LeadsInv, OneContainerInv, Next PROVE Kept
    BY DEF vars
  <2> USE DEF TypeOK, OneContainerInv, UnmarkedIsQueued, MarkedIsRunning
  <2>1. ASSUME NEW j \in Jobs, Create(j) PROVE Kept
    BY <2>1 DEF Create
  <2>2. ASSUME NEW c \in Containers,
               \/ Pick(c) \/ Start(c) \/ Poll(c) \/ Collect(c)
               \/ LosesTheJob(c) \/ Crash(c)
        PROVE  Kept
    <3>1. CASE MarkRunning(c)
      BY <3>1 DEF MarkRunning
    <3>2. CASE worker[c] \in Busy /\ (Close(c, "failed") \/ Close(c, "done"))
      <4>1. status[task[c]] \in {"queued", "running"}
        BY <3>2 DEF Busy
      <4> QED BY <3>2, <4>1 DEF Close
    <3>3. CASE status' = status
      BY <3>3
    <3> QED BY <2>2, <3>1, <3>2, <3>3, StepKinds DEF Pick, RunStarts, Busy
  <2>3. ASSUME NEW r \in Runs, RunEnds(r) PROVE Kept
    BY <2>3 DEF RunEnds
  <2> QED BY <2>1, <2>2, <2>3 DEF Next
<1> QED BY <1>1, OneContainerInvariant, PTL DEF Spec, EndsStay
=============================================================================
