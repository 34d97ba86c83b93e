---------------------------- MODULE JobQueueProofs ----------------------------
(***************************************************************************)
(* Proofs of the safety of JobQueue, for any number of jobs, any faults    *)
(* and any sequence of deploys.                                            *)
(***************************************************************************)
EXTENDS JobQueue, FiniteSetTheorems, TLAPS

\* The two slots: each one's other is the other.
LEMMA OtherSlot ==
    ASSUME NEW c \in Containers
    PROVE  Other(c) \in Containers /\ Other(c) # c
<1>1. Containers # {c}
  BY JobConstants, FS_Singleton
<1>2. \E d \in Containers : d # c
  BY <1>1
<1> QED
  BY <1>2 DEF Other

\* There are no further slots.
LEMMA TwoSlots ==
    ASSUME NEW b \in Containers
    PROVE  \A c \in Containers : c = b \/ c = Other(b)
<1>1. Other(b) \in Containers /\ Other(b) # b
  BY OtherSlot
<1>2. {b, Other(b)} \in SUBSET Containers
  BY <1>1
<1>3. Cardinality({b, Other(b)}) = 2
  <2>1. {b, Other(b)} = {b} \cup {Other(b)} /\ Other(b) \notin {b}
    BY <1>1
  <2>2. IsFiniteSet({b}) /\ Cardinality({b}) = 1
    BY FS_Singleton
  <2>3. Cardinality({b} \cup {Other(b)}) = Cardinality({b}) + 1
    BY <2>1, <2>2, FS_AddElement
  <2> QED
    BY <2>1, <2>2, <2>3
<1>4. {b, Other(b)} = Containers
  BY <1>2, <1>3, JobConstants, FS_Subset
<1> QED
  BY <1>4

\* The number of a finite set's elements with some property is a number.
LEMMA CountsAreNumbers ==
    /\ \A j \in Jobs : IsFiniteSet(Holders(j)) /\ Cardinality(Holders(j)) \in Nat
    /\ IsFiniteSet({k \in Jobs : Exists(k)})
    /\ Cardinality({k \in Jobs : Exists(k)}) \in Nat
    /\ MaxStarts \in Nat /\ MaxStarts >= 1
<1>1. \A j \in Jobs : IsFiniteSet(Holders(j)) /\ Cardinality(Holders(j)) \in Nat
  <2> SUFFICES ASSUME NEW j \in Jobs
               PROVE  IsFiniteSet(Holders(j)) /\ Cardinality(Holders(j)) \in Nat
    OBVIOUS
  <2>1. Holders(j) \in SUBSET Containers
    BY DEF Holders
  <2> QED
    BY <2>1, JobConstants, FS_Subset, FS_CardinalityType
<1>2. /\ IsFiniteSet({k \in Jobs : Exists(k)})
      /\ Cardinality({k \in Jobs : Exists(k)}) \in Nat
  <2>1. {k \in Jobs : Exists(k)} \in SUBSET Jobs
    OBVIOUS
  <2> QED
    BY <2>1, JobConstants, FS_Subset, FS_CardinalityType
<1>3. MaxStarts \in Nat /\ MaxStarts >= 1
  BY JobConstants DEF MaxStarts
<1> QED
  BY <1>1, <1>2, <1>3

\* Every step of buyers, workers and deploys keeps the types of the state.
LEMMA TypeStep == TypeOK /\ TasksHeld /\ SlotsUp /\ [Next]_vars => TypeOK'
<1> SUFFICES ASSUME TypeOK, TasksHeld, SlotsUp, [Next]_vars
             PROVE  TypeOK'
  OBVIOUS
<1> USE DEF TypeOK
<1>1. ASSUME NEW j \in Jobs, Buyer(j)
      PROVE  TypeOK'
  BY <1>1, CountsAreNumbers DEF Buyer, Create, Settle, SettleFails
<1>2. ASSUME NEW c \in Containers,
             \/ Pick(c) \/ EndOfRun(c) \/ WriteFails(c)
             \/ Crash(c) \/ Restart(c)
      PROVE  TypeOK'
  BY <1>2 DEF Pick, EndOfRun, FinishJob, FailJob, EndRun, WriteFails, Crash,
              Restart, Drop, LetGo, TasksHeld
<1>3. ASSUME NEW c \in Containers, MarkRunning(c)
      PROVE  TypeOK'
  <2>1. task[c] \in Jobs
    BY <1>3 DEF MarkRunning, TasksHeld
  <2> QED
    BY <1>3, <2>1 DEF MarkRunning
<1>4. CASE Deploy
  <2>1. live \in Containers /\ Other(live) \in Containers /\ Other(live) # live
    BY OtherSlot
  <2> QED
    BY <1>4, <2>1 DEF Deploy, StartTarget, AbortDeploy, NginxRefuses, Cutover,
                      RollBack, CompleteDeploy, Stop, Drop, LetGo, SlotsUp
<1>5. CASE UNCHANGED vars
  BY <1>5 DEF vars
<1> QED
  BY <1>1, <1>2, <1>3, <1>4, <1>5 DEF Next

\* A worker holds a job exactly while it has picked or runs one, and runs in
\* a slot that is up.
LEMMA TasksStep ==
    TypeOK /\ TasksHeld /\ SlotsUp /\ [Next]_vars => TasksHeld' /\ SlotsUp'
<1> SUFFICES ASSUME TypeOK, TasksHeld, SlotsUp, [Next]_vars
             PROVE  TasksHeld' /\ SlotsUp'
  OBVIOUS
<1> USE DEF TypeOK, TasksHeld, SlotsUp, Exists
<1>1. ASSUME NEW j \in Jobs, Buyer(j)
      PROVE  TasksHeld' /\ SlotsUp'
  BY <1>1 DEF Buyer, Create, Settle, SettleFails
<1>2. ASSUME NEW c \in Containers, Pick(c)
      PROVE  TasksHeld' /\ SlotsUp'
  BY <1>2, JobConstants DEF Pick, Oldest
<1>3. ASSUME NEW c \in Containers, MarkRunning(c) \/ EndOfRun(c)
      PROVE  TasksHeld' /\ SlotsUp'
  <2>1. task[c] \in Jobs /\ worker[c] # "down"
    BY <1>3 DEF MarkRunning, EndOfRun, FinishJob, FailJob, EndRun
  <2>2. \A j \in Jobs : Exists(j) => Exists(j)'
    BY <1>3, <2>1 DEF MarkRunning, EndOfRun, FinishJob, FailJob, EndRun
  <2> QED
    BY <1>3, <2>1, <2>2
       DEF MarkRunning, EndOfRun, FinishJob, FailJob, EndRun, Drop, LetGo
<1>4. ASSUME NEW c \in Containers, WriteFails(c) \/ Crash(c) \/ Restart(c)
      PROVE  TasksHeld' /\ SlotsUp'
  BY <1>4 DEF WriteFails, Crash, Restart, Drop, LetGo
<1>5. CASE Deploy
  <2>1. live \in Containers /\ Other(live) \in Containers /\ Other(live) # live
    BY OtherSlot
  <2>2. \A c \in Containers : c = live \/ c = Other(live)
    BY TwoSlots
  <2> QED
    BY <1>5, <2>1, <2>2
       DEF Deploy, StartTarget, AbortDeploy, NginxRefuses, Cutover, RollBack,
           CompleteDeploy, Stop, Drop, LetGo
<1>6. CASE UNCHANGED vars
  BY <1>6 DEF vars
<1> QED
  BY <1>1, <1>2, <1>3, <1>4, <1>5, <1>6 DEF Next

\* A step that queues and picks nothing keeps the order.
LEMMA OrderKept ==
    ASSUME TypeOK, TasksHeld, PickIsOldest, CreatedInOrder, created' = created,
           \A j \in Jobs : /\ Exists(j)' <=> Exists(j)
                           /\ status'[j] = "queued" => status[j] = "queued",
           \A d \in Containers : worker'[d] = "picked" =>
               worker[d] = "picked" /\ task'[d] = task[d]
    PROVE  PickIsOldest' /\ CreatedInOrder'
<1>1. PickIsOldest'
  BY DEF PickIsOldest, TypeOK, TasksHeld
<1>2. {k \in Jobs : Exists(k)}' = {k \in Jobs : Exists(k)}
  OBVIOUS
<1>3. CreatedInOrder'
  BY <1>2 DEF CreatedInOrder
<1> QED
  BY <1>1, <1>3

\* The queue's order: rows are stamped in order of creation, and a worker that
\* picked a job has picked the oldest one.
LEMMA OrderStep ==
    /\ TypeOK /\ TasksHeld /\ PickIsOldest /\ CreatedInOrder /\ [Next]_vars
    => PickIsOldest' /\ CreatedInOrder'
<1> DEFINE Rows == {k \in Jobs : Exists(k)}
<1> SUFFICES ASSUME TypeOK, TasksHeld, PickIsOldest, CreatedInOrder, [Next]_vars
             PROVE  PickIsOldest' /\ CreatedInOrder'
  OBVIOUS
<1>1. ASSUME NEW j \in Jobs, Create(j)
      PROVE  PickIsOldest' /\ CreatedInOrder'
  <2>1. Rows' = Rows \cup {j} /\ j \notin Rows
    BY <1>1 DEF Create, Exists, TypeOK
  <2>2. IsFiniteSet(Rows) /\ Cardinality(Rows) \in Nat
    BY CountsAreNumbers
  <2>3. Cardinality(Rows') = Cardinality(Rows) + 1
    BY <2>1, <2>2, FS_AddElement
  <2>4. /\ created' = [created EXCEPT ![j] = 1 + Cardinality(Rows)]
        /\ status' = [status EXCEPT ![j] = "queued"]
        /\ UNCHANGED <<worker, task>>
        /\ status[j] = "absent"
    BY <1>1 DEF Create, Exists
  <2>5. \A k \in Jobs : status[k] # "absent" => created[k] <= Cardinality(Rows)
    BY DEF CreatedInOrder, Exists
  <2> HIDE DEF Rows
  <2>6. \A k \in Jobs : status'[k] # "absent" => created'[k] <= Cardinality(Rows')
    BY <2>2, <2>3, <2>4, <2>5 DEF TypeOK
  <2>7. CreatedInOrder'
    BY <2>6 DEF CreatedInOrder, Exists, Rows
  <2>8. PickIsOldest'
    <3> SUFFICES ASSUME NEW c \in Containers, NEW k \in Jobs,
                        worker[c] = "picked", status'[task[c]] = "queued",
                        status'[k] = "queued"
                 PROVE  created'[task[c]] <= created'[k]
      BY <2>4 DEF PickIsOldest
    <3>1. task[c] \in Jobs
      BY DEF TypeOK, TasksHeld
    <3>2. task[c] # j
      BY <2>4 DEF TypeOK, TasksHeld, Exists
    <3>3. CASE k = j
      BY <2>2, <2>4, <2>5, <3>1, <3>2, <3>3 DEF TypeOK
    <3>4. CASE k # j
      BY <2>4, <3>1, <3>2, <3>4 DEF TypeOK, PickIsOldest
    <3> QED
      BY <3>3, <3>4
  <2> QED
    BY <2>7, <2>8
<1>2. ASSUME NEW j \in Jobs, Settle(j) \/ SettleFails(j)
      PROVE  PickIsOldest' /\ CreatedInOrder'
  BY <1>2 DEF Settle, SettleFails, PickIsOldest, CreatedInOrder, Exists
<1>3. ASSUME NEW c \in Containers, Pick(c)
      PROVE  PickIsOldest' /\ CreatedInOrder'
  <2>1. CreatedInOrder'
    BY <1>3 DEF Pick, CreatedInOrder, Exists
  <2>2. PickIsOldest'
    BY <1>3 DEF Pick, Oldest, PickIsOldest, TypeOK, TasksHeld
  <2> QED
    BY <2>1, <2>2
<1>4. ASSUME NEW c \in Containers,
             \/ MarkRunning(c) \/ EndOfRun(c) \/ WriteFails(c)
             \/ Crash(c) \/ Restart(c)
      PROVE  PickIsOldest' /\ CreatedInOrder'
  <2>1. /\ UNCHANGED created
        /\ \A j \in Jobs : /\ Exists(j)' <=> Exists(j)
                           /\ status'[j] = "queued" => status[j] = "queued"
        /\ \A d \in Containers : worker'[d] = "picked" =>
               worker[d] = "picked" /\ task'[d] = task[d]
    BY <1>4 DEF MarkRunning, EndOfRun, FinishJob, FailJob, EndRun, WriteFails,
                Crash, Restart, Drop, LetGo, TypeOK, TasksHeld, Exists
  <2> QED
    BY <2>1, OrderKept
<1>5. CASE Deploy
  <2>1. /\ UNCHANGED <<created, status>>
        /\ \A d \in Containers : worker'[d] = "picked" =>
               worker[d] = "picked" /\ task'[d] = task[d]
    BY <1>5 DEF Deploy, StartTarget, AbortDeploy, NginxRefuses, Cutover, RollBack,
                CompleteDeploy, Stop, Drop, LetGo, TypeOK
  <2>2. \A j \in Jobs : /\ Exists(j)' <=> Exists(j)
                        /\ status'[j] = "queued" => status[j] = "queued"
    BY <2>1 DEF Exists
  <2> QED
    BY <2>1, <2>2, OrderKept
<1>6. CASE UNCHANGED vars
  BY <1>6 DEF vars, PickIsOldest, CreatedInOrder, Exists
<1> QED
  BY <1>1, <1>2, <1>3, <1>4, <1>5, <1>6 DEF Next, Buyer

\* A set of slots, or of the only slot there is without deploys, is no larger
\* than the number of starts allowed.
LEMMA SlotsBounded ==
    ASSUME NEW S \in SUBSET Containers, NEW c \in Containers,
           DeployEnds = {} => S \subseteq {c}
    PROVE  Cardinality(S) \in Nat /\ Cardinality(S) <= MaxStarts
<1>1. Cardinality(S) \in Nat /\ Cardinality(S) <= Cardinality(Containers)
  BY JobConstants, FS_Subset, FS_CardinalityType
<1>2. CASE DeployEnds = {}
  <2>1. IsFiniteSet({c}) /\ Cardinality({c}) = 1
    BY FS_Singleton
  <2>2. Cardinality(S) <= 1
    BY <1>2, <2>1, FS_Subset
  <2> QED
    BY <1>1, <1>2, <2>2 DEF MaxStarts
<1>3. CASE DeployEnds # {}
  BY <1>1, <1>3 DEF MaxStarts
<1> QED
  BY <1>2, <1>3

\* Fewer holders and no further start keep the bound.
LEMMA StartsKept ==
    ASSUME StartsCounted, NEW j \in Jobs, TypeOK,
           runs'[j] = runs[j], Holders(j)' \subseteq Holders(j),
           status'[j] \in {"absent", "queued"} => status[j] \in {"absent", "queued"}
    PROVE  /\ status'[j] \in {"absent", "queued"} => runs'[j] = 0
           /\ runs'[j] + Cardinality(Holders(j)') <= MaxStarts
<1>1. /\ IsFiniteSet(Holders(j)) /\ Cardinality(Holders(j)) \in Nat
      /\ MaxStarts \in Nat
  BY CountsAreNumbers
<1>2. /\ Cardinality(Holders(j)') <= Cardinality(Holders(j))
      /\ Cardinality(Holders(j)') \in Nat
  BY <1>1, FS_Subset, FS_CardinalityType
<1>3. runs[j] \in Nat /\ runs[j] + Cardinality(Holders(j)) <= MaxStarts
  BY DEF TypeOK, StartsCounted
<1> QED
  BY <1>1, <1>2, <1>3 DEF StartsCounted

\* A start is counted against the slot that picked the job: it never brings
\* the starts of a job above the number of slots that could pick it.
LEMMA StartsStep ==
    /\ TypeOK /\ TasksHeld /\ SlotsUp /\ TypeOK' /\ SlotsUp' /\ StartsCounted
    /\ [Next]_vars
    => StartsCounted'
<1> SUFFICES ASSUME TypeOK, TasksHeld, SlotsUp, TypeOK', SlotsUp', StartsCounted,
                    [Next]_vars, NEW j \in Jobs
             PROVE  /\ status'[j] \in {"absent", "queued"} => runs'[j] = 0
                    /\ runs'[j] + Cardinality(Holders(j)') <= MaxStarts
  BY DEF StartsCounted
<1> DEFINE Bound == /\ status'[j] \in {"absent", "queued"} => runs'[j] = 0
                    /\ runs'[j] + Cardinality(Holders(j)') <= MaxStarts
<1>1. ASSUME NEW k \in Jobs, Buyer(k)
      PROVE  Bound
  <2>1. /\ runs' = runs /\ Holders(j)' = Holders(j)
        /\ status'[j] \in {"absent", "queued"} => status[j] \in {"absent", "queued"}
    BY <1>1 DEF Buyer, Create, Settle, SettleFails, Holders, TypeOK, Exists
  <2> QED
    BY <2>1, StartsKept
<1>2. ASSUME NEW c \in Containers, Pick(c)
      PROVE  Bound
  <2>1. CASE task'[c] = j
    <3>1. status[j] = "queued" /\ UNCHANGED <<runs, status>>
      BY <1>2, <2>1 DEF Pick, Oldest, TypeOK
    <3>2. runs[j] = 0
      BY <3>1 DEF StartsCounted
    <3>3. Cardinality(Holders(j)') <= MaxStarts /\ Cardinality(Holders(j)') \in Nat
      <4>1. Holders(j)' \in SUBSET Containers /\ live' \in Containers
        BY DEF Holders, TypeOK
      <4>2. DeployEnds = {} => Holders(j)' \subseteq {live'}
        BY DEF Holders, SlotsUp
      <4> QED
        BY <4>1, <4>2, SlotsBounded
    <3> QED
      BY <3>1, <3>2, <3>3, CountsAreNumbers
  <2>2. CASE task'[c] # j
    <3>1. UNCHANGED <<runs, status>> /\ Holders(j)' \subseteq Holders(j)
      BY <1>2, <2>2 DEF Pick, Holders, TypeOK
    <3> QED
      BY <3>1, StartsKept
  <2> QED
    BY <2>1, <2>2
<1>3. ASSUME NEW c \in Containers, MarkRunning(c)
      PROVE  Bound
  <2>1. CASE task[c] = j
    <3>1. /\ runs'[j] = runs[j] + 1 /\ status'[j] = "running"
          /\ Holders(j)' = Holders(j) \ {c} /\ c \in Holders(j)
      BY <1>3, <2>1 DEF MarkRunning, Holders, TypeOK
    <3>2. /\ IsFiniteSet(Holders(j)) /\ Cardinality(Holders(j)) \in Nat
          /\ MaxStarts \in Nat
      BY CountsAreNumbers
    <3>3. Cardinality(Holders(j)') = Cardinality(Holders(j)) - 1
      <4>1. Cardinality(Holders(j) \ {c}) = Cardinality(Holders(j)) - 1
        BY <3>1, <3>2, FS_RemoveElement
      <4> QED BY <3>1, <4>1
    <3>4. runs[j] \in Nat /\ runs[j] + Cardinality(Holders(j)) <= MaxStarts
      BY DEF TypeOK, StartsCounted
    <3>5. runs'[j] + Cardinality(Holders(j)') = runs[j] + Cardinality(Holders(j))
      BY <3>1, <3>2, <3>3, <3>4
    <3> QED
      BY <3>1, <3>2, <3>3, <3>4, <3>5
  <2>2. CASE task[c] # j
    <3>1. /\ runs'[j] = runs[j] /\ status'[j] = status[j]
          /\ Holders(j)' \subseteq Holders(j)
      BY <1>3, <2>2 DEF MarkRunning, Holders, TypeOK, TasksHeld
    <3> QED
      BY <3>1, StartsKept
  <2> QED
    BY <2>1, <2>2
<1>4. ASSUME NEW c \in Containers,
             EndOfRun(c) \/ WriteFails(c) \/ Crash(c) \/ Restart(c)
      PROVE  Bound
  <2>1. /\ runs' = runs /\ Holders(j)' \subseteq Holders(j)
        /\ status'[j] \in {"absent", "queued"} => status[j] \in {"absent", "queued"}
    BY <1>4 DEF EndOfRun, FinishJob, FailJob, EndRun, WriteFails, Crash, Restart,
                Drop, LetGo, Holders, TypeOK, TasksHeld
  <2> QED
    BY <2>1, StartsKept
<1>5. CASE Deploy
  <2>1. /\ runs' = runs /\ status' = status /\ Holders(j)' \subseteq Holders(j)
    BY <1>5 DEF Deploy, StartTarget, AbortDeploy, NginxRefuses, Cutover, RollBack,
                CompleteDeploy, Stop, Drop, LetGo, Holders, TypeOK
  <2> QED
    BY <2>1, StartsKept
<1>6. CASE UNCHANGED vars
  BY <1>6 DEF vars, StartsCounted, Holders
<1> QED
  BY <1>1, <1>2, <1>3, <1>4, <1>5, <1>6 DEF Next

\* The inductive invariant holds of every behaviour.
LEMMA QueueInvariant == Spec => [](TypeOK /\ QueueInv)
<1>1. Init => TypeOK /\ QueueInv
  <2> SUFFICES ASSUME Init PROVE TypeOK /\ QueueInv
    OBVIOUS
  <2>1. TypeOK /\ TasksHeld /\ SlotsUp /\ PickIsOldest /\ CreatedInOrder
    BY DEF Init, TypeOK, TasksHeld, SlotsUp, PickIsOldest, CreatedInOrder, Exists
  <2>2. \A j \in Jobs : Holders(j) = {} /\ runs[j] = 0
    BY DEF Init, Holders
  <2>3. StartsCounted
    BY <2>2, FS_EmptySet, CountsAreNumbers DEF StartsCounted
  <2> QED
    BY <2>1, <2>3 DEF QueueInv
<1>2. TypeOK /\ QueueInv /\ [Next]_vars => TypeOK' /\ QueueInv'
  BY TypeStep, TasksStep, OrderStep, StartsStep DEF QueueInv
<1> QED
  BY <1>1, <1>2, PTL DEF Spec

\* The table, the workers and the deploy are always well typed; the live slot
\* is always up.
THEOREM QueueTypeCorrect == Spec => []TypeOK
  BY QueueInvariant, PTL

\* A job is started at most once without deploys, and at most once per slot
\* whatever the deploys, crashes and failed writes.
THEOREM StartsAreBounded == Spec => []StartsBounded
<1>1. TypeOK /\ QueueInv => StartsBounded
  <2> SUFFICES ASSUME TypeOK, QueueInv, NEW j \in Jobs
               PROVE  runs[j] <= MaxStarts
    BY DEF StartsBounded, MaxStarts
  <2>1. runs[j] \in Nat /\ Cardinality(Holders(j)) \in Nat /\ MaxStarts \in Nat
    BY CountsAreNumbers DEF TypeOK
  <2>2. runs[j] + Cardinality(Holders(j)) <= MaxStarts
    BY DEF QueueInv, StartsCounted
  <2> QED
    BY <2>1, <2>2
<1> QED
  BY <1>1, QueueInvariant, PTL

\* Jobs leave the queue in the order of their creation, also when two
\* containers work on it.
THEOREM JobsStartInOrder == Spec => StartsInOrder
<1> DEFINE InOrder ==
        \A j, k \in Jobs :
            status[j] = "queued" /\ status'[j] = "running" /\ status[k] = "queued"
                => created[j] <= created[k]
<1>1. TypeOK /\ QueueInv /\ [Next]_vars => [InOrder]_vars
  <2> SUFFICES ASSUME TypeOK, QueueInv, Next,
                      NEW j \in Jobs, NEW k \in Jobs, status[j] = "queued",
                      status'[j] = "running", status[k] = "queued"
               PROVE  created[j] <= created[k]
    OBVIOUS
  <2>1. PICK c \in Containers : MarkRunning(c) /\ task[c] = j
    BY DEF Next, Buyer, Create, Settle, SettleFails, Pick, MarkRunning, EndOfRun,
           FinishJob, FailJob, EndRun, WriteFails, Crash, Restart, Deploy,
           StartTarget, AbortDeploy, NginxRefuses, Cutover, RollBack,
           CompleteDeploy, Stop, TypeOK, Exists
  <2> QED
    BY <2>1 DEF MarkRunning, QueueInv, PickIsOldest
<1> QED
  BY <1>1, QueueInvariant, PTL DEF Spec, StartsInOrder
-----------------------------------------------------------------------------
(* What a second start costs: as long as a job was started once, its result *)
(* stays and the positions behind it only fall.  The invariant counts, for  *)
(* each job, the workers that run it and the result it has got against its  *)
(* starts.                                                                  *)

RunsIt(c, j) == worker[c] = "running" /\ task[c] = j

Ended(j) == status[j] \in {"done", "failed"}

RunsCounted ==
    \A j \in Jobs :
        /\ Ended(j) => runs[j] >= 1
        /\ \A c \in Containers :
               /\ RunsIt(c, j) => runs[j] >= 1
               /\ RunsIt(c, j) /\ Ended(j) => runs[j] >= 2
               /\ \A d \in Containers :
                      RunsIt(c, j) /\ RunsIt(d, j) /\ c # d => runs[j] >= 2

\* Nothing that leaves runs alone, ends no job and starts no run disturbs it.
LEMMA RunsKept ==
    ASSUME RunsCounted, UNCHANGED runs,
           \A j \in Jobs : Ended(j)' => Ended(j),
           \A c \in Containers, j \in Jobs : RunsIt(c, j)' => RunsIt(c, j)
    PROVE  RunsCounted'
BY DEF RunsCounted

LEMMA RunsStep == TypeOK /\ TasksHeld /\ RunsCounted /\ [Next]_vars => RunsCounted'
<1> SUFFICES ASSUME TypeOK, TasksHeld, RunsCounted, [Next]_vars
             PROVE  RunsCounted'
  OBVIOUS
<1>1. ASSUME NEW j \in Jobs, Buyer(j)
      PROVE  RunsCounted'
  <2>1. /\ UNCHANGED <<runs, worker, task>>
        /\ \A k \in Jobs : Ended(k)' => Ended(k)
    BY <1>1 DEF Buyer, Create, Settle, SettleFails, Ended, TypeOK, Exists
  <2> QED
    BY <2>1, RunsKept DEF RunsIt
<1>2. ASSUME NEW c \in Containers, NEW k \in Jobs, MarkRunning(c), task[c] = k
      PROVE  RunsCounted'
  <2>1. /\ status' = [status EXCEPT ![k] = "running"]
        /\ runs' = [runs EXCEPT ![k] = @ + 1]
        /\ worker' = [worker EXCEPT ![c] = "running"]
        /\ task' = task
    BY <1>2 DEF MarkRunning
  <2>2. ASSUME NEW j \in Jobs, j # k
        PROVE  /\ runs'[j] = runs[j] /\ Ended(j)' = Ended(j)
               /\ \A d \in Containers : RunsIt(d, j)' = RunsIt(d, j)
    BY <1>2, <2>1, <2>2 DEF Ended, RunsIt, TypeOK
  <2>3. ~Ended(k)' /\ runs'[k] = runs[k] + 1 /\ runs[k] \in Nat
    BY <2>1 DEF Ended, TypeOK
  <2>4. \A d \in Containers : d # c /\ RunsIt(d, k)' => RunsIt(d, k)
    BY <2>1 DEF RunsIt, TypeOK
  <2>5. \A d \in Containers : d # c /\ RunsIt(d, k)' => runs[k] >= 1
    BY <2>4 DEF RunsCounted
  <2>6. runs'[k] >= 1 /\ \A d \in Containers : d # c /\ RunsIt(d, k)' => runs'[k] >= 2
    BY <2>3, <2>5
  <2>7. \A j \in Jobs : Ended(j)' => runs'[j] >= 1
    BY <2>2, <2>3 DEF RunsCounted
  <2>8. \A j \in Jobs, d \in Containers : RunsIt(d, j)' => runs'[j] >= 1
    BY <2>2, <2>6 DEF RunsCounted
  <2>9. \A j \in Jobs, d \in Containers : RunsIt(d, j)' /\ Ended(j)' => runs'[j] >= 2
    BY <2>2, <2>3 DEF RunsCounted
  <2>10. \A j \in Jobs, d, e \in Containers :
             RunsIt(d, j)' /\ RunsIt(e, j)' /\ d # e => runs'[j] >= 2
    <3>1. ASSUME NEW j \in Jobs, j # k, NEW d \in Containers, NEW e \in Containers,
                 RunsIt(d, j)', RunsIt(e, j)', d # e
          PROVE  runs'[j] >= 2
      BY <2>2, <3>1 DEF RunsCounted
    <3>2. \A d, e \in Containers :
              RunsIt(d, k)' /\ RunsIt(e, k)' /\ d # e => runs'[k] >= 2
      BY <2>6
    <3> QED
      BY <3>1, <3>2
  <2> QED
    BY <2>7, <2>8, <2>9, <2>10 DEF RunsCounted
<1>3. ASSUME NEW c \in Containers, NEW k \in Jobs, EndOfRun(c), task[c] = k
      PROVE  RunsCounted'
  <2>1. /\ RunsIt(c, k)
        /\ \/ status' = [status EXCEPT ![k] = "done"]
           \/ status' = [status EXCEPT ![k] = "failed"]
        /\ runs' = runs
        /\ worker' = [worker EXCEPT ![c] = "idle"]
        /\ task' = [task EXCEPT ![c] = NoJob]
    BY <1>3 DEF EndOfRun, FinishJob, FailJob, EndRun, LetGo, RunsIt
  <2>2. \A d \in Containers, j \in Jobs :
            RunsIt(d, j)' => d # c /\ RunsIt(d, j)
    BY <2>1 DEF RunsIt, TypeOK
  <2>3. \A j \in Jobs : j # k => Ended(j)' = Ended(j)
    BY <2>1 DEF Ended, TypeOK
  <2>4. \A j \in Jobs : Ended(j)' => runs'[j] >= 1
    BY <2>1, <2>3 DEF RunsCounted
  <2>5. \A d \in Containers, j \in Jobs : RunsIt(d, j)' /\ Ended(j)' => runs'[j] >= 2
    BY <2>1, <2>2, <2>3 DEF RunsCounted
  <2> QED
    BY <2>1, <2>2, <2>4, <2>5 DEF RunsCounted
<1>4. ASSUME NEW c \in Containers, Pick(c) \/ WriteFails(c) \/ Crash(c) \/ Restart(c)
      PROVE  RunsCounted'
  <2>1. /\ UNCHANGED <<runs, status>>
        /\ \A d \in Containers, j \in Jobs : RunsIt(d, j)' => RunsIt(d, j)
    BY <1>4 DEF Pick, WriteFails, Crash, Restart, Drop, LetGo, RunsIt, TypeOK
  <2> QED
    BY <2>1, RunsKept DEF Ended
<1>5. CASE Deploy
  <2>1. /\ UNCHANGED <<runs, status>>
        /\ \A d \in Containers, j \in Jobs : RunsIt(d, j)' => RunsIt(d, j)
    BY <1>5 DEF Deploy, StartTarget, AbortDeploy, NginxRefuses, Cutover, RollBack,
                CompleteDeploy, Stop, Drop, LetGo, RunsIt, TypeOK
  <2> QED
    BY <2>1, RunsKept DEF Ended
<1>6. CASE UNCHANGED vars
  BY <1>6, RunsKept DEF vars, Ended, RunsIt
<1>7. \A c \in Containers : MarkRunning(c) \/ EndOfRun(c) => task[c] \in Jobs
  BY DEF MarkRunning, EndOfRun, FinishJob, FailJob, EndRun, TypeOK, TasksHeld
<1> QED
  BY <1>1, <1>2, <1>3, <1>4, <1>5, <1>6, <1>7 DEF Next

LEMMA RunsInvariant == Spec => [](TypeOK /\ QueueInv /\ RunsCounted)
<1>1. Init => RunsCounted
  BY DEF Init, RunsCounted, Ended, RunsIt
<1>2. TypeOK /\ QueueInv /\ RunsCounted /\ [Next]_vars => RunsCounted'
  BY RunsStep DEF QueueInv
<1> QED
  BY <1>1, <1>2, QueueInvariant, PTL DEF Spec

\* A row leaves 'done' or 'failed' only at a start, or at the end of another run.
LEMMA EndedChanges ==
    ASSUME TypeOK, TasksHeld, RunsCounted, Next,
           NEW j \in Jobs, Ended(j), status'[j] # status[j]
    PROVE  runs'[j] >= 2
<1>1. PICK c \in Containers :
          \/ MarkRunning(c) /\ task[c] = j
          \/ EndOfRun(c) /\ task[c] = j
  BY DEF Ended, Next, Buyer, Create, Settle, SettleFails, Pick, MarkRunning, EndOfRun,
         FinishJob, FailJob, EndRun, WriteFails, Crash, Restart, Deploy,
         StartTarget, AbortDeploy, NginxRefuses, Cutover, RollBack,
         CompleteDeploy, Stop, TypeOK, Exists
<1>2. CASE MarkRunning(c) /\ task[c] = j
  <2>1. runs'[j] = runs[j] + 1 /\ runs[j] \in Nat
    BY <1>2 DEF MarkRunning, TypeOK
  <2>2. runs[j] >= 1
    BY DEF RunsCounted
  <2> QED
    BY <2>1, <2>2
<1>3. CASE EndOfRun(c) /\ task[c] = j
  <2>1. RunsIt(c, j) /\ runs' = runs
    BY <1>3 DEF EndOfRun, FinishJob, FailJob, EndRun, RunsIt
  <2> QED
    BY <2>1 DEF RunsCounted
<1> QED
  BY <1>1, <1>2, <1>3

\* A published result stays, unless both slots of a deploy have started the job.
THEOREM ResultsStay == Spec => EndsStay
<1> DEFINE Stays ==
        \A j \in Jobs :
            status[j] \in {"done", "failed"} /\ runs'[j] <= 1 => status'[j] = status[j]
<1>1. TypeOK /\ QueueInv /\ RunsCounted /\ [Next]_vars => [Stays]_vars
  <2> SUFFICES ASSUME TypeOK, QueueInv, RunsCounted, Next, TypeOK',
                      NEW j \in Jobs, Ended(j), runs'[j] <= 1, status'[j] # status[j]
               PROVE  FALSE
    BY TypeStep DEF Ended, QueueInv
  <2>1. runs'[j] >= 2 /\ runs'[j] \in Nat
    BY EndedChanges DEF QueueInv, TypeOK
  <2> QED
    BY <2>1
<1> QED
  BY <1>1, RunsInvariant, PTL DEF Spec, EndsStay

\* Only an order gives a row its created_at, or adds a row.
LEMMA RowsOfOrders ==
    ASSUME TypeOK, TasksHeld, Next
    PROVE  \A k \in Jobs :
               /\ Exists(k) => created'[k] = created[k]
               /\ ~Exists(k) /\ Exists(k)' => created'[k] = 1 + Cardinality({i \in Jobs : Exists(i)})
<1> DEFINE Rows == {i \in Jobs : Exists(i)}
           Kept == created' = created /\ \A k \in Jobs : Exists(k)' => Exists(k)
<1>0. ASSUME NEW i \in Jobs, Create(i), NEW k \in Jobs
      PROVE  /\ Exists(k) => created'[k] = created[k]
             /\ ~Exists(k) /\ Exists(k)' => created'[k] = 1 + Cardinality(Rows)
  <2>1. /\ created' = [created EXCEPT ![i] = 1 + Cardinality(Rows)]
        /\ status' = [status EXCEPT ![i] = "queued"]
        /\ status[i] = "absent"
    BY <1>0 DEF Create, Exists
  <2> HIDE DEF Rows
  <2> QED
    BY <2>1 DEF Exists, TypeOK
<1>1. ASSUME NEW i \in Jobs, Buyer(i), ~Create(i)
      PROVE  created' = created /\ status' = status
  BY <1>1 DEF Buyer, Settle, SettleFails
<1>2. ASSUME NEW c \in Containers, MarkRunning(c) \/ EndOfRun(c)
      PROVE  created' = created /\ \A k \in Jobs : Exists(k)' => Exists(k)
  <2>1. task[c] \in Jobs /\ Exists(task[c])
    BY <1>2 DEF MarkRunning, EndOfRun, FinishJob, FailJob, EndRun, TypeOK, TasksHeld
  <2>2. created' = created /\ \A k \in Jobs : k # task[c] => status'[k] = status[k]
    BY <1>2, <2>1 DEF MarkRunning, EndOfRun, FinishJob, FailJob, EndRun, TypeOK
  <2> QED
    BY <2>1, <2>2 DEF Exists
<1>3. ASSUME NEW c \in Containers, Pick(c) \/ WriteFails(c) \/ Crash(c) \/ Restart(c)
      PROVE  created' = created /\ status' = status
  BY <1>3 DEF Pick, WriteFails, Crash, Restart
<1>4. ASSUME Deploy
      PROVE  created' = created /\ status' = status
  BY <1>4 DEF Deploy, StartTarget, AbortDeploy, NginxRefuses, Cutover, RollBack,
              CompleteDeploy, Stop
<1>5. (\E i \in Jobs : Create(i)) \/ Kept
  BY <1>1, <1>2, <1>3, <1>4 DEF Next, Exists
<1>6. CASE Kept
  BY <1>6
<1> QED
  BY <1>0, <1>5, <1>6

\* The place shown for a job only falls, unless a job is started a second time.
THEOREM PositionsOnlyFall == Spec => PositionOnlyFalls
<1> DEFINE Falls ==
        \A j \in Jobs :
            status[j] \in {"queued", "running"} /\ (\A k \in Jobs : runs'[k] <= 1)
                => QueuePosition(j)' <= QueuePosition(j)
<1>1. TypeOK /\ QueueInv /\ RunsCounted /\ [Next]_vars => [Falls]_vars
  <2> SUFFICES ASSUME TypeOK, QueueInv, RunsCounted, Next, TypeOK', NEW j \in Jobs,
                      status[j] \in {"queued", "running"}, \A k \in Jobs : runs'[k] <= 1
               PROVE  QueuePosition(j)' <= QueuePosition(j)
    BY TypeStep DEF QueueInv
  <2> DEFINE Before == {k \in Jobs : /\ status[k] \in {"queued", "running"}
                                     /\ created[k] < created[j]}
             After == {k \in Jobs : /\ status'[k] \in {"queued", "running"}
                                    /\ created'[k] < created'[j]}
  <2>1. \A k \in Jobs : Ended(k) => status'[k] = status[k]
    <3> SUFFICES ASSUME NEW k \in Jobs, Ended(k), status'[k] # status[k] PROVE FALSE
      OBVIOUS
    <3>1. runs'[k] >= 2 /\ runs'[k] \in Nat
      BY EndedChanges DEF QueueInv, TypeOK
    <3> QED
      BY <3>1
  <2>2. \A k \in Jobs : Exists(k) => created'[k] = created[k]
    BY RowsOfOrders DEF QueueInv
  <2>3. ASSUME NEW k \in Jobs, ~Exists(k), Exists(k)'
        PROVE  created'[k] > created[j]
    <3> DEFINE Rows == {i \in Jobs : Exists(i)}
    <3>2. created'[k] = 1 + Cardinality(Rows)
      BY <2>3, RowsOfOrders DEF QueueInv
    <3>3. created[j] <= Cardinality(Rows) /\ created[j] \in Nat
      BY DEF QueueInv, CreatedInOrder, Exists, TypeOK
    <3>4. Cardinality(Rows) \in Nat
      BY CountsAreNumbers
    <3> HIDE DEF Rows
    <3> QED
      BY <3>2, <3>3, <3>4
  <2>4. After \subseteq Before
    <3> SUFFICES ASSUME NEW k \in After PROVE k \in Before
      OBVIOUS
    <3>1. created'[j] = created[j] /\ created'[k] < created[j] /\ Exists(k)'
      BY <2>2 DEF Exists
    <3>2. Exists(k)
      BY <2>3, <3>1 DEF TypeOK
    <3>3. created'[k] = created[k]
      BY <2>2, <3>2
    <3>4. status[k] \in {"queued", "running"}
      BY <2>1, <3>2 DEF Ended, Exists, TypeOK
    <3> QED
      BY <3>1, <3>3, <3>4
  <2>5. IsFiniteSet(Before)
    BY JobConstants, FS_Subset
  <2>6. Cardinality(After) <= Cardinality(Before)
    BY <2>4, <2>5, FS_Subset
  <2> QED
    BY <2>6 DEF QueuePosition
<1> QED
  BY <1>1, RunsInvariant, PTL DEF Spec, PositionOnlyFalls
=============================================================================
