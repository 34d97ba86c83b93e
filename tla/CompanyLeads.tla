----------------------------- MODULE CompanyLeads -----------------------------
(***************************************************************************)
(* POST /company-leads: the company_leads_jobs table, the worker loop of   *)
(* each container, and the actor runs it starts on Apify, each of which    *)
(* costs money once it has started.  A step is what a worker does between  *)
(* two awaits, one answer of Apify, or a run's own progress.               *)
(***************************************************************************)
EXTENDS Naturals, FiniteSets

CONSTANTS
    Jobs,           \* the jobs that may be ordered
    Containers,     \* the containers whose worker loops are running
    Runs,           \* bound: the actor runs Apify may be asked for
    NoJob, NoRun,   \* no job, no run
    Faults          \* "transport", "dbError", "crash"

ASSUME LeadsConstants ==
    /\ IsFiniteSet(Jobs) /\ IsFiniteSet(Runs)
    /\ NoJob \notin Jobs /\ NoRun \notin Runs
    /\ Faults \subseteq {"transport", "dbError", "crash"}

VARIABLES
    status,     \* company_leads_jobs.status, "absent" before the row exists
    created,    \* created_at, as a place in the order of creation
    rowRun,     \* apify_run_id
    worker,     \* where each worker loop stands
    task,       \* the job it holds
    held,       \* the run it holds
    runJob,     \* at Apify: the job a run was started for
    runState,   \* at Apify: the state of each run
    lost        \* history: jobs a fault has taken from a worker

vars == <<status, created, rowRun, worker, task, held, runJob, runState, lost>>

TypeOK ==
    /\ status \in [Jobs -> {"absent", "queued", "running", "done", "failed"}]
    /\ created \in [Jobs -> Nat]
    /\ rowRun \in [Jobs -> Runs \cup {NoRun}]
    /\ worker \in [Containers ->
           {"idle", "starting", "started", "polling", "fetching"}]
    /\ task \in [Containers -> Jobs \cup {NoJob}]
    /\ held \in [Containers -> Runs \cup {NoRun}]
    /\ runJob \in [Runs -> Jobs \cup {NoJob}]
    /\ runState \in [Runs -> {"unused", "running", "succeeded", "failed"}]
    /\ lost \subseteq Jobs

Init ==
    /\ status = [j \in Jobs |-> "absent"]
    /\ created = [j \in Jobs |-> 0]
    /\ rowRun = [j \in Jobs |-> NoRun]
    /\ worker = [c \in Containers |-> "idle"]
    /\ task = [c \in Containers |-> NoJob]
    /\ held = [c \in Containers |-> NoRun]
    /\ runJob = [r \in Runs |-> NoJob]
    /\ runState = [r \in Runs |-> "unused"]
    /\ lost = {}

-----------------------------------------------------------------------------
(* The table.                                                              *)

Ordered == {j \in Jobs : status[j] # "absent"}

\* db.create_company_leads_job
Create(j) ==
    /\ status[j] = "absent"
    /\ status' = [status EXCEPT ![j] = "queued"]
    /\ created' = [created EXCEPT ![j] = 1 + Cardinality(Ordered)]
    /\ UNCHANGED <<rowRun, worker, task, held, runJob, runState, lost>>

\* db.next_queued_company_leads_job
Oldest(j) ==
    /\ status[j] = "queued"
    /\ \A k \in Jobs : status[k] = "queued" => created[j] <= created[k]

\* The loop goes back to its SELECT
LetGo(c) ==
    /\ worker' = [worker EXCEPT ![c] = "idle"]
    /\ task' = [task EXCEPT ![c] = NoJob]
    /\ held' = [held EXCEPT ![c] = NoRun]

Lose(c) ==
    /\ LetGo(c)
    /\ lost' = lost \cup {task[c]}

\* Mutant: the status of a failed call
CloseAsError(c, outcome) ==
    /\ status' = [status EXCEPT ![task[c]] =
                      IF outcome = "failed" THEN "error" ELSE outcome]
    /\ LetGo(c)
    /\ UNCHANGED <<created, rowRun, runJob, runState, lost>>

\* db.finish_company_leads_job, db.fail_company_leads_job
Close(c, outcome) ==
    /\ status' = [status EXCEPT ![task[c]] = outcome]
    /\ LetGo(c)
    /\ UNCHANGED <<created, rowRun, runJob, runState, lost>>

-----------------------------------------------------------------------------
(* _process_job: the start of the run.                                     *)

Pick(c) ==
    /\ worker[c] = "idle"
    /\ \E j \in Jobs : Oldest(j) /\ task' = [task EXCEPT ![c] = j]
    /\ worker' = [worker EXCEPT ![c] = "starting"]
    /\ UNCHANGED <<status, created, rowRun, held, runJob, runState, lost>>

\* Apify has started a run, and its answer is on the way
RunStarts(c, r) ==
    /\ worker[c] = "starting" /\ runState[r] = "unused"
    /\ worker' = [worker EXCEPT ![c] = "started"]
    /\ held' = [held EXCEPT ![c] = r]
    /\ runJob' = [runJob EXCEPT ![r] = task[c]]
    /\ runState' = [runState EXCEPT ![r] = "running"]
    /\ UNCHANGED <<status, created, rowRun, task, lost>>

\* An answer of 400 or more is an ApifyError, also when the token is missing
StartRefused(c) ==
    /\ worker[c] = "starting"
    /\ Close(c, "failed")

\* db.mark_company_leads_job_running
MarkRunning(c) ==
    /\ worker[c] = "started"
    /\ status' = [status EXCEPT ![task[c]] = "running"]
    /\ rowRun' = [rowRun EXCEPT ![task[c]] = held[c]]
    /\ worker' = [worker EXCEPT ![c] = "polling"]
    /\ UNCHANGED <<created, task, held, runJob, runState, lost>>

-----------------------------------------------------------------------------
(* _process_job: the polling loop and the dataset.                         *)

\* Mutant: any terminal state will do
PollEndsUnchecked(c) ==
    /\ worker[c] = "polling"
    /\ runState[held[c]] \in {"succeeded", "failed"}
    /\ worker' = [worker EXCEPT ![c] = "fetching"]
    /\ UNCHANGED <<status, created, rowRun, task, held, runJob, runState, lost>>

\* FAILED, ABORTED and TIMED-OUT fail the job
PollEnds(c) ==
    /\ worker[c] = "polling"
    /\ \/ /\ runState[held[c]] = "succeeded"
          /\ worker' = [worker EXCEPT ![c] = "fetching"]
          /\ UNCHANGED <<status, created, rowRun, task, held, runJob, runState, lost>>
       \/ /\ runState[held[c]] = "failed"
          /\ Close(c, "failed")

PollRefused(c) ==
    /\ worker[c] = "polling"
    /\ Close(c, "failed")

\* Mutants: the job is failed and the loop does not return; or returns and
\* leaves the row
DeadlineGoesOn(c) ==
    /\ worker[c] = "polling"
    /\ status' = [status EXCEPT ![task[c]] = "failed"]
    /\ UNCHANGED <<created, rowRun, worker, task, held, runJob, runState, lost>>

DeadlineUnwritten(c) ==
    /\ worker[c] = "polling"
    /\ LetGo(c)
    /\ UNCHANGED <<status, created, rowRun, runJob, runState, lost>>

\* 280 s have passed: the run itself goes on at Apify
Deadline(c) ==
    /\ worker[c] = "polling"
    /\ Close(c, "failed")

Fetch(c) ==
    /\ worker[c] = "fetching"
    /\ Close(c, "done")

FetchRefused(c) ==
    /\ worker[c] = "fetching"
    /\ Close(c, "failed")

-----------------------------------------------------------------------------
(* What _process_job does not catch.                                       *)

\* Mutant: the loop queues the job again
LosesTheJobRequeues(c) ==
    /\ worker[c] # "idle"
    /\ "transport" \in Faults
    /\ status' = [status EXCEPT ![task[c]] = "queued"]
    /\ Lose(c)
    /\ UNCHANGED <<created, rowRun, runJob, runState>>

\* An exception that is no ApifyError, at an Apify call (a timeout, a broken
\* connection, an answer that is not JSON) or at a write: the outer handler
\* logs it and the row stays as it was
LosesTheJob(c) ==
    /\ worker[c] # "idle"
    /\ Faults \cap {"transport", "dbError"} # {}
    /\ Lose(c)
    /\ UNCHANGED <<status, created, rowRun, runJob, runState>>

\* The container is stopped or killed, and started again
Crash(c) ==
    /\ "crash" \in Faults /\ worker[c] # "idle"
    /\ Lose(c)
    /\ UNCHANGED <<status, created, rowRun, runJob, runState>>

\* Apify's run ends by itself, or is aborted from its console
RunEnds(r) ==
    /\ runState[r] = "running"
    /\ \E s \in {"succeeded", "failed"} : runState' = [runState EXCEPT ![r] = s]
    /\ UNCHANGED <<status, created, rowRun, worker, task, held, runJob, lost>>

-----------------------------------------------------------------------------
Start(c) == StartRefused(c) \/ MarkRunning(c) \/ \E r \in Runs : RunStarts(c, r)

Poll(c) == PollEnds(c) \/ PollRefused(c) \/ Deadline(c)

Collect(c) == Fetch(c) \/ FetchRefused(c)

Next ==
    \/ \E j \in Jobs : Create(j)
    \/ \E c \in Containers :
           \/ Pick(c) \/ Start(c) \/ Poll(c) \/ Collect(c)
           \/ LosesTheJob(c) \/ Crash(c)
    \/ \E r \in Runs : RunEnds(r)

Spec == Init /\ [][Next]_vars

\* The loop polls its table, every call to Apify has a timeout, and the
\* deadline ends the wait: nothing says that Apify's runs end.  Strong
\* fairness: the start of a run and the write that follows it do not fail
\* every time.
FairSpec ==
    Spec /\ \A c \in Containers :
        /\ WF_vars(Pick(c)) /\ SF_vars(Start(c)) /\ SF_vars(MarkRunning(c))
        /\ WF_vars(Deadline(c)) /\ WF_vars(Collect(c))

-----------------------------------------------------------------------------
(* What the route guarantees.                                              *)

\* Leads are delivered from a run that succeeded and that was started for
\* this very job, however containers overlap and crash
ResultIsOwn ==
    \A j \in Jobs : status[j] = "done" =>
        \E r \in Runs : runJob[r] = j /\ runState[r] = "succeeded"

\* With one container: once the row names a run, the job never gets another
RecordedRunIsLast ==
    [][\A j \in Jobs : rowRun[j] # NoRun =>
          /\ rowRun'[j] = rowRun[j]
          /\ \A r \in Runs : runJob'[r] = j => runJob[r] = j]_vars

\* With one container: a job answered done or failed stays so, also when its
\* run ends after the deadline
EndsStay ==
    [][\A j \in Jobs :
          status[j] \in {"done", "failed"} => status'[j] = status[j]]_vars

\* Every order ends done or failed, also when its run never ends and whatever
\* befalls the others, unless a fault takes it from its worker: a stuck run
\* does not hold the only worker
EveryOrderEnds ==
    \A j \in Jobs :
        status[j] = "queued" ~> status[j] \in {"done", "failed"} \/ j \in lost

-----------------------------------------------------------------------------
(* The inductive invariant.                                                *)

Busy == {"starting", "started", "polling", "fetching"}

\* A worker at work holds a job that is in the table
JobHeld ==
    \A c \in Containers : worker[c] \in Busy =>
        task[c] \in Jobs /\ status[task[c]] # "absent"

\* and from the start of a run, that run
RunHeld ==
    \A c \in Containers :
        worker[c] \in {"started", "polling", "fetching"} =>
            held[c] \in Runs /\ runJob[held[c]] = task[c]

\* A dataset is fetched from a run that succeeded
FetchedSucceeded ==
    \A c \in Containers :
        worker[c] = "fetching" => runState[held[c]] = "succeeded"

\* A run belongs to a job from its start on
RunIsOwned == \A r \in Runs : runState[r] = "unused" <=> runJob[r] = NoJob

\* A job with a run in its row has left the queue
RowIsMarked ==
    \A j \in Jobs : rowRun[j] # NoRun => status[j] \in {"running", "done", "failed"}

\* The job of a worker that has not marked it yet, with one container, is
\* still queued and names no run
UnmarkedIsQueued ==
    \A c \in Containers : worker[c] \in {"starting", "started"} =>
        status[task[c]] = "queued" /\ rowRun[task[c]] = NoRun

\* and that of a worker that has is running
MarkedIsRunning ==
    \A c \in Containers : worker[c] \in {"polling", "fetching"} =>
        status[task[c]] = "running"

LeadsInv == JobHeld /\ RunHeld /\ FetchedSucceeded /\ RunIsOwned /\ ResultIsOwn

OneContainer == \A c, d \in Containers : c = d

OneContainerInv == RowIsMarked /\ UnmarkedIsQueued /\ MarkedIsRunning
=============================================================================
