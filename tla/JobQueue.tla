------------------------------- MODULE JobQueue -------------------------------
(***************************************************************************)
(* POST /jobs: the jobs table of app/db.py, the handler that adds a row    *)
(* before its payment has settled, the worker loop every container runs on *)
(* the one shared database, and the blue-green deploy that starts and      *)
(* stops containers under them.  A step is one SQL statement of one        *)
(* container, or what a container does between two of them.                *)
(***************************************************************************)
EXTENDS Naturals, FiniteSets

CONSTANTS
    Jobs,           \* the jobs that may be ordered
    Containers,     \* the two slots, x402_blue and x402_green
    NoJob,          \* the task of a worker that holds none
    Faults,         \* "crash", "dbError": what may go wrong in a container
    DeployEnds      \* how a deploy of scripts/deploy.sh may end, {} for none

ASSUME JobConstants ==
    /\ IsFiniteSet(Jobs) /\ IsFiniteSet(Containers)
    /\ Cardinality(Containers) = 2
    /\ NoJob \notin Jobs
    /\ Faults \subseteq {"crash", "dbError"}
    /\ DeployEnds \subseteq {"aborted", "nginxRefuses", "rolledBack", "completed"}

VARIABLES
    status,     \* jobs.status, "absent" before the row exists
    created,    \* jobs.created_at, as a place in the order of creation
    settled,    \* the payment of the call that created the job
    runs,       \* how often _run_job was started for the job
    worker,     \* where the worker loop of each container stands
    task,       \* the job it holds
    up,         \* the containers docker keeps running
    live,       \* the container nginx sends requests to
    deploy,     \* deploy.sh: "none", before ("pre") or after ("watch") cutover
    lost        \* history: jobs whose run a fault or a deploy has cut short

vars == <<status, created, settled, runs, worker, task, up, live, deploy, lost>>

TypeOK ==
    /\ status \in [Jobs -> {"absent", "queued", "running", "done", "failed"}]
    /\ created \in [Jobs -> Nat]
    /\ settled \in [Jobs -> {"no", "pending", "yes"}]
    /\ runs \in [Jobs -> Nat]
    /\ worker \in [Containers -> {"down", "idle", "picked", "running"}]
    /\ task \in [Containers -> Jobs \cup {NoJob}]
    /\ up \subseteq Containers
    /\ live \in up
    /\ deploy \in {"none", "pre", "watch"}
    /\ lost \subseteq Jobs

Init ==
    /\ status = [j \in Jobs |-> "absent"]
    /\ created = [j \in Jobs |-> 0]
    /\ settled = [j \in Jobs |-> "no"]
    /\ runs = [j \in Jobs |-> 0]
    /\ live \in Containers
    /\ up = {live}
    /\ worker = [c \in Containers |-> IF c \in up THEN "idle" ELSE "down"]
    /\ task = [c \in Containers |-> NoJob]
    /\ deploy = "none"
    /\ lost = {}

Other(c) == CHOOSE d \in Containers : d # c

Exists(j) == status[j] # "absent"

\* Mutant: the position counts every unfinished job
QueuePositionOfAll(j) ==
    Cardinality({k \in Jobs : status[k] \in {"queued", "running"}})

\* db.queue_position
QueuePosition(j) ==
    Cardinality({k \in Jobs : /\ status[k] \in {"queued", "running"}
                              /\ created[k] < created[j]})

-----------------------------------------------------------------------------
(* The handler: _handle_create_job, then the settlement around it.         *)

\* db.create_job: the worker sees the row at once
Create(j) ==
    /\ ~Exists(j)
    /\ worker[live] # "down"
    /\ status' = [status EXCEPT ![j] = "queued"]
    /\ created' = [created EXCEPT ![j] = 1 + Cardinality({k \in Jobs : Exists(k)})]
    /\ settled' = [settled EXCEPT ![j] = "pending"]
    /\ UNCHANGED <<runs, worker, task, up, live, deploy, lost>>

\* The SDK settles once the handler has answered; when that fails the buyer
\* gets a 402 and no job id, and the row stays
Settle(j) ==
    /\ settled[j] = "pending"
    /\ settled' = [settled EXCEPT ![j] = "yes"]
    /\ UNCHANGED <<status, created, runs, worker, task, up, live, deploy, lost>>

SettleFails(j) ==
    /\ settled[j] = "pending"
    /\ settled' = [settled EXCEPT ![j] = "no"]
    /\ UNCHANGED <<status, created, runs, worker, task, up, live, deploy, lost>>

-----------------------------------------------------------------------------
(* worker_loop of one container.                                           *)

\* Mutant of Oldest: no ORDER BY
AnyQueued(j) == status[j] = "queued"

Oldest(j) ==
    /\ status[j] = "queued"
    /\ \A k \in Jobs : status[k] = "queued" => created[j] <= created[k]

LetGo(c, place) ==
    /\ worker' = [worker EXCEPT ![c] = place]
    /\ task' = [task EXCEPT ![c] = NoJob]

\* also of a job in the middle of its run
Drop(c, place) ==
    /\ LetGo(c, place)
    /\ lost' = lost \cup {j \in Jobs : worker[c] = "running" /\ task[c] = j}

\* db.next_queued_job, a SELECT that reserves nothing
Pick(c) ==
    /\ worker[c] = "idle"
    /\ \E j \in Jobs : Oldest(j) /\ task' = [task EXCEPT ![c] = j]
    /\ worker' = [worker EXCEPT ![c] = "picked"]
    /\ UNCHANGED <<status, created, settled, runs, up, live, deploy, lost>>

\* db.mark_job_running, an UPDATE by id whatever the row's status has become
MarkRunning(c) ==
    /\ worker[c] = "picked"
    /\ status' = [status EXCEPT ![task[c]] = "running"]
    /\ runs' = [runs EXCEPT ![task[c]] = @ + 1]
    /\ worker' = [worker EXCEPT ![c] = "running"]
    /\ UNCHANGED <<created, settled, task, up, live, deploy, lost>>

\* Mutant: a failed run ends without a write
EndRunUnwritten(c, outcome) ==
    /\ worker[c] = "running"
    /\ status' = IF outcome = "failed" THEN status
                 ELSE [status EXCEPT ![task[c]] = outcome]
    /\ LetGo(c, "idle")
    /\ UNCHANGED <<created, settled, runs, up, live, deploy, lost>>

\* db.finish_job, or db.fail_job after any exception of the run
EndRun(c, outcome) ==
    /\ worker[c] = "running"
    /\ status' = [status EXCEPT ![task[c]] = outcome]
    /\ LetGo(c, "idle")
    /\ UNCHANGED <<created, settled, runs, up, live, deploy, lost>>

FinishJob(c) == EndRun(c, "done")

\* Mutant: the status of a failed call, which the readers of jobs do not know
FailJobAsError(c) == EndRun(c, "error")

FailJob(c) == EndRun(c, "failed")

\* Mutant: a job whose write failed is queued again
WriteFailsRequeues(c) ==
    /\ "dbError" \in Faults
    /\ worker[c] \in {"picked", "running"}
    /\ status' = [status EXCEPT ![task[c]] = "queued"]
    /\ LetGo(c, "idle")
    /\ UNCHANGED <<created, settled, runs, up, live, deploy, lost>>

\* mark_job_running or fail_job raises: the outer handler of the loop logs it
\* and the loop goes on, with the row as it was
WriteFails(c) ==
    /\ "dbError" \in Faults
    /\ worker[c] \in {"picked", "running"}
    /\ Drop(c, "idle")
    /\ UNCHANGED <<status, created, settled, runs, up, live, deploy>>

-----------------------------------------------------------------------------
(* Containers.  CancelledError and SIGKILL alike leave the row 'running':  *)
(* nothing looks for such rows at startup.                                 *)

Crash(c) ==
    /\ "crash" \in Faults
    /\ worker[c] # "down"
    /\ Drop(c, "down")
    /\ UNCHANGED <<status, created, settled, runs, up, live, deploy>>

\* restart: unless-stopped
Restart(c) ==
    /\ worker[c] = "down" /\ c \in up
    /\ worker' = [worker EXCEPT ![c] = "idle"]
    /\ UNCHANGED <<status, created, settled, runs, task, up, live, deploy, lost>>

-----------------------------------------------------------------------------
(* scripts/deploy.sh                                                       *)

Stop(c) ==
    /\ Drop(c, "down")
    /\ up' = up \ {c}
    /\ UNCHANGED <<status, created, settled, runs>>

\* docker compose up -d of the slot that is not live; its lifespan starts a
\* worker loop before any check has passed
StartTarget ==
    /\ deploy = "none" /\ DeployEnds # {}
    /\ deploy' = "pre"
    /\ up' = Containers
    /\ worker' = IF Other(live) \in up THEN worker
                 ELSE [worker EXCEPT ![Other(live)] = "idle"]
    /\ UNCHANGED <<status, created, settled, runs, task, live, lost>>

\* Never healthy, or a failed pre-cutover check
AbortDeploy ==
    /\ deploy = "pre" /\ "aborted" \in DeployEnds
    /\ deploy' = "none"
    /\ Stop(Other(live))
    /\ UNCHANGED live

\* nginx -t fails: the script reverts its file and exits, and stops nothing
NginxRefuses ==
    /\ deploy = "pre" /\ "nginxRefuses" \in DeployEnds
    /\ deploy' = "none"
    /\ UNCHANGED <<status, created, settled, runs, worker, task, up, live, lost>>

Cutover ==
    /\ deploy = "pre" /\ DeployEnds \cap {"rolledBack", "completed"} # {}
    /\ deploy' = "watch"
    /\ live' = Other(live)
    /\ UNCHANGED <<status, created, settled, runs, worker, task, up, lost>>

RollBack ==
    /\ deploy = "watch" /\ "rolledBack" \in DeployEnds
    /\ deploy' = "none"
    /\ live' = Other(live)
    /\ Stop(live)

CompleteDeploy ==
    /\ deploy = "watch" /\ "completed" \in DeployEnds
    /\ deploy' = "none"
    /\ Stop(Other(live))
    /\ UNCHANGED live

-----------------------------------------------------------------------------
Buyer(j) == Create(j) \/ Settle(j) \/ SettleFails(j)

EndOfRun(c) == FinishJob(c) \/ FailJob(c)

Deploy == StartTarget \/ AbortDeploy \/ NginxRefuses \/ Cutover \/ RollBack
              \/ CompleteDeploy

Next ==
    \/ \E j \in Jobs : Buyer(j)
    \/ \E c \in Containers :
           \/ Pick(c) \/ MarkRunning(c) \/ EndOfRun(c) \/ WriteFails(c)
           \/ Crash(c) \/ Restart(c)
    \/ Deploy

Spec == Init /\ [][Next]_vars

\* The loop polls every two seconds and every upstream call has a timeout;
\* docker restarts what it must.  Strong fairness: a container that is killed
\* again and again, or whose writes fail, is not killed every time between two
\* of its statements, nor does every write fail.
Fairness ==
    \A c \in Containers :
        /\ SF_vars(Pick(c)) /\ SF_vars(MarkRunning(c))
        /\ WF_vars(EndOfRun(c)) /\ WF_vars(Restart(c))

FairSpec == Spec /\ Fairness

-----------------------------------------------------------------------------
(* What the queue guarantees.                                              *)

\* A job is started at most once by each slot, however picks, restarts and
\* overlapping containers interleave: with one container, at most once.  (A
\* run is a batch of paid upstream calls.)
StartsBounded ==
    \A j \in Jobs :
        runs[j] <= IF DeployEnds = {} THEN 1 ELSE Cardinality(Containers)

\* Jobs leave the queue in the order they were created, even though the
\* SELECT that chose one may be long past when its UPDATE runs
StartsInOrder ==
    [][\A j, k \in Jobs :
          status[j] = "queued" /\ status'[j] = "running" /\ status[k] = "queued"
              => created[j] <= created[k]]_vars

\* A published result stays: what is done or failed changes only if a deploy's
\* two slots have both started the job, each on a pick of its own
EndsStay ==
    [][\A j \in Jobs :
          status[j] \in {"done", "failed"} /\ runs'[j] <= 1
              => status'[j] = status[j]]_vars

\* The position (and the eta) shown for a job grows only if an older job is
\* started a second time, again by a deploy's other slot
PositionOnlyFalls ==
    [][\A j \in Jobs :
          status[j] \in {"queued", "running"} /\ (\A k \in Jobs : runs'[k] <= 1)
              => QueuePosition(j)' <= QueuePosition(j)]_vars

\* Every job that was ordered is started and ends done or failed, whatever
\* crashes, failing writes and deploys come, unless one of these cuts its own
\* run short: a job left 'running' does not hold up the queue
EveryJobEnds ==
    \A j \in Jobs :
        status[j] = "queued" ~> status[j] \in {"done", "failed"} \/ j \in lost

-----------------------------------------------------------------------------
(* The inductive invariant behind StartsBounded and StartsInOrder.         *)

Holders(j) == {c \in Containers : worker[c] = "picked" /\ task[c] = j}

MaxStarts == IF DeployEnds = {} THEN 1 ELSE Cardinality(Containers)

\* A queued job was never started, and each slot that picked it may still
StartsCounted ==
    \A j \in Jobs :
        /\ status[j] \in {"absent", "queued"} => runs[j] = 0
        /\ runs[j] + Cardinality(Holders(j)) <= MaxStarts

\* Only a worker at work holds a job, and the job is in the table
TasksHeld ==
    \A c \in Containers :
        /\ task[c] # NoJob <=> worker[c] \in {"picked", "running"}
        /\ task[c] # NoJob => Exists(task[c])

\* Both slots are up during a deploy; without deploys, the live one alone;
\* a worker loop runs in a slot that is up
SlotsUp ==
    /\ deploy # "none" => up = Containers
    /\ DeployEnds = {} => deploy = "none" /\ up = {live}
    /\ \A c \in Containers \ up : worker[c] = "down"

\* A picked job that is still queued is the oldest one
PickIsOldest ==
    \A c \in Containers, k \in Jobs :
        worker[c] = "picked" /\ status[task[c]] = "queued" /\ status[k] = "queued"
            => created[task[c]] <= created[k]

\* created_at grows with each row
CreatedInOrder ==
    \A j \in Jobs : Exists(j) =>
        created[j] <= Cardinality({k \in Jobs : Exists(k)})

QueueInv ==
    TasksHeld /\ SlotsUp /\ StartsCounted /\ PickIsOldest /\ CreatedInOrder
=============================================================================
