----------------------------- MODULE ManualRuns -----------------------------
(***************************************************************************)
(* The mechanical roles of the Usine: controleur and comptable run as tasks*)
(* of the container that took the operator's click, the fossoyeur on the   *)
(* host, where cron polls for a requested run every two minutes and starts *)
(* one of its own every day.  agent_manual_runs has one row per role.      *)
(***************************************************************************)
EXTENDS Naturals

CONSTANTS
    InContainer,    \* the roles run by the container, without the fossoyeur
    Routes,         \* generated routes old enough and never paid for
    Diggers,        \* processes of scripts/fossoyeur.py on the host
    MaxRuns         \* bound: runs an operator starts

\* The fossoyeur is the one role of the host
RunConstants == "fossoyeur" \notin InContainer /\ MaxRuns \in Nat

VARIABLES
    row,        \* agent_manual_runs: id 0 before the first run of a role
    tasks,      \* runs executing in the container
    digger,     \* where each fossoyeur process stands, and the run it answers
    registry,   \* status of each route in the registry file
    served,     \* the routes in the image the container runs
    cut,        \* history: roles whose run a stopping container has cut short
    botched     \* history: a digger failed between the registry and the image

runVars == <<row, tasks, digger, registry, served, cut, botched>>

Roles == InContainer \cup {"fossoyeur"}
Away == [at |-> "away", id |-> 0]

TypeOK ==
    /\ row \in [Roles -> [id : 0..MaxRuns, recent : BOOLEAN,
                          status : {"none", "requested", "running", "done", "error"}]]
    /\ tasks \subseteq [role : InContainer, id : 1..MaxRuns]
    /\ digger \in [Diggers -> [at : {"away", "digging", "building"}, id : 0..MaxRuns]]
    /\ registry \in [Routes -> {"live", "retired"}]
    /\ served \subseteq Routes
    /\ cut \subseteq InContainer
    /\ botched \in BOOLEAN

Init ==
    /\ row = [r \in Roles |-> [id |-> 0, status |-> "none", recent |-> FALSE]]
    /\ tasks = {}
    /\ digger = [d \in Diggers |-> Away]
    /\ registry = [r \in Routes |-> "live"]
    /\ served = Routes
    /\ cut = {}
    /\ botched = FALSE

-----------------------------------------------------------------------------
(* db.py: one statement each.                                              *)

\* Mutant of manual_run_allowed: the five minutes alone
manual_run_allowed_when_cool(role) == ~row[role].recent

manual_run_allowed(role) ==
    row[role].status \notin {"requested", "running"} /\ ~row[role].recent

start_manual_run(role, status) ==
    row' = [row EXCEPT ![role] = [id |-> @.id + 1, status |-> status, recent |-> TRUE]]

\* Nothing happens to a row that belongs to a later run
finish_manual_run(role, id, status) ==
    row' = [row EXCEPT ![role].status = IF row[role].id = id THEN status ELSE @]

-----------------------------------------------------------------------------
(* POST /admin/usine/run/{role}: no await between the check and the write. *)

RunInContainer(role) ==
    /\ row[role].id < MaxRuns
    /\ manual_run_allowed(role)
    /\ start_manual_run(role, "running")
    /\ tasks' = tasks \cup {[role |-> role, id |-> row[role].id + 1]}
    /\ UNCHANGED <<digger, registry, served, cut, botched>>

RequestOnHost ==
    /\ row["fossoyeur"].id < MaxRuns
    /\ manual_run_allowed("fossoyeur")
    /\ start_manual_run("fossoyeur", "requested")
    /\ UNCHANGED <<tasks, digger, registry, served, cut, botched>>

\* _execute_manual_run catches everything the script raises
TaskEnds(t, outcome) ==
    /\ t \in tasks
    /\ finish_manual_run(t.role, t.id, outcome)
    /\ tasks' = tasks \ {t}
    /\ UNCHANGED <<digger, registry, served, cut, botched>>

\* Five minutes after started_at
Cooldown(role) ==
    /\ row[role].recent
    /\ row' = [row EXCEPT ![role].recent = FALSE]
    /\ UNCHANGED <<tasks, digger, registry, served, cut, botched>>

\* A deploy or a crash takes the tasks with it, and no row is touched
ContainerStops ==
    /\ tasks' = {}
    /\ cut' = cut \cup {t.role : t \in tasks}

Restart ==
    /\ tasks # {}
    /\ ContainerStops
    /\ UNCHANGED <<row, digger, registry, served, botched>>

-----------------------------------------------------------------------------
(* scripts/fossoyeur.py.  The row stays 'requested' while a process works, *)
(* so the next poll answers the same request once more.                    *)

Poll(d) ==
    /\ digger[d] = Away
    /\ row["fossoyeur"].status = "requested"
    /\ digger' = [digger EXCEPT ![d] = [at |-> "digging", id |-> row["fossoyeur"].id]]
    /\ UNCHANGED <<row, tasks, registry, served, cut, botched>>

Cron(d) ==
    /\ digger[d] = Away
    /\ digger' = [digger EXCEPT ![d] = [at |-> "digging", id |-> 0]]
    /\ UNCHANGED <<row, tasks, registry, served, cut, botched>>

Leaves(d) == digger' = [digger EXCEPT ![d] = Away]

FindsNothing(d) ==
    /\ digger[d].at = "digging"
    /\ \A r \in Routes : registry[r] = "retired"
    /\ finish_manual_run("fossoyeur", digger[d].id, "done")
    /\ Leaves(d)
    /\ UNCHANGED <<tasks, registry, served, cut, botched>>

\* Every dead route is journaled, then the file is written whole
Retire(d) ==
    /\ digger[d].at = "digging"
    /\ \E r \in Routes : registry[r] = "live"
    /\ registry' = [r \in Routes |-> "retired"]
    /\ digger' = [digger EXCEPT ![d].at = "building"]
    /\ UNCHANGED <<row, tasks, served, cut, botched>>

\* Mutant of Redeploy: the container is restarted on the image it had
RedeployUnbuilt(d) ==
    /\ digger[d].at = "building"
    /\ ContainerStops
    /\ finish_manual_run("fossoyeur", digger[d].id, "done")
    /\ Leaves(d)
    /\ UNCHANGED <<registry, served, botched>>

\* docker compose build, then up -d, which replaces the container
Redeploy(d) ==
    /\ digger[d].at = "building"
    /\ served' = {r \in Routes : registry[r] = "live"}
    /\ ContainerStops
    /\ finish_manual_run("fossoyeur", digger[d].id, "done")
    /\ Leaves(d)
    /\ UNCHANGED <<registry, botched>>

BuildFails(d) ==
    /\ digger[d].at = "building"
    /\ finish_manual_run("fossoyeur", digger[d].id, "error")
    /\ botched' = TRUE
    /\ Leaves(d)
    /\ UNCHANGED <<tasks, registry, served, cut>>

DiggerDies(d) ==
    /\ digger[d] # Away
    /\ botched' = (botched \/ digger[d].at = "building")
    /\ Leaves(d)
    /\ UNCHANGED <<row, tasks, registry, served, cut>>

Dig(d) == FindsNothing(d) \/ Retire(d) \/ Redeploy(d) \/ BuildFails(d)

Next ==
    \/ \E role \in InContainer : RunInContainer(role)
    \/ RequestOnHost
    \/ \E t \in tasks, outcome \in {"done", "error"} : TaskEnds(t, outcome)
    \/ \E role \in Roles : Cooldown(role)
    \/ Restart
    \/ \E d \in Diggers : Poll(d) \/ Cron(d) \/ Dig(d) \/ DiggerDies(d)

Spec == Init /\ [][Next]_runVars

-----------------------------------------------------------------------------
\* A role never runs twice at once in the container (an operator may click
\* while a run is longer than the cooldown).
OneRunPerRole == \A t, u \in tasks : t.role = u.role => t = u

\* A route the fossoyeur has retired is served only until its process has
\* rebuilt the image, unless that process failed between the two: the next run
\* then finds nothing to retire and rebuilds nothing.
RetiredIsNotServed ==
    \A r \in served : registry[r] = "retired" =>
        botched \/ \E d \in Diggers : digger[d].at = "building"

\* Whoever polls once has answered the request: it does not stay 'requested'
\* behind a process that died, and a role can be started again, unless a
\* container stopped in its run (a redeploy by the fossoyeur is enough): then
\* the row says 'running' and nothing ever expires it.
RolesComeBack ==
    \A role \in Roles : (role \notin cut) ~> (manual_run_allowed(role) \/ role \in cut)
=============================================================================
