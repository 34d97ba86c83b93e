-------------------------------- MODULE Usine --------------------------------
(***************************************************************************)
(* What /admin/usine keeps of the work done on the operator's PC: requests *)
(* the PC polls for and reports on, and the state of its loop.  The PC is  *)
(* outside the repository: it takes the request it is given, and may       *)
(* report late or never.                                                   *)
(***************************************************************************)
EXTENDS Integers, Sequences

CONSTANTS
    MaxRequests,    \* bound: requests to the PC
    MaxCount        \* bound: cycles counted

RequestConstants == MaxRequests \in Nat /\ MaxCount \in Nat

LOOP_MAX_CONSECUTIVE_REJECTIONS == 3

VARIABLES
    requests,   \* pc_requests in the order of their ids
    atWork,     \* the requests the PC has taken and not yet ended
    loop        \* usine_loop_state

usineVars == <<requests, atWork, loop>>

Ids == 1..Len(requests)
RequestRoles == {"pipeline", "loop_start", "loop_stop"}

TypeOK ==
    /\ requests \in Seq([role : RequestRoles, started : BOOLEAN, stale : BOOLEAN,
                         status : {"requested", "running", "done", "error", "timeout"}])
    /\ atWork \subseteq Ids
    /\ loop \in [status : {"stopped", "running"}, rejections : 0..MaxCount, exists : BOOLEAN]

Init ==
    /\ requests = <<>>
    /\ atWork = {}
    /\ loop = [status |-> "stopped", rejections |-> 0, exists |-> FALSE]

-----------------------------------------------------------------------------
(* Requests to the PC.                                                     *)

Pending(r) == r.status \in {"requested", "running"}

\* Mutant of Expired: a request is timed by its started_at alone
ExpiredOnceStarted(reqs) ==
    [i \in DOMAIN reqs |->
        IF i = Len(reqs) /\ Pending(reqs[i]) /\ reqs[i].stale /\ reqs[i].started
        THEN [reqs[i] EXCEPT !.status = "timeout"] ELSE reqs[i]]

\* _expire_if_stale, which only the newest request ever meets
Expired(reqs) ==
    [i \in DOMAIN reqs |->
        IF i = Len(reqs) /\ Pending(reqs[i]) /\ reqs[i].stale
        THEN [reqs[i] EXCEPT !.status = "timeout"] ELSE reqs[i]]

Blocks(reqs) == reqs # <<>> /\ Pending(reqs[Len(reqs)])

\* POST /admin/usine/run/{role} for a role of the PC
RequestFromPC(role) ==
    /\ role = "loop_start" => loop.status # "running"
    /\ role = "loop_stop" => loop.status = "running"
    /\ Len(requests) < MaxRequests
    /\ ~Blocks(Expired(requests))
    /\ requests' = Append(Expired(requests),
           [role |-> role, started |-> FALSE, stale |-> FALSE, status |-> "requested"])
    /\ UNCHANGED <<atWork, loop>>

\* A refused click, and every look at the dashboard
latest_pc_request ==
    /\ requests' = Expired(requests)
    /\ UNCHANGED <<atWork, loop>>

\* Twenty minutes after started_at, or requested_at before there is one
TwentyMinutes(i) ==
    /\ Pending(requests[i])
    /\ requests' = [requests EXCEPT ![i].stale = TRUE]
    /\ UNCHANGED <<atWork, loop>>

\* GET /admin/usine/pc-request: the answer leaves the row as it is
TakeRequest(i) ==
    /\ requests[i].status = "requested"
    /\ \A j \in Ids : requests[j].status = "requested" => i <= j
    /\ atWork' = atWork \cup {i}
    /\ UNCHANGED <<requests, loop>>

\* POST .../{id}/status: whatever the row has become.  started_at is set once.
ReportRunning(i) ==
    /\ i \in atWork
    /\ requests' = [requests EXCEPT ![i].status = "running", ![i].started = TRUE,
                                    ![i].stale = @ /\ requests[i].started]
    /\ UNCHANGED <<atWork, loop>>

ReportEnd(i, status) ==
    /\ i \in atWork
    /\ requests' = [requests EXCEPT ![i].status = status]
    /\ atWork' = atWork \ {i}
    /\ UNCHANGED loop

PCStops ==
    /\ atWork' = {}
    /\ UNCHANGED <<requests, loop>>

-----------------------------------------------------------------------------
(* The loop.                                                               *)

LoopStarted ==
    /\ loop' = [status |-> "running", rejections |-> 0, exists |-> TRUE]
    /\ UNCHANGED <<requests, atWork>>

\* record_cycle updates the row if there is one, running or not
LoopCycle(rejected) ==
    /\ loop.rejections < MaxCount
    /\ loop' = [loop EXCEPT !.rejections = IF ~loop.exists THEN 0 ELSE IF rejected THEN @ + 1 ELSE 0]
    /\ UNCHANGED <<requests, atWork>>

ShouldStop == loop.rejections >= LOOP_MAX_CONSECUTIVE_REJECTIONS

LoopStopped ==
    /\ loop' = [loop EXCEPT !.status = "stopped", !.exists = TRUE]
    /\ UNCHANGED <<requests, atWork>>

Next ==
    \/ \E role \in RequestRoles : RequestFromPC(role)
    \/ latest_pc_request
    \/ \E i \in Ids : TwentyMinutes(i) \/ TakeRequest(i) \/ ReportRunning(i)
    \/ \E i \in Ids, status \in {"done", "error"} : ReportEnd(i, status)
    \/ PCStops
    \/ LoopStarted \/ LoopStopped
    \/ \E rejected \in BOOLEAN : LoopCycle(rejected)

-----------------------------------------------------------------------------
\* The PC is never handed an old request: what it may be given is the newest,
\* however late its answers to the earlier ones come.  (Two may be at work:
\* a late 'running' revives a request that has timed out.)
OnlyTheNewestWaits ==
    \A i \in Ids : requests[i].status = "requested" => i = Len(requests)

\* The newest request does not keep the operator from starting another: it
\* ends, or is marked as timed out when somebody looks.
NewestRequestEnds ==
    \A n \in 1..MaxRequests :
        Len(requests) = n ~> ~(Len(requests) = n /\ Blocks(requests))
=============================================================================
