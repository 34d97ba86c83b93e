-------------------------------- MODULE Office --------------------------------
(***************************************************************************)
(* What the operator's page /admin/usine starts and keeps, and the deploys *)
(* its Fossoyeur rebuilds past.  The parts share nothing these modules     *)
(* model, so a behaviour of this specification follows one of them, chosen *)
(* at the start.                                                           *)
(***************************************************************************)
EXTENDS Deploy

CONSTANTS
    InContainer, DeadRoutes, Diggers, MaxRuns,      \* ManualRuns
    MaxRequests, MaxCount,                          \* Usine
    Proposed, MaxAttempts                           \* Proposals

VARIABLES
    part,
    row, tasks, digger, registry, served, cut, botched,
    requests, atWork, loop,
    proposal, paying, clicked, attempts

Runs == INSTANCE ManualRuns WITH Routes <- DeadRoutes
PC == INSTANCE Usine
Ideas == INSTANCE Proposals

ASSUME OfficeConstants == Runs!RunConstants /\ PC!RequestConstants /\ Ideas!ProposalConstants

runs == <<row, tasks, digger, registry, served, cut, botched>>
pc == <<requests, atWork, loop>>
ideas == <<proposal, paying, clicked, attempts>>

slots == vars
everything == <<part, runs, pc, ideas, slots>>

SomePart ==
    /\ part \in {"runs", "pc", "ideas", "slots"}
    /\ Init /\ Runs!Init /\ PC!Init
    /\ Ideas!Init /\ (part # "ideas" => paying = {})

Only(p) ==
    /\ part = p /\ UNCHANGED part
    /\ p = "runs" \/ UNCHANGED runs
    /\ p = "pc" \/ UNCHANGED pc
    /\ p = "ideas" \/ UNCHANGED ideas
    /\ p = "slots" \/ UNCHANGED slots

OfficeNext ==
    \/ Only("runs") /\ Runs!Next
    \/ Only("pc") /\ PC!Next
    \/ Only("ideas") /\ Ideas!Next
    \/ Only("slots") /\ Next

-----------------------------------------------------------------------------
(* Fairness.  A script that runs comes to its end; cron starts the poller  *)
(* again and again, and not all of its runs are killed; somebody looks at  *)
(* the dashboard, and time passes for the newest request.                  *)

Answers == \E d \in Diggers : digger[d].id = row["fossoyeur"].id /\ Runs!Dig(d)

Fairness ==
    /\ WF_everything(Only("runs") /\ \E t \in tasks, outcome \in {"done", "error"} : Runs!TaskEnds(t, outcome))
    /\ \A role \in Runs!Roles : WF_everything(Only("runs") /\ Runs!Cooldown(role))
    /\ SF_everything(Only("runs") /\ \E d \in Diggers : Runs!Poll(d))
    /\ \A d \in Diggers : WF_everything(Only("runs") /\ Runs!Dig(d))
    /\ SF_everything(Only("runs") /\ Answers)
    /\ WF_everything(Only("pc") /\ requests # <<>> /\ PC!TwentyMinutes(Len(requests)))
    /\ WF_everything(Only("pc") /\ PC!latest_pc_request)

OfficeSpec == SomePart /\ [][OfficeNext]_everything /\ Fairness

-----------------------------------------------------------------------------
\* No work is started twice: a mechanical role has one run at a time, and the
\* PC is handed the newest request only (admin.py, db.py).
WorkIsDoneOnce == Runs!OneRunPerRole /\ PC!OnlyTheNewestWaits

\* The types of the parts
TypeOK == Runs!TypeOK /\ PC!TypeOK /\ Ideas!TypeOK

\* What the tables and the registry say is so: a route that was retired is not
\* served for long, and a source that costs money was approved by hand.
RecordsAreTrue == TypeOK /\ Runs!RetiredIsNotServed /\ Ideas!PaidSourcesNeedAHand

\* What stopped is taken up again: a role can be run and another request made
\* to the PC.
WorkComesBack == Runs!RolesComeBack /\ PC!NewestRequestEnds
=============================================================================
