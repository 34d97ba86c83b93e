------------------------------ MODULE Proposals ------------------------------
(***************************************************************************)
(* The proposals of the prospecteur, decided in the same handler as they   *)
(* are inserted but in a later commit, and the repair attempts counted for *)
(* a route of the loop (app/admin.py, app/db.py).                          *)
(***************************************************************************)
EXTENDS Naturals

CONSTANTS
    Proposed,       \* proposals that may be posted
    MaxAttempts     \* bound: repair attempts counted

ProposalConstants == MaxAttempts \in Nat

REPAIR_MAX_ATTEMPTS == 2

VARIABLES
    proposal,   \* proposals.status, "absent" before the insert
    paying,     \* the proposals whose source requires payment
    clicked,    \* history: what the operator did with each by hand
    attempts    \* route_repair_attempts of one route, 0 for no row

proposalVars == <<proposal, paying, clicked, attempts>>

TypeOK ==
    /\ proposal \in [Proposed -> {"absent", "proposed", "approved", "blocked", "closed"}]
    /\ paying \subseteq Proposed
    /\ clicked \in [Proposed -> SUBSET {"approved", "blocked", "closed"}]
    /\ attempts \in 0..MaxAttempts

Init ==
    /\ proposal = [p \in Proposed |-> "absent"]
    /\ paying \in SUBSET Proposed
    /\ clicked = [p \in Proposed |-> {}]
    /\ attempts = 0

-----------------------------------------------------------------------------
(* Insert, approval and block are separate commits.                        *)

add_proposal(p) ==
    /\ proposal[p] = "absent"
    /\ proposal' = [proposal EXCEPT ![p] = "proposed"]

Verdict(p) == IF p \in paying THEN "blocked" ELSE "approved"

\* POST /admin/usine/proposals, to its end, or cut after the first commit
CreateProposal(p) ==
    /\ proposal[p] = "absent"
    /\ proposal' = [proposal EXCEPT ![p] = Verdict(p)]
    /\ UNCHANGED <<paying, clicked, attempts>>

CreationIsCut(p) ==
    /\ add_proposal(p)
    /\ UNCHANGED <<paying, clicked, attempts>>

\* What each statement of db.py accepts
Accepts(to) ==
    CASE to = "approved" -> {"proposed"}
      [] to = "blocked"  -> {"proposed", "approved"}
      [] to = "closed"   -> {"approved"}

Click(p, to) ==
    /\ proposal[p] \in Accepts(to)
    /\ proposal' = [proposal EXCEPT ![p] = to]
    /\ clicked' = [clicked EXCEPT ![p] = @ \cup {to}]
    /\ UNCHANGED <<paying, attempts>>

-----------------------------------------------------------------------------
(* Repair attempts of a route, one transaction each.                       *)

RepairFails ==
    /\ attempts < MaxAttempts
    /\ attempts' = attempts + 1
    /\ UNCHANGED <<proposal, paying, clicked>>

RepairSucceeds ==
    /\ attempts' = 0
    /\ UNCHANGED <<proposal, paying, clicked>>

ShouldKill == attempts >= REPAIR_MAX_ATTEMPTS

Next ==
    \/ \E p \in Proposed : CreateProposal(p) \/ CreationIsCut(p)
    \/ \E p \in Proposed, to \in {"approved", "blocked", "closed"} : Click(p, to)
    \/ RepairFails \/ RepairSucceeds

-----------------------------------------------------------------------------
\* Money needs a human: a source that requires payment is never approved or
\* worked on without the operator's click, even when its creation was cut
\* between the insert and the block.
PaidSourcesNeedAHand ==
    \A p \in paying : proposal[p] \in {"approved", "closed"} => "approved" \in clicked[p]
=============================================================================
