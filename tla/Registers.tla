------------------------------ MODULE Registers ------------------------------
(***************************************************************************)
(* The two registers kept in JSON files under DATA_DIR, which both         *)
(* containers of a deploy share.  verified_agents.json                     *)
(* (app/handlers/agent_claim.py) is written to a .tmp file and moved over  *)
(* the old one; agent_salut_visitors.json (app/handlers/agent_salut.py) is *)
(* opened for writing in place.  A file that does not parse reads as empty.*)
(***************************************************************************)
EXTENDS Naturals, FiniteSets

CONSTANTS
    Containers,     \* the slots that serve
    Agents,         \* agents that buy a listing or say hello
    MaxVisits,      \* bound: hellos of one agent
    Torn,           \* a file that does not parse
    Absent          \* no file

VARIABLES
    listed,     \* verified_agents.json: the agents in it, or Torn
    tmp,        \* verified_agents.tmp: what it holds, Torn, or Absent
    visitors,   \* agent_salut_visitors.json: each agent's calls, or Torn
    clerk,      \* what each container is doing with either file
    bought,     \* history: the agents whose claim was answered 200
    visits,     \* history: how often each agent was greeted
    overlapped, \* history: two containers had the same file in hand
    crashed     \* history: a container stopped with the visitors' file open

RegisterConstants ==
    /\ MaxVisits \in Nat
    /\ Torn # Absent
    /\ \A list \in SUBSET Agents : Torn # list /\ Absent # list
    /\ \A count \in [Agents -> 0..MaxVisits] : Torn # count

registerVars == <<listed, tmp, visitors, clerk, bought, visits, overlapped, crashed>>

AtDesk == [step |-> "none"]

TypeOK ==
    /\ listed \in {Torn} \cup SUBSET Agents
    /\ tmp \in {Torn, Absent} \cup SUBSET Agents
    /\ visitors \in {Torn} \cup [Agents -> 0..MaxVisits]
    /\ clerk \in [Containers -> {AtDesk}
          \cup [step : {"read", "open", "written"}, agent : Agents, copy : SUBSET Agents]
          \cup [step : {"greets", "truncated"}, agent : Agents, copy : [Agents -> 0..MaxVisits]]]
    /\ bought \subseteq Agents
    /\ visits \in [Agents -> 0..MaxVisits]
    /\ overlapped \in SUBSET {"listed", "visitors"}
    /\ crashed \in BOOLEAN

Nobody == [a \in Agents |-> 0]

Init ==
    /\ listed = {} /\ tmp = Absent
    /\ visitors = Nobody
    /\ clerk = [c \in Containers |-> AtDesk]
    /\ bought = {} /\ visits = Nobody
    /\ overlapped = {} /\ crashed = FALSE

Moves(c, to) == clerk' = [clerk EXCEPT ![c] = to]

\* A container takes a file while another one has it
Takes(c, file, steps) ==
    overlapped' = IF \E other \in Containers \ {c} : clerk[other].step \in steps
                  THEN overlapped \cup {file} ELSE overlapped

-----------------------------------------------------------------------------
(* POST /agent-claim, under a lock of its own process.                     *)

ClaimSteps == {"read", "open", "written"}

_read == IF listed = Torn THEN {} ELSE listed

ReadsRegister(c, a) ==
    /\ clerk[c] = AtDesk
    /\ Moves(c, [step |-> "read", agent |-> a, copy |-> _read \cup {a}])
    /\ Takes(c, "listed", ClaimSteps)
    /\ UNCHANGED <<listed, tmp, visitors, bought, visits, crashed>>

\* Mutant of OpensTmp: write_text on the register itself
OpensListed(c) ==
    /\ clerk[c].step = "read"
    /\ listed' = Torn
    /\ Moves(c, [clerk[c] EXCEPT !.step = "open"])
    /\ UNCHANGED <<tmp, visitors, bought, visits, overlapped, crashed>>

\* write_text opens, and empties, the .tmp file; then fills it
OpensTmp(c) ==
    /\ clerk[c].step = "read"
    /\ tmp' = Torn
    /\ Moves(c, [clerk[c] EXCEPT !.step = "open"])
    /\ UNCHANGED <<listed, visitors, bought, visits, overlapped, crashed>>

\* The file it opened, which the other container may have written over, or
\* moved, or moved and opened anew
FillsTmp(c) ==
    /\ clerk[c].step = "open"
    /\ \E text \in {clerk[c].copy} \cup (IF "listed" \in overlapped THEN {Torn} ELSE {}) :
        IF tmp = Absent THEN listed' = text /\ UNCHANGED tmp
                        ELSE tmp' = text /\ UNCHANGED listed
    /\ Moves(c, [clerk[c] EXCEPT !.step = "written"])
    /\ UNCHANGED <<visitors, bought, visits, overlapped, crashed>>

\* tmp.replace: an error when the other container has moved the file away
MovesTmp(c) ==
    /\ clerk[c].step = "written"
    /\ listed' = IF tmp = Absent THEN listed ELSE tmp
    /\ bought' = IF tmp = Absent THEN bought ELSE bought \cup {clerk[c].agent}
    /\ tmp' = Absent
    /\ Moves(c, AtDesk)
    /\ UNCHANGED <<visitors, visits, overlapped, crashed>>

\* Thirty days later _active leaves the listing out
Expires(a) ==
    /\ listed # Torn /\ a \in listed
    /\ \A c \in Containers : clerk[c].step \notin ClaimSteps
    /\ listed' = listed \ {a}
    /\ bought' = bought \ {a}
    /\ UNCHANGED <<tmp, visitors, clerk, visits, overlapped, crashed>>

-----------------------------------------------------------------------------
(* GET /agent-salut: _greet.                                               *)

GreetSteps == {"greets", "truncated"}

Known == IF visitors = Torn THEN Nobody ELSE visitors

ReadsVisitors(c, a) ==
    /\ clerk[c] = AtDesk
    /\ visits[a] < MaxVisits
    /\ Moves(c, [step |-> "greets", agent |-> a, copy |-> [Known EXCEPT ![a] = @ + 1]])
    /\ Takes(c, "visitors", GreetSteps)
    /\ visits' = [visits EXCEPT ![a] = @ + 1]
    /\ UNCHANGED <<listed, tmp, visitors, bought, crashed>>

OpensVisitors(c) ==
    /\ clerk[c].step = "greets"
    /\ visitors' = Torn
    /\ Moves(c, [clerk[c] EXCEPT !.step = "truncated"])
    /\ UNCHANGED <<listed, tmp, bought, visits, overlapped, crashed>>

FillsVisitors(c) ==
    /\ clerk[c].step = "truncated"
    /\ visitors' = clerk[c].copy
    /\ Moves(c, AtDesk)
    /\ UNCHANGED <<listed, tmp, bought, visits, overlapped, crashed>>

-----------------------------------------------------------------------------
\* A container stops, whatever it has in hand
Stops(c) ==
    /\ clerk[c] # AtDesk
    /\ crashed' = (crashed \/ clerk[c].step \in GreetSteps)
    /\ Moves(c, AtDesk)
    /\ UNCHANGED <<listed, tmp, visitors, bought, visits, overlapped>>

Next ==
    \/ \E c \in Containers, a \in Agents : ReadsRegister(c, a) \/ ReadsVisitors(c, a)
    \/ \E c \in Containers :
        \/ OpensTmp(c) \/ FillsTmp(c) \/ MovesTmp(c)
        \/ OpensVisitors(c) \/ FillsVisitors(c)
        \/ Stops(c)
    \/ \E a \in Agents : Expires(a)

-----------------------------------------------------------------------------
\* An agent that was answered keeps its listing for the thirty days it is told,
\* whatever stops in the middle of another claim; only two containers that
\* have the file in hand at once can lose it (and can leave it torn).
ListingsAreKept ==
    "listed" \notin overlapped => /\ listed # Torn
                                  /\ bought \subseteq listed

\* The greeter never remembers more calls than there were, and forgets a
\* visitor only when two containers overlap or one stops in its write.
VisitorsAreRemembered ==
    /\ visitors # Torn => \A a \in Agents : visitors[a] <= visits[a]
    /\ /\ "visitors" \notin overlapped /\ ~crashed
       /\ \A c \in Containers : clerk[c].step \notin GreetSteps
       => visitors = visits
=============================================================================
