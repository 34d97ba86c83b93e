-------------------------------- MODULE Board --------------------------------
(***************************************************************************)
(* The free boards agents write on: nodes and bounties of the mesh         *)
(* (app/handlers/agent_mesh.py) and letters to the agent                   *)
(* (app/handlers/contact.py), by HTTP or by an MCP tool.  A handler never  *)
(* awaits, so a container works on one call at a time; but its SELECTs run *)
(* outside the transaction that the first INSERT or UPDATE begins, and     *)
(* the two containers of a deploy share the database: `desk' is the call   *)
(* of a container between what it read and what it writes.                 *)
(***************************************************************************)
EXTENDS Naturals, FiniteSets

CONSTANTS
    Containers,     \* the slots that serve
    Sheets,         \* the tables: "nodes", "bounties", "letters"
    Prints,         \* fingerprints of what is written
    Addresses,      \* addresses of callers; "mcp" is the door of the tools
    PerHour,        \* writes per hour and address (10 letters, 30 on the mesh)
    MaxRows         \* bound: rows ever inserted

Counters == {"mesh", "mail"}
CounterOf(sheet) == IF sheet = "letters" THEN "mail" ELSE "mesh"

VARIABLES
    rows,       \* the rows of the three tables
    recent,     \* per counter and address: writes of the last hour
    desk,       \* what each container is about to write
    told        \* history: how many callers were told that they settled a row

BoardConstants ==
    /\ IsFiniteSet(Containers) /\ Containers # {}
    /\ Sheets \subseteq {"nodes", "bounties", "letters"}
    /\ PerHour \in Nat /\ MaxRows \in Nat

boardVars == <<rows, recent, desk, told>>

Row == [id : 1..MaxRows, sheet : Sheets, print : Prints, fresh : BOOLEAN, state : {"open", "settled"}]
Idle == [do |-> "nothing"]

TypeOK ==
    /\ rows \subseteq Row
    /\ recent \in [Counters \X Addresses -> Nat]
    /\ desk \in [Containers -> {Idle}
                    \cup [do : {"insert"}, sheet : Sheets, print : Prints, from : Addresses]
                    \cup [do : {"settle"}, row : 1..MaxRows, from : Addresses]]
    /\ told \in [1..MaxRows -> Nat]

Init ==
    /\ rows = {}
    /\ recent = [k \in Counters \X Addresses |-> 0]
    /\ desk = [c \in Containers |-> Idle]
    /\ told = [i \in 1..MaxRows |-> 0]

-----------------------------------------------------------------------------
(* The SELECTs of a handler.                                               *)

\* The mesh does not count the calls of its tools, which carry no address
_rate_limit(counter, a) ==
    /\ ~(counter = "mesh" /\ a = "mcp")
    /\ recent[<<counter, a>>] >= PerHour

\* The same text within DEDUPE_HOURS is answered with the first row's receipt
Duplicate(sheet, print) == \E r \in rows : r.sheet = sheet /\ r.print = print /\ r.fresh

\* register_node, post_bounty, deposer_contact, up to their INSERT
ReadsForInsert(c, sheet, print, a) ==
    /\ desk[c] = Idle
    /\ ~Duplicate(sheet, print)
    /\ ~_rate_limit(CounterOf(sheet), a)
    /\ desk' = [desk EXCEPT ![c] = [do |-> "insert", sheet |-> sheet, print |-> print, from |-> a]]
    /\ UNCHANGED <<rows, recent, told>>

IsOpen(r) == r.state = "open"

\* claim_bounty and post_reply, up to their UPDATE; a reply is not counted
ReadsForSettling(c, r, a) ==
    /\ desk[c] = Idle
    /\ r \in rows /\ r.sheet # "nodes" /\ IsOpen(r)
    /\ r.sheet = "bounties" => ~_rate_limit("mesh", a)
    /\ desk' = [desk EXCEPT ![c] = [do |-> "settle", row |-> r.id, from |-> a]]
    /\ UNCHANGED <<rows, recent, told>>

-----------------------------------------------------------------------------
(* The transaction that follows, and the events it logs.                   *)

Counted(counter, a) == [recent EXCEPT ![<<counter, a>>] = @ + 1]

Inserts(c) ==
    LET d == desk[c] IN
    /\ d.do = "insert"
    /\ Cardinality(rows) < MaxRows
    /\ rows' = rows \cup {[id |-> Cardinality(rows) + 1, sheet |-> d.sheet, print |-> d.print,
                           fresh |-> TRUE, state |-> "open"]}
    /\ recent' = Counted(CounterOf(d.sheet), d.from)
    /\ desk' = [desk EXCEPT ![c] = Idle]
    /\ UNCHANGED told

\* UPDATE ... WHERE id = ?, whatever the status has become
Settles(c) ==
    LET d == desk[c] IN
    /\ d.do = "settle"
    /\ rows' = {IF r.id = d.row THEN [r EXCEPT !.state = "settled"] ELSE r : r \in rows}
    /\ told' = [told EXCEPT ![d.row] = @ + 1]
    /\ recent' = IF \E r \in rows : r.id = d.row /\ r.sheet = "bounties"
                 THEN Counted("mesh", d.from) ELSE recent
    /\ desk' = [desk EXCEPT ![c] = Idle]

\* The container stops, or its statement finds the database locked
GivesUp(c) ==
    /\ desk[c] # Idle
    /\ desk' = [desk EXCEPT ![c] = Idle]
    /\ UNCHANGED <<rows, recent, told>>

-----------------------------------------------------------------------------
(* Time.                                                                   *)

AnHourPasses(counter, a) ==
    /\ recent[<<counter, a>>] > 0
    /\ recent' = [recent EXCEPT ![<<counter, a>>] = @ - 1]
    /\ UNCHANGED <<rows, desk, told>>

ADayPasses(r) ==
    /\ r \in rows /\ r.fresh
    /\ rows' = (rows \ {r}) \cup {[r EXCEPT !.fresh = FALSE]}
    /\ UNCHANGED <<recent, desk, told>>

Next ==
    \/ \E c \in Containers, a \in Addresses :
        \/ \E sheet \in Sheets, print \in Prints : ReadsForInsert(c, sheet, print, a)
        \/ \E r \in rows : ReadsForSettling(c, r, a)
    \/ \E c \in Containers : Inserts(c) \/ Settles(c) \/ GivesUp(c)
    \/ \E counter \in Counters, a \in Addresses : AnHourPasses(counter, a)
    \/ \E r \in rows : ADayPasses(r)

-----------------------------------------------------------------------------
\* However many agents claim a bounty or answer a letter, at most one per
\* container is told that it was the one: the check is not in the UPDATE, but
\* a container never reads between its own check and its write.
OneClaimPerContainer == \A i \in 1..MaxRows : told[i] <= Cardinality(Containers)

\* The same text is on a board once, and once more for every other container
\* that read before the first one wrote.
RepeatsAreBounded ==
    \A sheet \in Sheets, print \in Prints :
        Cardinality({r \in rows : r.sheet = sheet /\ r.print = print /\ r.fresh})
            <= Cardinality(Containers)

\* An address is counted above its hourly limit by the other containers' calls
\* in flight only; the mesh counts the calls of its tools and never stops them.
HourlyLimitsHold ==
    \A counter \in Counters, a \in Addresses :
        ~(counter = "mesh" /\ a = "mcp")
            => recent[<<counter, a>>] <= PerHour + Cardinality(Containers) - 1
=============================================================================
