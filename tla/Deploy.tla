-------------------------------- MODULE Deploy --------------------------------
(***************************************************************************)
(* Two slots behind nginx (scripts/deploy.sh).  A deploy builds the image, *)
(* starts the idle slot, checks it before the traffic is cut over to it and*)
(* watches it afterwards.  The Fossoyeur retires routes in the registry of *)
(* the same checkout and rebuilds both slots itself, past those checks.    *)
(* A process serves the version it was started from.                       *)
(***************************************************************************)
EXTENDS Catalogue

CONSTANTS
    MaxEdits,           \* changes to the checkout
    UncheckedEdits      \* the Fossoyeur may find edits there that no deploy accepted

ASSUME DeployAssumption == MaxEdits \in Nat /\ UncheckedEdits \in BOOLEAN

VARIABLES
    tree,       \* the checkout on the host
    image,      \* the image both slots are started from
    slot,       \* the process in each slot
    live,       \* the slot nginx sends the traffic to
    step,       \* where deploy.sh is: idle, started, checked, cut
    fossoyeur,     \* the Fossoyeur: idle, or between its retirement and its rebuild
    accepted,   \* the last version a deploy accepted
    versions,   \* all of them
    edits

vars == <<tree, image, slot, live, step, fossoyeur, accepted, versions, edits>>

Slots == {"blue", "green"}
Target == CHOOSE s \in Slots : s # live
Paths(keys) == {k[2] : k \in keys}

\* A process: the version it runs, and whether its container was replaced
\* during the deploy.
Process(b, phase, replaced) == [build |-> b, phase |-> phase, replaced |-> replaced]
Ready(s) == slot[s].phase = "ready"
Off == Process([slugs |-> [u \in Usine |-> "none"], work |-> [r \in Touched |-> "sold"]], "stopped", FALSE)

Init ==
    /\ tree = Off.build /\ image = Off.build /\ accepted = Off.build /\ versions = {Off.build}
    /\ live = "blue"
    /\ slot = [s \in Slots |-> IF s = "blue" THEN Process(Off.build, "ready", FALSE) ELSE Off]
    /\ step = "idle" /\ fossoyeur = "idle" /\ edits = 0
-----------------------------------------------------------------------------
(* The checkout: a developer's edits, the Ouvrier's routes *)

\* The registry of retirements is permanent: a route that runs withdrawn
\* somewhere may only be sold again.
Edit(r, w) ==
    /\ edits < MaxEdits /\ tree.work[r] # w
    /\ \A b \in {slot[s].build : s \in Slots} \cup {accepted} : b.work[r] = "withdrawn" => w = "sold"
    /\ tree' = [tree EXCEPT !.work[r] = w] /\ edits' = edits + 1
    /\ UNCHANGED <<image, slot, live, step, fossoyeur, accepted, versions>>

Publish(u) ==
    /\ edits < MaxEdits /\ tree.slugs[u] = "none"
    /\ tree' = [tree EXCEPT !.slugs[u] = "live"] /\ edits' = edits + 1
    /\ UNCHANGED <<image, slot, live, step, fossoyeur, accepted, versions>>
-----------------------------------------------------------------------------
(* A process: it starts, and may start again *)

Becomes(s, p) ==
    /\ slot' = [slot EXCEPT ![s] = p]
    /\ UNCHANGED <<tree, image, live, step, fossoyeur, accepted, versions, edits>>

Starts(s) == slot[s].phase = "starting" /\ Becomes(s, [slot[s] EXCEPT !.phase = "ready"])
Restarts(s) == Ready(s) /\ Becomes(s, [slot[s] EXCEPT !.phase = "starting"])
-----------------------------------------------------------------------------
(* deploy.sh *)

\* The image is built from the checkout; a container that already runs it stays.
StartDeploy ==
    /\ step = "idle"
    /\ image' = tree /\ step' = "started"
    /\ slot' = [slot EXCEPT ![Target] =
                   IF @.phase # "stopped" /\ @.build = tree THEN [@ EXCEPT !.replaced = FALSE]
                   ELSE Process(tree, "starting", FALSE)]
    /\ UNCHANGED <<tree, live, fossoyeur, accepted, versions, edits>>

Priced(b) == _build_route_configs_uncached(b)
Catalog == [b \in Builds |-> Paths(Priced(b))]
Expected(b, op) == IF match_retired(b, op[2]) THEN 410 ELSE 402

check_catalog_samples(b, table, handled) ==
    \A path \in Paths(table) \ {<<"discover">>} : Answer(b, table, handled, <<"GET", path \o <<"sample">>>>) = 200
\* Every operation of the handlers whose module calls OpenRouter or Jev.
PaidModules ==
    {"search", "translate", "extract", "summarize", "research", "decide", "guard", "verify", "rank", "token-risk",
     "sentiment", "classify", "intent", "spam-check", "toxicity", "language", "pii-check", "v1/chat/completions"}
check_runtime_gating(b, table, handled) ==
    \A op \in Both(PaidModules) \cap handled : Answer(b, table, handled, op) = Expected(b, op)
check_payment_enforcement(b, table, handled) == \A k \in table : Answer(b, table, handled, k) = Expected(b, k)
check_get_delivery(table, handled) == \A k \in table : k[1] = "GET" => k \in handled
Checked ==
    {b \in Builds :
        LET table == Priced(b) handled == Handlers(b)
        IN  /\ check_catalog_samples(b, table, handled) /\ check_runtime_gating(b, table, handled)
            /\ check_payment_enforcement(b, table, handled) /\ check_get_delivery(table, handled)}

\* What the public catalogue lists and the new one does not has been retired.
Replacements == {<<old, new>> : old \in Builds, new \in Builds}
check_catalog_completeness_any == Replacements          \* mutant: every disappearance is a retirement
check_catalog_completeness ==
    {r \in Replacements : \A path \in Catalog[r[1]] \ Catalog[r[2]] : match_retired(r[2], path)}

precutover_check ==
    /\ step = "started" /\ Ready(Target) /\ ~slot[Target].replaced
    /\ slot[Target].build \in Checked
    /\ Ready(live) /\ <<slot[live].build, slot[Target].build>> \in check_catalog_completeness
    /\ step' = "checked"
    /\ UNCHANGED <<tree, image, slot, live, fossoyeur, accepted, versions, edits>>

\* Unhealthy, or a check failed: the new container is removed, the checkout
\* and the image stay as they are.
DeployFails ==
    /\ step = "started"
    /\ step' = "idle" /\ slot' = [slot EXCEPT ![Target] = Off]
    /\ UNCHANGED <<tree, image, live, fossoyeur, accepted, versions, edits>>

Cutover ==
    /\ step = "checked"
    /\ step' = "cut" /\ live' = Target
    /\ UNCHANGED <<tree, image, slot, fossoyeur, accepted, versions, edits>>

\* nginx -t refuses the snippet: both containers are left running.
NginxRefuses ==
    /\ step = "checked"
    /\ step' = "idle"
    /\ UNCHANGED <<tree, image, slot, live, fossoyeur, accepted, versions, edits>>

\* Target is now the container the traffic came from.
post_cutover_watch ==
    /\ step = "cut" /\ Ready(live) /\ ~slot[live].replaced
    /\ step' = "idle" /\ slot' = [slot EXCEPT ![Target] = Off]
    /\ accepted' = slot[live].build /\ versions' = versions \cup {slot[live].build}
    /\ UNCHANGED <<tree, image, live, fossoyeur, edits>>

RollBack ==
    /\ step = "cut"
    /\ step' = "idle" /\ live' = Target
    /\ slot' = [slot EXCEPT ![live] = Off]
    /\ UNCHANGED <<tree, image, fossoyeur, accepted, versions, edits>>
-----------------------------------------------------------------------------
(* The Fossoyeur: a route nobody paid for is retired in the registry of the *)
(* checkout, then everything is rebuilt and both slots recreated.           *)

kill_dead_routes(u) ==
    /\ fossoyeur = "idle" /\ tree.slugs[u] = "live"
    /\ tree' = [tree EXCEPT !.slugs[u] = "retired"] /\ fossoyeur' = "retired"
    /\ UNCHANGED <<image, slot, live, step, accepted, versions, edits>>

Redeploys ==
    /\ fossoyeur = "retired"
    /\ UncheckedEdits \/ tree.work = accepted.work
    /\ fossoyeur' = "idle" /\ image' = tree
    /\ slot' = [s \in Slots |-> Process(tree, "starting", TRUE)]
    /\ UNCHANGED <<tree, live, step, accepted, versions, edits>>

BuildFails ==
    /\ fossoyeur = "retired" /\ fossoyeur' = "idle"
    /\ UNCHANGED <<tree, image, slot, live, step, accepted, versions, edits>>
-----------------------------------------------------------------------------
Next ==
    \/ \E r \in Touched, w \in Works : Edit(r, w)
    \/ \E u \in Usine : Publish(u) \/ kill_dead_routes(u)
    \/ \E s \in Slots : Starts(s) \/ Restarts(s)
    \/ StartDeploy \/ precutover_check \/ DeployFails \/ Cutover \/ NginxRefuses
    \/ post_cutover_watch \/ RollBack
    \/ Redeploys \/ BuildFails

Spec == Init /\ [][Next]_vars
-----------------------------------------------------------------------------
\* What was sold stays for sale or is gone for good: every path an accepted
\* version listed answers 402 or 410 to POST, in whichever slot has the traffic,
\* through deploys, roll-backs, restarts and the Fossoyeur's rebuilds; GET gives
\* none away, but for a route without a paid upstream that lives by the twins'
\* list and has left it; and what is paid for has a handler (deploy.sh and the
\* scripts it runs).
Overlooked(b) == {r \in Edited(b, {"untwinned"}) : r \notin PaidModules /\ <<"GET", <<r>>>> \notin Listed}
Listings == UNION {Catalog[b] : b \in Builds}
Kept ==
    [b \in Builds |->
        LET table == Priced(b) handled == Handlers(b)
        IN  {path \in Listings :
                /\ Answer(b, table, handled, <<"POST", path>>) \in {402, 410}
                /\ Answer(b, table, handled, <<"GET", path>>) = 200 => Head(path) \in Overlooked(b)}]
Delivers == {b \in Builds : Priced(b) \subseteq Handlers(b)}
SoldIsPaidOrGone ==
    LET b == slot[live].build
    IN  Ready(live) => b \in Delivers /\ \A old \in versions : Catalog[old] \subseteq Kept[b]

\* The links that do not answer as they say: 402 for what is priced, 200 for
\* what is free.
Lies(b, links) ==
    LET table == Priced(b) handled == Handlers(b)
    IN  {l \in links : Answer(b, table, handled, l.op) # IF l.promise = "pay" THEN 402 ELSE 200}
Published(b) == Documents(b, Priced(b))

\* Links of an edited route that no table and no flag takes out: those written by
\* hand, and the sample of discover, which the checks do not look at.
About(links, routes) == {l \in links : l.op[2][1] \in routes}
LeftBehind(b) ==
    LET edited == Edited(b, Works \ {"sold"})
    IN  About(_llms_catalog(b), edited \ LlmsFlag) \cup About(ToolLinks(b), edited \ Flagged)
            \cup About(Handwritten, edited) \cup Free(Samples({"discover"} \cap Edited(b, {"sampleless"})))

\* A deploy makes no document lie about a route it did not edit, nor one that
\* follows the table or a flag about any route: the links of the live process
\* that do not answer as they say are those the first version published in vain
\* already, and lines written by hand about edited routes (discovery.py,
\* capabilities.py, openapi_custom.py, accueil.py, agent_trust_kit.py,
\* mcp_server.py).
Truthful == {b \in Builds : Lies(b, Published(b)) \subseteq Lies(Off.build, Published(Off.build)) \cup LeftBehind(b)}
DocumentsTellTheTruth == Ready(live) => slot[live].build \in Truthful
=============================================================================
