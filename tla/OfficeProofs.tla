----------------------------- MODULE OfficeProofs -----------------------------
(***************************************************************************)
(* What TLAPS proves of Deploy, for any number of generated slugs, edits,  *)
(* deploys, roll-backs and restarts, and of Office, for any number of      *)
(* roles, routes, processes of the fossoyeur, requests and proposals.      *)
(*                                                                         *)
(* Deploy: what was sold is paid or gone, and the documents lie of nothing *)
(* they did not lie of before, edited routes' handwritten lines apart.     *)
(* One hypothesis is needed: the Fossoyeur rebuilds no edit that a deploy  *)
(* has not accepted (~UncheckedEdits).  The checks of deploy.sh are the    *)
(* only thing between an edit and the traffic, and the run that lets it dig*)
(* edits up has a counterexample.                                          *)
(*                                                                         *)
(* Office: a role has one run at a time in the container, and a retired    *)
(* route is served only while a process is between the registry and the    *)
(* image, or died there; of the requests to the PC only the newest waits; a*)
(* source that costs money was approved by hand; and what is proved of     *)
(* Deploy holds of the slots here.                                         *)
(***************************************************************************)
EXTENDS Office, Integers, SequenceTheorems, TLAPS

-----------------------------------------------------------------------------
(* Operations.  The sets Post, Both, Pages and Samples of the catalogue are *)
(* images of sets of names; these lemmas say what belongs to them.          *)

PostOf(r) == <<"POST", <<r>>>>
GetOf(r) == <<"GET", <<r>>>>
SampleOf(r) == <<"GET", <<r, "sample">>>>

\* The members of the four sets
LEMMA Members ==
    ASSUME NEW T, NEW k
    PROVE  /\ k \in Post(T) <=> \E r \in T : k = PostOf(r)
           /\ k \in Both(T) <=> \E r \in T : k = PostOf(r) \/ k = GetOf(r)
           /\ k \in Pages(T) <=> \E r \in T : k = GetOf(r)
           /\ k \in Samples(T) <=> \E r \in T : k = SampleOf(r)
BY DEF Post, Both, Pages, Samples, PostOf, GetOf, SampleOf

\* An operation has its method, its path and its route.
LEMMA Parts ==
    ASSUME NEW r
    PROVE  /\ PostOf(r)[1] = "POST" /\ PostOf(r)[2] = <<r>> /\ PostOf(r)[2][1] = r
           /\ GetOf(r)[1] = "GET" /\ GetOf(r)[2] = <<r>> /\ GetOf(r)[2][1] = r
           /\ SampleOf(r)[1] = "GET" /\ SampleOf(r)[2] = <<r, "sample">> /\ SampleOf(r)[2][1] = r
           /\ Head(PostOf(r)[2]) = r /\ Head(GetOf(r)[2]) = r /\ Head(SampleOf(r)[2]) = r
BY DEF PostOf, GetOf, SampleOf

\* Operations of two kinds or of two routes are two operations.
LEMMA Distinct ==
    ASSUME NEW r, NEW q
    PROVE  /\ PostOf(r) # GetOf(q) /\ PostOf(r) # SampleOf(q) /\ GetOf(r) # SampleOf(q)
           /\ (PostOf(r) = PostOf(q) => r = q) /\ (GetOf(r) = GetOf(q) => r = q)
           /\ (SampleOf(r) = SampleOf(q) => r = q)
BY DEF PostOf, GetOf, SampleOf

\* Where a POST, a GET and a sample may be found
LEMMA PostsIn ==
    ASSUME NEW r, NEW T
    PROVE  /\ (PostOf(r) \in Post(T) <=> r \in T) /\ (PostOf(r) \in Both(T) <=> r \in T)
           /\ PostOf(r) \notin Pages(T) /\ PostOf(r) \notin Samples(T)
BY DEF PostOf, Pages, Both, Post, Samples
LEMMA GetsIn ==
    ASSUME NEW r, NEW T
    PROVE  /\ (GetOf(r) \in Pages(T) <=> r \in T) /\ (GetOf(r) \in Both(T) <=> r \in T)
           /\ GetOf(r) \notin Post(T) /\ GetOf(r) \notin Samples(T)
BY DEF GetOf, Pages, Both, Post, Samples
LEMMA SamplesIn ==
    ASSUME NEW r, NEW T
    PROVE  /\ SampleOf(r) \in Samples(T) <=> r \in T
           /\ SampleOf(r) \notin Pages(T) /\ SampleOf(r) \notin Post(T) /\ SampleOf(r) \notin Both(T)
BY DEF SampleOf, Pages, Both, Post, Samples

\* The path of a sample is the route's path with one segment more.
LEMMA SampleAfter ==
    ASSUME NEW r
    PROVE  <<"GET", <<r>> \o <<"sample">>>> = SampleOf(r)
<1> DEFINE s == <<r>> \o <<"sample">>
           t == <<r, "sample">>
<1>1. Len(s) = 2 /\ s[1] = r /\ s[2] = "sample"
  OBVIOUS
<1>2. s \in Seq({r, "sample"}) /\ t \in Seq({r, "sample"}) /\ Len(t) = 2 /\ t[1] = r /\ t[2] = "sample"
  OBVIOUS
<1> HIDE DEF s, t
<1>3. Len(s) = Len(t) /\ \A i \in 1 .. Len(s) : s[i] = t[i]
  <2>1. 1 .. Len(s) = {1, 2}
    BY <1>1
  <2> QED BY <1>1, <1>2, <2>1
<1>4. s = t
  BY <1>2, <1>3, SeqEqual
<1> QED BY <1>4 DEF s, t, SampleOf
-----------------------------------------------------------------------------
(* What is for sale by hand, and what else is served *)

\* The routes whose entries are POSTs, those sold by both methods
PostNames ==
    {"search", "translate", "jobs", "company-leads", "pdf", "web-read", "extract", "summarize",
     "fact-check", "discover", "agent-claim", "decide", "guard", "verify", "rank",
     "token-risk", "due-diligence", "research", "v1/chat/completions",
     "sentiment", "classify", "intent", "spam-check", "toxicity", "language", "pii-check",
     "llm/claude-sonnet", "llm/gpt-mini", "llm/llama"}
BothNames ==
    {"weather", "crypto", "news", "can-pay", "probe", "wallet-balance", "gas-price",
     "wallet-intelligence", "x402-echo", "tip", "agent-health", "token-card"}
SoldNames == PostNames \cup BothNames

\* What the tables list
LEMMA ListedIs ==
    \A k : k \in Listed <=> (\E r \in SoldNames : k = PostOf(r)) \/ (\E r \in BothNames : k = GetOf(r))
<1> DEFINE W == {"search", "translate", "jobs", "company-leads", "pdf", "web-read", "extract", "summarize"}
           F1 == {"fact-check", "discover"}
           F2 == {"weather", "crypto", "news"}
           R == {"can-pay", "probe", "wallet-balance", "gas-price"}
           E == {"wallet-intelligence", "x402-echo", "tip"}
           A1 == {"agent-claim", "decide", "guard", "verify", "rank"}
           A2 == {"agent-health"}
           T1 == {"token-risk", "due-diligence", "research", "v1/chat/completions"}
           T2 == {"token-card"}
           C == {"sentiment", "classify", "intent", "spam-check", "toxicity", "language", "pii-check"}
           L == {"llm/claude-sonnet", "llm/gpt-mini", "llm/llama"}
<1>1. Listed = Post(W) \cup (Post(F1) \cup Both(F2)) \cup Both(R) \cup Both(E) \cup (Post(A1) \cup Both(A2))
                \cup (Post(T1) \cup Both(T2)) \cup Post(C) \cup Post(L)
  BY DEF Listed, WebEntries, FeedEntries, ReadingEntries, EchoEntries, AgentEntries, TokenEntries,
         ClassifierEntries, PinnedEntries
<1>2. PostNames = W \cup F1 \cup A1 \cup T1 \cup C \cup L /\ BothNames = F2 \cup R \cup E \cup A2 \cup T2
  BY DEF PostNames, BothNames
<1> HIDE DEF W, F1, F2, R, E, A1, A2, T1, T2, C, L
<1>3. Post(PostNames) = Post(W) \cup Post(F1) \cup Post(A1) \cup Post(T1) \cup Post(C) \cup Post(L)
  BY <1>2 DEF Post
<1>4. Both(BothNames) = Both(F2) \cup Both(R) \cup Both(E) \cup Both(A2) \cup Both(T2)
  BY <1>2 DEF Both, Post
<1>5. Listed = Post(PostNames) \cup Both(BothNames)
  BY <1>1, <1>3, <1>4
<1> QED BY <1>5, Members DEF SoldNames

\* Each is in the twins' list or has two entries, and none is among the routes
\* whose flags are off; paid modules are sold by POST.
LEMMA Twinned ==
    /\ PostNames \subseteq Twins /\ PaidModules \subseteq PostNames
    /\ PostNames \cap BothNames = {} /\ SoldNames \cap Unlisted = {}
<1>1. PostNames \subseteq Twins
  BY DEF PostNames, Twins
<1>2. PaidModules \subseteq PostNames
  BY DEF PostNames, PaidModules
<1>3. PostNames \cap BothNames = {}
  BY DEF PostNames, BothNames
<1>4. SoldNames \cap Unlisted = {}
  BY DEF SoldNames, PostNames, BothNames, Unlisted
<1> QED BY <1>1, <1>2, <1>3, <1>4

\* The routes of the core are those for sale and those whose flags are off.
LEMMA CoreIs == CoreRoutes = SoldNames \cup Unlisted
<1>1. \A k \in Listed : k[2][1] \in SoldNames
  BY ListedIs, Parts DEF SoldNames
<1>2. \A r \in SoldNames : PostOf(r) \in Listed /\ PostOf(r)[2][1] = r
  BY ListedIs, Parts
<1> QED BY <1>1, <1>2 DEF CoreRoutes

\* The rest of what is served: engines' routes, pages, samples, and the trust
\* kit's operations
PageNames == WellKnown \cup DiscoveryNames \cup SchemaNames \cup SocialNames
SampleNames == Validators \cup {"tool-result-digest"} \cup SocialSamples
Validates == {<<"POST", <<v, "validate">>>> : v \in Validators}
Special ==
    {<<"POST", <<"relationship-memory", "store">>>>, <<"GET", <<"relationship-memory", "retrieve">>>>,
     <<"GET", <<"coordination-thread", "retrieve">>>>, <<"POST", <<"tool-result-verify">>>>}
HeadNames ==
    ComputeRoutes \cup BaseRoutes \cup PageNames \cup SampleNames \cup {"contact", "mcp", "tool-result-verify"}

\* The rest, sorted by kind
LEMMA ElsewhereIs ==
    Elsewhere = Both(ComputeRoutes \cup BaseRoutes) \cup Samples(ComputeRoutes \cup BaseRoutes)
                \cup Pages(PageNames) \cup Samples(SampleNames) \cup Validates \cup Special
                \cup Post({"relationship-memory", "tool-result-digest"}) \cup Post({"accueil", "contact", "mcp"})
<1>1. Pages(PageNames) = Pages(WellKnown \cup DiscoveryNames) \cup Pages(SchemaNames) \cup Pages(SocialNames)
  BY DEF Pages, PageNames
<1>2. Samples(SampleNames) = Samples(Validators) \cup Samples({"tool-result-digest"}) \cup Samples(SocialSamples)
  BY DEF Samples, SampleNames
<1>3. TrustKitPages = Validates \cup Samples(Validators) \cup Special
                      \cup Post({"relationship-memory", "tool-result-digest"}) \cup Samples({"tool-result-digest"})
  BY DEF TrustKitPages, Validates, Special
<1> QED BY <1>1, <1>2, <1>3 DEF Elsewhere, EngineHandlers, DiscoveryPages, SchemaPages, SocialPages

\* The first segment of each is one of the head names.
LEMMA Heads == \A op \in Elsewhere : op[2][1] \in HeadNames /\ Head(op[2]) = op[2][1]
<1> SUFFICES ASSUME NEW op \in Elsewhere PROVE op[2][1] \in HeadNames /\ Head(op[2]) = op[2][1]
  OBVIOUS
<1>1. ASSUME NEW r \in HeadNames, op = PostOf(r) \/ op = GetOf(r) \/ op = SampleOf(r)
      PROVE  op[2][1] \in HeadNames /\ Head(op[2]) = op[2][1]
  BY <1>1, Parts
<1>2. CASE op \in Both(ComputeRoutes \cup BaseRoutes) \cup Samples(ComputeRoutes \cup BaseRoutes)
  BY <1>1, <1>2, Members DEF HeadNames
<1>3. CASE op \in Pages(PageNames) \cup Samples(SampleNames)
  BY <1>1, <1>3, Members DEF HeadNames
<1>4. CASE op \in Post({"relationship-memory", "tool-result-digest"}) \cup Post({"accueil", "contact", "mcp"})
  <2>1. {"relationship-memory", "tool-result-digest"} \cup {"accueil", "contact", "mcp"} \subseteq HeadNames
    BY DEF HeadNames, SampleNames, SocialSamples, Validators
  <2> QED BY <1>1, <1>4, <2>1, Members
<1>5. CASE op \in Validates
  <2>1. PICK v \in Validators : op = <<"POST", <<v, "validate">>>>
    BY <1>5 DEF Validates
  <2>2. op[2][1] = v /\ Head(op[2]) = v
    BY <2>1
  <2> QED BY <2>2 DEF HeadNames, SampleNames
<1>6. CASE op \in Special
  <2>1. {"relationship-memory", "coordination-thread", "tool-result-verify"} \subseteq HeadNames
    BY DEF HeadNames, SampleNames, Validators
  <2>2. PICK v \in {"relationship-memory", "coordination-thread", "tool-result-verify"} :
            op[2][1] = v /\ Head(op[2]) = v
    BY <1>6 DEF Special
  <2> QED BY <2>1, <2>2
<1> QED BY ElsewhereIs, <1>2, <1>3, <1>4, <1>5, <1>6

\* The head names are not those of the core.
LEMMA HeadsApart == HeadNames \cap (SoldNames \cup Unlisted) = {}
<1> DEFINE core == SoldNames \cup Unlisted
<1>1. core \cap (ComputeRoutes \cup BaseRoutes \cup {"contact", "mcp", "tool-result-verify"}) = {}
  BY DEF SoldNames, PostNames, BothNames, Unlisted, ComputeRoutes, BaseRoutes
<1>2. core \cap WellKnown = {}
  BY DEF SoldNames, PostNames, BothNames, Unlisted, WellKnown
<1>3. core \cap DiscoveryNames = {}
  BY DEF SoldNames, PostNames, BothNames, Unlisted, DiscoveryNames
<1>4. core \cap SchemaNames = {}
  BY DEF SoldNames, PostNames, BothNames, Unlisted, SchemaNames
<1>5. core \cap SocialNames = {}
  BY DEF SoldNames, PostNames, BothNames, Unlisted, SocialNames
<1>6. core \cap SampleNames = {}
  BY DEF SoldNames, PostNames, BothNames, Unlisted, SampleNames, Validators, SocialSamples
<1> HIDE DEF core
<1>7. HeadNames \cap core = {}
  BY <1>1, <1>2, <1>3, <1>4, <1>5, <1>6 DEF HeadNames, PageNames
<1> QED BY <1>7 DEF core

\* A route sold by hand has its GET and its sample from the core alone.
LEMMA SoldNotElsewhere ==
    \A r \in SoldNames : GetOf(r) \notin Elsewhere /\ SampleOf(r) \notin Elsewhere
BY Heads, HeadsApart, Parts

\* A generated route is none of them (CatalogueAssumption).
LEMMA UsineApart ==
    \A u \in Usine : /\ u \notin SoldNames /\ u \notin Unlisted
                     /\ \A op \in Elsewhere : op[2][1] # u
<1> SUFFICES ASSUME NEW u \in Usine
             PROVE  u \notin SoldNames /\ u \notin Unlisted /\ \A op \in Elsewhere : op[2][1] # u
  OBVIOUS
<1> DEFINE Named == {op[2][1] : op \in Both(CoreRoutes) \cup Elsewhere}
<1>1. u \notin Named
  BY CatalogueAssumption
<1>2. GetOf(u) \notin Both(CoreRoutes) /\ \A op \in Elsewhere : op[2][1] # u
  BY <1>1, Parts
<1> QED BY <1>2, CoreIs, GetsIn
-----------------------------------------------------------------------------
(* What one version sells and serves *)

\* An edited route is for sale (CatalogueAssumption), and its GET is listed or
\* twinned.
LEMMA TouchedSold == Touched \subseteq SoldNames /\ \A r \in Touched : r \in Twins \/ r \in BothNames
<1>1. \A k \in Listed : k[2][1] \in SoldNames
  BY ListedIs, Parts DEF SoldNames
<1>2. Touched \subseteq SoldNames
  BY <1>1, CatalogueAssumption
<1> QED BY <1>2, Twinned DEF SoldNames

\* Names: the routes one version sells; Twin: those it sells by GET too,
\* engines apart.
Gone == {"off", "withdrawn", "dropped"}
Names(b) == (SoldNames \ Edited(b, Gone)) \cup live_routes(b) \cup ComputeRoutes \cup BaseRoutes
Twin(b) == {r \in SoldNames \ Edited(b, Gone) : r \in BothNames \/ r \in Twins \ Edited(b, {"untwinned"})}

\* What an answer says of the operation
LEMMA AnswerIs ==
    ASSUME NEW b, NEW T, NEW H, NEW op
    PROVE  /\ op \in T => Answer(b, T, H, op) \in {402, 410}
           /\ op \in T /\ ~match_retired(b, op[2]) => Answer(b, T, H, op) = 402
           /\ match_retired(b, op[2]) => Answer(b, T, H, op) = 410
           /\ Answer(b, T, H, op) = 200 => op \in H /\ op \notin T
           /\ Answer(b, T, H, op) = 402 => op \in T
           /\ ~match_retired(b, op[2]) /\ op \notin T /\ op \in H => Answer(b, T, H, op) = 200
<1>1. CASE match_retired(b, op[2])
  BY <1>1 DEF Answer
<1>2. CASE ~match_retired(b, op[2]) /\ op \in T
  BY <1>2 DEF Answer
<1>3. CASE ~match_retired(b, op[2]) /\ op \notin T /\ op \in H
  BY <1>3 DEF Answer
<1>4. CASE ~match_retired(b, op[2]) /\ op \notin T /\ op \notin H
  <2>1. Answer(b, T, H, op) \in {405, 404}
    BY <1>4 DEF Answer
  <2> QED BY <2>1, <1>4
<1> QED BY <1>1, <1>2, <1>3, <1>4

\* The table of priced routes, name by name
LEMMA InPriced ==
    ASSUME NEW b
    PROVE  /\ \A r : PostOf(r) \in Priced(b) <=> r \in Names(b)
           /\ \A r : GetOf(r) \in Priced(b) <=> r \in Twin(b) \/ r \in ComputeRoutes \cup BaseRoutes
           /\ \A k \in Priced(b) : \E r \in Names(b) : k = PostOf(r) \/ k = GetOf(r)
<1> DEFINE posts == Listed \ Both(Edited(b, Gone))
<1>1. /\ \A r : PostOf(r) \in posts <=> r \in SoldNames \ Edited(b, Gone)
      /\ \A r : GetOf(r) \in posts <=> r \in BothNames \ Edited(b, Gone)
      /\ \A k \in posts : \E r : k = PostOf(r) \/ k = GetOf(r)
  BY ListedIs, Distinct, PostsIn, GetsIn DEF SoldNames
<1> DEFINE twins == {k \in Both(Twins \ Edited(b, {"untwinned"})) : <<"POST", k[2]>> \in posts}
<1>2. _core_route_configs(b) = posts \cup twins
  BY DEF _core_route_configs, Gone
<1> HIDE DEF posts
<1>3. /\ \A r : PostOf(r) \in twins => PostOf(r) \in posts
      /\ \A r : GetOf(r) \in twins <=> r \in Twins \ Edited(b, {"untwinned"}) /\ PostOf(r) \in posts
      /\ \A k \in twins : \E r : (k = PostOf(r) \/ k = GetOf(r)) /\ PostOf(r) \in posts
  <2>1. \A r : PostOf(r) = <<"POST", PostOf(r)[2]>> /\ PostOf(r) = <<"POST", GetOf(r)[2]>>
    BY Parts DEF PostOf
  <2>2. \A k \in twins : \E r : (k = PostOf(r) \/ k = GetOf(r)) /\ PostOf(r) \in posts
    BY <2>1, Members
  <2>3. \A r : PostOf(r) \in twins => PostOf(r) \in posts
    BY <2>1
  <2>4. \A r : GetOf(r) \in twins <=> GetOf(r) \in Both(Twins \ Edited(b, {"untwinned"})) /\ PostOf(r) \in posts
    BY <2>1
  <2>5. \A r : GetOf(r) \in twins <=> r \in Twins \ Edited(b, {"untwinned"}) /\ PostOf(r) \in posts
    BY <2>4, GetsIn
  <2> HIDE DEF twins
  <2> QED BY <2>2, <2>3, <2>5
<1> HIDE DEF twins
<1>4. Priced(b) = posts \cup twins \cup Post(live_routes(b)) \cup Both(ComputeRoutes) \cup Both(BaseRoutes)
  BY <1>2 DEF Priced, _build_route_configs_uncached, build_dynamic_route_configs, build_compute_route_configs,
              build_rpc_route_configs
<1>5. \A r : PostOf(r) \in Priced(b) <=> r \in Names(b)
  BY <1>1, <1>3, <1>4, PostsIn DEF Names
<1>6. \A r : GetOf(r) \in Priced(b) <=> r \in Twin(b) \/ r \in ComputeRoutes \cup BaseRoutes
  BY <1>1, <1>3, <1>4, GetsIn DEF Twin, SoldNames
<1>7. \A k \in Priced(b) : \E r : k = PostOf(r) \/ k = GetOf(r)
  BY <1>1, <1>3, <1>4, Members
<1>8. \A r : GetOf(r) \in Priced(b) => r \in Names(b)
  BY <1>6 DEF Twin, Names
<1> QED BY <1>5, <1>6, <1>7, <1>8

\* Its paths
LEMMA CatalogIs ==
    ASSUME NEW b \in Builds
    PROVE  /\ Catalog[b] = Paths(Priced(b))
           /\ \A path : path \in Catalog[b] <=> \E r \in Names(b) : path = <<r>>
<1>1. \A k \in Priced(b) : \E r \in Names(b) : k[2] = <<r>>
  BY InPriced, Parts
<1>2. \A r \in Names(b) : PostOf(r) \in Priced(b) /\ PostOf(r)[2] = <<r>>
  BY InPriced, Parts
<1>3. Catalog[b] = Paths(Priced(b))
  BY DEF Catalog
<1> QED BY <1>1, <1>2, <1>3 DEF Paths

\* What has a handler
LEMMA Handled ==
    ASSUME NEW b
    PROVE  /\ \A r : GetOf(r) \in Handlers(b)
                    <=> r \in CoreRoutes \ Edited(b, {"dropped", "deaf"}) \/ GetOf(r) \in Elsewhere
           /\ \A r : SampleOf(r) \in Handlers(b)
                    => \/ r \in CoreRoutes \ Edited(b, {"dropped", "sampleless"}) \/ r \in live_routes(b)
                       \/ SampleOf(r) \in Elsewhere
           /\ \A r \in Names(b) : PostOf(r) \in Handlers(b)
<1>1. \A r : r \in Edited(b, {"dropped", "deaf"}) <=> r \in Edited(b, {"dropped"}) \/ r \in Edited(b, {"deaf"})
  BY DEF Edited
<1>2. Handlers(b) = CoreHandlers(b) \cup GeneratedHandlers(b) \cup Elsewhere
  BY DEF Handlers, Elsewhere
<1> DEFINE deaf == {<<"GET", <<r>>>> : r \in Edited(b, {"deaf"})}
<1>3. deaf = Pages(Edited(b, {"deaf"}))
  BY DEF Pages
<1>4. \A r : GetOf(r) \in Handlers(b)
                <=> r \in CoreRoutes \ Edited(b, {"dropped", "deaf"}) \/ GetOf(r) \in Elsewhere
  BY <1>1, <1>2, <1>3, GetsIn DEF CoreHandlers, GeneratedHandlers
<1>5. \A r : SampleOf(r) \in Handlers(b)
                => \/ r \in CoreRoutes \ Edited(b, {"dropped", "sampleless"}) \/ r \in live_routes(b)
                   \/ SampleOf(r) \in Elsewhere
  BY <1>2, <1>3, SamplesIn DEF CoreHandlers, GeneratedHandlers
<1>6. ASSUME NEW r \in Names(b) PROVE PostOf(r) \in Handlers(b)
  <2>1. CASE r \in SoldNames \ Edited(b, Gone)
    <3>1. r \in CoreRoutes \ Edited(b, {"dropped"})
      BY <2>1, CoreIs DEF Gone, Edited
    <3> QED BY <3>1, <1>2, <1>3, PostsIn DEF CoreHandlers
  <2>2. CASE r \in live_routes(b)
    BY <2>2, <1>2, PostsIn DEF GeneratedHandlers
  <2>3. CASE r \in ComputeRoutes \cup BaseRoutes
    BY <2>3, <1>2, PostsIn DEF EngineHandlers, Elsewhere
  <2> QED BY <2>1, <2>2, <2>3 DEF Names
<1> QED BY <1>4, <1>5, <1>6

\* Builds, as a set of records
BuildType == [slugs : [Usine -> Statuses], work : [Touched -> Works]]

LEMMA BuildsAre == Builds = BuildType
<1>1. ASSUME NEW b \in BuildType PROVE b \in Builds
  <2>1. /\ b = [slugs |-> b.slugs, work |-> b.work]
        /\ b.slugs \in [Usine -> Statuses] /\ b.work \in [Touched -> Works]
    BY DEF BuildType
  <2> QED BY <2>1 DEF Builds
<1>2. ASSUME NEW b \in Builds PROVE b \in BuildType
  BY DEF Builds, BuildType
<1> QED BY <1>1, <1>2

-----------------------------------------------------------------------------
(* One version, and two.  A version works when each of its edited routes is *)
(* sold or withdrawn, or broken where the checks do not look: what an earlier*)
(* version sold, it sells or has withdrawn.                                 *)

\* Every edited route is sold or withdrawn, or has what the checks do not look
\* at: a GET outside the paid modules, the sample of discover.
Unseen(r, w) == (w = "untwinned" /\ r \notin PaidModules) \/ (w = "sampleless" /\ r = "discover")
Working(b) == \A r \in Touched : b.work[r] \in {"sold", "withdrawn"} \/ Unseen(r, b.work[r])

\* The statuses of the registry only move on.
Grown(b, c) ==
    \A u \in Usine : /\ b.slugs[u] = "live" => c.slugs[u] \in {"live", "retired"}
                     /\ b.slugs[u] = "retired" => c.slugs[u] = "retired"

\* A withdrawn route is still withdrawn, or sold again.
Remembers(b, c) ==
    \A r \in Touched : b.work[r] = "withdrawn" => c.work[r] \in {"withdrawn", "sold"}

\* A GET of what is sold is charged for, or not handled, or overlooked.
LEMMA NotGiven ==
    ASSUME NEW b \in Builds, Working(b), NEW r \in Names(b)
    PROVE  GetOf(r) \in Priced(b) \/ GetOf(r) \notin Handlers(b) \/ r \in Overlooked(b)
<1>1. CASE r \in SoldNames \ Edited(b, Gone)
  <2>1. CASE r \in BothNames
    BY <1>1, <2>1, InPriced DEF Twin
  <2>2. CASE r \notin BothNames /\ r \notin Edited(b, {"untwinned"})
    <3>1. r \in Twins
      BY <1>1, <2>2, Twinned DEF SoldNames
    <3> QED BY <1>1, <2>2, <3>1, InPriced DEF Twin
  <2>3. CASE r \notin BothNames /\ r \in Edited(b, {"untwinned"})
    <3>1. r \notin PaidModules
      BY <2>3 DEF Edited, Working, Unseen
    <3>2. GetOf(r) \notin Listed
      BY <2>3, ListedIs, Distinct
    <3> QED BY <2>3, <3>1, <3>2 DEF Overlooked, GetOf
  <2> QED BY <2>1, <2>2, <2>3
<1>2. CASE r \in live_routes(b)
  <2>1. r \in Usine
    BY <1>2 DEF live_routes
  <2> QED BY <2>1, UsineApart, Handled, CoreIs, Parts
<1>3. CASE r \in ComputeRoutes \cup BaseRoutes
  BY <1>3, InPriced
<1> QED BY <1>1, <1>2, <1>3 DEF Names

\* What is paid for has a handler.
LEMMA Delivered ==
    ASSUME NEW b \in Builds, Working(b)
    PROVE  b \in Delivers
<1>1. ASSUME NEW r \in Names(b) PROVE PostOf(r) \in Handlers(b)
  BY Handled
<1>2. ASSUME NEW r, GetOf(r) \in Priced(b) PROVE GetOf(r) \in Handlers(b)
  <2>1. CASE r \in ComputeRoutes \cup BaseRoutes
    BY <2>1, Handled, GetsIn DEF Elsewhere, EngineHandlers
  <2>2. CASE r \in Twin(b)
    <3>1. r \in SoldNames \ Edited(b, Gone)
      BY <2>2 DEF Twin
    <3>2. r \notin Edited(b, {"deaf"})
      BY DEF Edited, Working, Unseen
    <3>3. r \in CoreRoutes \ Edited(b, {"dropped", "deaf"})
      BY <3>1, <3>2, CoreIs DEF Edited, Gone
    <3> QED BY <3>3, Handled
  <2> QED BY <1>2, <2>1, <2>2, InPriced
<1>3. \A k \in Priced(b) : \E r \in Names(b) : k = PostOf(r) \/ k = GetOf(r)
  BY InPriced
<1>4. Priced(b) \subseteq Handlers(b)
  BY <1>1, <1>2, <1>3
<1> QED BY <1>4 DEF Delivers

\* What one working version sold is sold or gone in a later one.
LEMMA StillSold ==
    ASSUME NEW old \in Builds, NEW new \in Builds, Working(old), Working(new), Grown(old, new)
    PROVE  Catalog[old] \subseteq Kept[new]
<1>1. ASSUME NEW r \in Names(old) PROVE r \in Names(new) \/ r \in RETIRED_ROUTES(new)
  <2>1. CASE r \in SoldNames \ Edited(old, Gone)
    <3>1. CASE r \in Touched
      <4>1. new.work[r] \in {"sold", "withdrawn", "untwinned", "sampleless"}
        BY <3>1 DEF Working, Unseen
      <4>2. CASE new.work[r] = "withdrawn"
        BY <3>1, <4>2 DEF RETIRED_ROUTES, HAND_RETIRED_ROUTES, Edited
      <4>3. CASE new.work[r] # "withdrawn"
        BY <2>1, <4>1, <4>3 DEF Names, Edited, Gone
      <4> QED BY <4>2, <4>3
    <3>2. CASE r \notin Touched
      BY <2>1, <3>2 DEF Names, Edited
    <3> QED BY <3>1, <3>2
  <2>2. CASE r \in live_routes(old)
    BY <2>2 DEF Grown, live_routes, Names, RETIRED_ROUTES
  <2>3. CASE r \in ComputeRoutes \cup BaseRoutes
    BY <2>3 DEF Names
  <2> QED BY <2>1, <2>2, <2>3 DEF Names
<1> DEFINE T == Priced(new)
           H == Handlers(new)
<1>2. ASSUME NEW r \in Names(old)
      PROVE  /\ Answer(new, T, H, PostOf(r)) \in {402, 410}
             /\ Answer(new, T, H, GetOf(r)) = 200 => r \in Overlooked(new)
  <2>1. CASE r \in RETIRED_ROUTES(new)
    <3>1. match_retired(new, PostOf(r)[2]) /\ match_retired(new, GetOf(r)[2])
      BY <2>1, Parts DEF match_retired
    <3> QED BY <3>1, AnswerIs
  <2>2. CASE r \in Names(new)
    <3>1. PostOf(r) \in T
      BY <2>2, InPriced
    <3>2. GetOf(r) \in T \/ GetOf(r) \notin H \/ r \in Overlooked(new)
      BY <2>2, NotGiven
    <3> QED BY <3>1, <3>2, AnswerIs
  <2> QED BY <1>1, <2>1, <2>2
<1> SUFFICES ASSUME NEW path \in Catalog[old] PROVE path \in Kept[new]
  OBVIOUS
<1>3. PICK r \in Names(old) : path = <<r>>
  BY CatalogIs
<1>4. <<"POST", path>> = PostOf(r) /\ <<"GET", path>> = GetOf(r) /\ Head(path) = r
  BY <1>3 DEF PostOf, GetOf
<1>5. /\ Answer(new, T, H, <<"POST", path>>) \in {402, 410}
      /\ Answer(new, T, H, <<"GET", path>>) = 200 => Head(path) \in Overlooked(new)
  BY <1>2, <1>4
<1>6. path \in Listings
  BY DEF Listings
<1>7. Kept[new] = {p \in Listings :
                      /\ Answer(new, T, H, <<"POST", p>>) \in {402, 410}
                      /\ Answer(new, T, H, <<"GET", p>>) = 200 => Head(p) \in Overlooked(new)}
  BY DEF Kept
<1> QED BY <1>5, <1>6, <1>7

\* The checks before a cutover, and the registry of retirements, let only
\* working versions through: each way of breaking a route fails one of them.
LEMMA ChecksSuffice ==
    ASSUME NEW old \in Builds, NEW new \in Builds, Working(old), Remembers(old, new),
           new \in Checked, <<old, new>> \in check_catalog_completeness
    PROVE  Working(new)
<1> SUFFICES ASSUME NEW r \in Touched, old.work[r] # "withdrawn"
             PROVE  new.work[r] \in {"sold", "withdrawn"} \/ Unseen(r, new.work[r])
  BY DEF Working, Remembers
<1> DEFINE T == Priced(new)
           H == Handlers(new)
<1>1. /\ check_catalog_samples(new, T, H) /\ check_runtime_gating(new, T, H)
      /\ check_get_delivery(T, H)
  BY DEF Checked
<1>2. r \in SoldNames /\ r \notin Unlisted /\ r \notin Usine /\ r \in CoreRoutes
  BY TouchedSold, Twinned, UsineApart, CoreIs DEF SoldNames
<1>3. GetOf(r) \notin Elsewhere /\ SampleOf(r) \notin Elsewhere
  BY <1>2, SoldNotElsewhere
<1>4. new.work[r] \in Works
  BY BuildsAre DEF BuildType
<1>5. ASSUME new.work[r] # "withdrawn" PROVE r \notin RETIRED_ROUTES(new)
  BY <1>2, <1>5 DEF RETIRED_ROUTES, HAND_RETIRED_ROUTES, Edited
<1>6. new.work[r] \notin {"off", "dropped"}
  <2> SUFFICES ASSUME new.work[r] \in {"off", "dropped"} PROVE FALSE
    OBVIOUS
  <2>1. r \in Names(old)
    BY <1>2 DEF Names, Edited, Gone, Working, Unseen
  <2>2. r \notin Names(new)
    <3>1. r \in Edited(new, Gone)
      BY DEF Edited, Gone
    <3>2. r \notin live_routes(new)
      BY <1>2 DEF live_routes
    <3>3. r \notin ComputeRoutes \cup BaseRoutes
      BY <1>2, HeadsApart DEF HeadNames
    <3> QED BY <3>1, <3>2, <3>3 DEF Names
  <2>3. <<r>> \in Catalog[old] \ Catalog[new]
    <3>1. \A q \in Names(new) : <<r>> # <<q>>
      BY <2>2
    <3> QED BY <2>1, <3>1, CatalogIs
  <2>4. match_retired(new, <<r>>)
    BY <2>3 DEF check_catalog_completeness
  <2> QED BY <2>4, <1>5 DEF match_retired
<1>7. ASSUME new.work[r] \notin {"off", "dropped", "withdrawn"} PROVE r \in Names(new)
  BY <1>2, <1>7 DEF Names, Edited, Gone
<1>8. new.work[r] # "deaf"
  <2> SUFFICES ASSUME new.work[r] = "deaf" PROVE FALSE
    OBVIOUS
  <2>1. r \in Twin(new)
    BY <1>2, TouchedSold DEF Twin, Edited, Gone
  <2>2. GetOf(r) \in T /\ GetOf(r)[1] = "GET"
    BY <2>1, InPriced, Parts
  <2>3. GetOf(r) \in H
    BY <1>1, <2>2 DEF check_get_delivery
  <2> QED BY <2>3, <1>3, Handled DEF Edited
<1>9. new.work[r] = "sampleless" => r = "discover"
  <2> SUFFICES ASSUME new.work[r] = "sampleless", r # "discover" PROVE FALSE
    OBVIOUS
  <2>1. <<r>> \in Paths(T)
    BY <1>7, CatalogIs
  <2>3. <<r>> # <<"discover">>
    OBVIOUS
  <2>4. SampleOf(r) = <<"GET", <<r>> \o <<"sample">>>>
    BY SampleAfter
  <2>5. Answer(new, T, H, SampleOf(r)) = 200
    <3>1. \A path \in Paths(T) \ {<<"discover">>} : Answer(new, T, H, <<"GET", path \o <<"sample">>>>) = 200
      BY <1>1, Zenon DEF check_catalog_samples
    <3>2. <<r>> \in Paths(T) \ {<<"discover">>}
      BY <2>1, <2>3
    <3>3. Answer(new, T, H, <<"GET", <<r>> \o <<"sample">>>>) = 200
      BY <3>1, <3>2, Zenon
    <3> QED BY <3>3, <2>4, Zenon
  <2>6. SampleOf(r) \in H
    BY <2>5, AnswerIs
  <2>7. r \notin live_routes(new)
    BY <1>2 DEF live_routes
  <2> QED BY <2>6, <2>7, <1>3, Handled DEF Edited
<1>10. new.work[r] = "untwinned" => r \notin PaidModules
  <2> SUFFICES ASSUME new.work[r] = "untwinned", r \in PaidModules PROVE FALSE
    OBVIOUS
  <2>1. r \in PaidModules /\ r \notin BothNames
    BY Twinned
  <2>2. GetOf(r) \in H
    BY <1>2, Handled DEF Edited
  <2>3. GetOf(r) \notin T
    <3>1. r \notin ComputeRoutes \cup BaseRoutes
      BY <1>2, HeadsApart DEF HeadNames
    <3>2. r \notin Twin(new)
      BY <2>1 DEF Twin, Edited
    <3> QED BY <3>1, <3>2, InPriced
  <2>4. ~match_retired(new, GetOf(r)[2])
    BY <1>5, Parts DEF match_retired
  <2>5. Answer(new, T, H, GetOf(r)) = 402
    BY <1>1, <2>1, <2>2, <2>4, GetsIn DEF check_runtime_gating, Expected
  <2> QED BY <2>3, <2>5, AnswerIs
<1> QED BY <1>4, <1>6, <1>8, <1>9, <1>10 DEF Works, Unseen

-----------------------------------------------------------------------------
(* The inductive invariant.  Only working versions reach the traffic, and the *)
(* registry of slugs grows from the versions accepted, through the slots, to  *)
(* the checkout.                                                              *)

Processes == [build : Builds, phase : {"stopped", "starting", "ready"}, replaced : BOOLEAN]

SlotTypes ==
    /\ tree \in Builds /\ image \in Builds /\ accepted \in Builds /\ versions \subseteq Builds
    /\ slot \in [Slots -> Processes] /\ live \in Slots
    /\ step \in {"idle", "started", "checked", "cut"}

\* The live version works, and the next one once it has been checked; the last
\* one accepted is what the Fossoyeur rebuilds.
AllWork ==
    /\ Working(accepted) /\ Working(slot[live].build) /\ \A v \in versions : Working(v)
    /\ step \in {"checked", "cut"} => Working(slot[Target].build)

\* From the versions to the live slot, to the next one, to the checkout
Grows ==
    /\ \A s \in Slots : Grown(slot[s].build, tree)
    /\ Grown(accepted, tree)
    /\ \A v \in versions : Grown(v, slot[live].build)
    /\ step = "cut" => \A v \in versions : Grown(v, slot[Target].build)
    /\ step \in {"started", "checked"} => Grown(slot[live].build, slot[Target].build)

\* A route that runs withdrawn has not been broken in the checkout, nor in the
\* version the checks are about to compare with the live one.
RegistryKept ==
    /\ \A s \in Slots : Remembers(slot[s].build, tree)
    /\ Remembers(accepted, tree)
    /\ step = "started" => Remembers(slot[live].build, slot[Target].build)

SlotsInv == SlotTypes /\ AllWork /\ Grows /\ RegistryKept

\* There are two slots, the live one and the target.
LEMMA TwoSlots ==
    /\ Slots = {"blue", "green"}
    /\ live \in Slots => /\ Target \in Slots /\ Target # live
                         /\ \A s \in Slots : s = live \/ s = Target
<1>1. Slots = {"blue", "green"}
  BY DEF Slots
<1>2. ASSUME live \in Slots PROVE Target \in Slots /\ Target # live
  <2>1. \E s \in Slots : s # live
    BY <1>1
  <2> QED BY <2>1 DEF Target
<1> QED BY <1>1, <1>2

\* The traffic that moves swaps them.
LEMMA TargetMoves ==
    ASSUME live \in Slots
    PROVE  /\ live' = live => Target' = Target
           /\ live' = Target => Target' = live
<1>1. live' = live => Target' = Target
  BY DEF Target
<1>2. ASSUME live' = Target PROVE Target' = live
  <2>1. \E s \in Slots : s # live'
    BY TwoSlots, <1>2
  <2>2. Target' \in Slots /\ Target' # live'
    BY <2>1 DEF Target
  <2> QED BY <2>2, <1>2, TwoSlots
<1> QED BY <1>1, <1>2

\* The registry's order of versions is reflexive and transitive.
LEMMA GrownOrder ==
    /\ \A b \in Builds : Grown(b, b)
    /\ \A a, b, c \in Builds : Grown(a, b) /\ Grown(b, c) => Grown(a, c)
BY BuildsAre DEF Grown, BuildType, Statuses

\* A version has not forgotten its own retirements.
LEMMA RemembersItself == \A b \in Builds : Remembers(b, b)
BY DEF Remembers

\* Whether a version works depends on the edited routes alone.
LEMMA WorkingByWork == ASSUME NEW a, NEW b, a.work = b.work, Working(a) PROVE Working(b)
BY DEF Working

\* The first version works, and every other has grown from it.
LEMMA OffWorks == /\ Off \in Processes /\ Working(Off.build)
                  /\ \A b \in Builds : Grown(Off.build, b) /\ Remembers(Off.build, b)
<1>1. Off.build = [slugs |-> [u \in Usine |-> "none"], work |-> [r \in Touched |-> "sold"]]
  BY DEF Off, Process
<1>2. Off.build \in Builds
  BY <1>1, BuildsAre DEF BuildType, Statuses, Works
<1>3. Off \in Processes
  BY <1>2 DEF Off, Process, Processes
<1> QED BY <1>1, <1>3 DEF Working, Grown, Remembers

\* A process as it is created
LEMMA ProcessTypes ==
    \A b \in Builds, phase \in {"stopped", "starting", "ready"}, replaced \in BOOLEAN :
        Process(b, phase, replaced) \in Processes /\ Process(b, phase, replaced).build = b
BY DEF Process, Processes

\* The invariant holds at first.
LEMMA SlotsInit == Init => SlotsInv
<1> SUFFICES ASSUME Init PROVE SlotsInv
  OBVIOUS
<1> DEFINE first == Process(Off.build, "ready", FALSE)
<1>1. Off.build \in Builds
  BY OffWorks DEF Processes
<1>2. first \in Processes /\ first.build = Off.build
  BY <1>1, ProcessTypes
<1>3. /\ slot = [s \in Slots |-> IF s = "blue" THEN first ELSE Off]
      /\ tree = Off.build /\ image = Off.build /\ accepted = Off.build /\ versions = {Off.build}
      /\ live = "blue" /\ step = "idle"
  BY DEF Init
<1> HIDE DEF first
<1>4. live \in Slots
  BY <1>3, TwoSlots
<1>5. SlotTypes
  BY <1>1, <1>2, <1>3, <1>4, OffWorks DEF SlotTypes
<1>6. \A s \in Slots : slot[s].build = Off.build
  BY <1>2, <1>3
<1>7. AllWork /\ Grows /\ RegistryKept
  BY <1>1, <1>3, <1>4, <1>6, OffWorks DEF AllWork, Grows, RegistryKept
<1> QED BY <1>5, <1>7 DEF SlotsInv

\* A change of the checkout alone keeps the invariant.
LEMMA TreeStep ==
    ASSUME SlotsInv, tree' \in Builds, UNCHANGED <<image, slot, live, step, accepted, versions>>,
           Grown(tree, tree'),
           \A b \in {slot[s].build : s \in Slots} \cup {accepted} : Remembers(b, tree')
    PROVE  SlotsInv'
<1>1. Target' = Target
  BY TargetMoves DEF SlotsInv, SlotTypes
<1>2. SlotTypes' /\ AllWork'
  BY <1>1 DEF SlotsInv, SlotTypes, AllWork
<1>3. \A s \in Slots : slot[s].build \in Builds
  BY DEF SlotsInv, SlotTypes, Processes
<1>4. (\A s \in Slots : Grown(slot[s].build, tree')) /\ Grown(accepted, tree')
  BY <1>3, GrownOrder DEF SlotsInv, SlotTypes, Grows
<1>5. Grows'
  BY <1>1, <1>4 DEF SlotsInv, Grows
<1>6. RegistryKept'
  BY <1>1 DEF SlotsInv, RegistryKept
<1> QED BY <1>2, <1>5, <1>6 DEF SlotsInv

\* So does a process that only changes its phase.
LEMMA PhaseStep ==
    ASSUME SlotsInv, NEW s \in Slots, NEW p \in Processes, Becomes(s, p), p.build = slot[s].build
    PROVE  SlotsInv'
<1>1. slot' = [slot EXCEPT ![s] = p] /\ UNCHANGED <<tree, image, live, step, accepted, versions>>
  BY DEF Becomes
<1>2. Target' = Target
  BY <1>1, TargetMoves DEF SlotsInv, SlotTypes
<1>3. \A t \in Slots : slot'[t].build = slot[t].build /\ (t # s => slot'[t] = slot[t])
  BY <1>1 DEF SlotsInv, SlotTypes
<1>4. SlotTypes'
  BY <1>1 DEF SlotsInv, SlotTypes
<1>5. AllWork' /\ Grows' /\ RegistryKept'
  BY <1>1, <1>2, <1>3, TwoSlots DEF SlotsInv, SlotTypes, AllWork, Grows, RegistryKept
<1> QED BY <1>4, <1>5 DEF SlotsInv

\* Every step keeps it.
LEMMA SlotsStep == ASSUME ~UncheckedEdits, SlotsInv, [Next]_vars PROVE SlotsInv'
<1>a. /\ live \in Slots /\ Target \in Slots /\ Target # live /\ \A s \in Slots : s = live \/ s = Target
  BY TwoSlots DEF SlotsInv, SlotTypes
<1>b. \A s \in Slots : slot[s] \in Processes /\ slot[s].build \in Builds
  BY DEF SlotsInv, SlotTypes, Processes
<1>c. slot \in [Slots -> Processes] /\ tree \in Builds /\ accepted \in Builds /\ versions \subseteq Builds
  BY DEF SlotsInv, SlotTypes
<1>1. ASSUME NEW r \in Touched, NEW w \in Works, Edit(r, w) PROVE SlotsInv'
  <2>1. /\ tree' = [tree EXCEPT !.work[r] = w] /\ UNCHANGED <<image, slot, live, step, accepted, versions>>
        /\ \A b \in {slot[s].build : s \in Slots} \cup {accepted} : b.work[r] = "withdrawn" => w = "sold"
    BY <1>1 DEF Edit
  <2>2. /\ tree' \in Builds /\ tree'.slugs = tree.slugs
        /\ tree'.work = [tree.work EXCEPT ![r] = w] /\ tree.work \in [Touched -> Works]
    BY <2>1, <1>c, BuildsAre DEF BuildType
  <2>3. Grown(tree, tree')
    BY <2>2 DEF Grown
  <2>4. \A b \in {slot[s].build : s \in Slots} \cup {accepted} : Remembers(b, tree')
    <3> SUFFICES ASSUME NEW b \in {slot[s].build : s \in Slots} \cup {accepted}, NEW q \in Touched,
                        b.work[q] = "withdrawn"
                 PROVE  tree'.work[q] \in {"withdrawn", "sold"}
      BY DEF Remembers
    <3>1. Remembers(b, tree)
      BY DEF SlotsInv, RegistryKept
    <3> QED BY <3>1, <2>1, <2>2 DEF Remembers
  <2> QED BY <2>1, <2>2, <2>3, <2>4, TreeStep
<1>2. ASSUME NEW u \in Usine, Publish(u) \/ kill_dead_routes(u) PROVE SlotsInv'
  <2>1. /\ \/ tree.slugs[u] = "none" /\ tree' = [tree EXCEPT !.slugs[u] = "live"]
           \/ tree.slugs[u] = "live" /\ tree' = [tree EXCEPT !.slugs[u] = "retired"]
        /\ UNCHANGED <<image, slot, live, step, accepted, versions>>
    BY <1>2 DEF Publish, kill_dead_routes
  <2>2. /\ tree' \in Builds /\ tree'.work = tree.work /\ tree.slugs \in [Usine -> Statuses]
        /\ \/ tree.slugs[u] = "none" /\ tree'.slugs = [tree.slugs EXCEPT ![u] = "live"]
           \/ tree.slugs[u] = "live" /\ tree'.slugs = [tree.slugs EXCEPT ![u] = "retired"]
    BY <2>1, <1>c, BuildsAre DEF BuildType, Statuses
  <2>3. Grown(tree, tree')
    BY <2>2 DEF Grown
  <2>4. \A b \in {slot[s].build : s \in Slots} \cup {accepted} : Remembers(b, tree')
    BY <2>2 DEF SlotsInv, RegistryKept, Remembers
  <2> QED BY <2>1, <2>2, <2>3, <2>4, TreeStep
<1>3. ASSUME NEW s \in Slots, Starts(s) \/ Restarts(s) PROVE SlotsInv'
  <2>1. PICK phase \in {"starting", "ready"} : Becomes(s, [slot[s] EXCEPT !.phase = phase])
    BY <1>3 DEF Starts, Restarts
  <2>2. [slot[s] EXCEPT !.phase = phase] \in Processes /\ [slot[s] EXCEPT !.phase = phase].build = slot[s].build
    BY <1>b DEF Processes
  <2> QED BY <2>1, <2>2, PhaseStep
<1>4. CASE StartDeploy
  <2> DEFINE p == IF slot[Target].phase # "stopped" /\ slot[Target].build = tree
                  THEN [slot[Target] EXCEPT !.replaced = FALSE] ELSE Process(tree, "starting", FALSE)
  <2>1. /\ slot' = [slot EXCEPT ![Target] = p] /\ image' = tree /\ step' = "started"
        /\ UNCHANGED <<tree, live, accepted, versions>>
    BY <1>4 DEF StartDeploy
  <2>2. p \in Processes /\ p.build = tree
    <3>1. CASE slot[Target].phase # "stopped" /\ slot[Target].build = tree
      BY <1>a, <1>b, <3>1 DEF Processes
    <3>2. CASE ~(slot[Target].phase # "stopped" /\ slot[Target].build = tree)
      BY <1>c, <3>2, ProcessTypes
    <3> QED BY <3>1, <3>2
  <2> HIDE DEF p
  <2>3. Target' = Target
    BY <1>a, <2>1, TargetMoves
  <2>4. slot'[live] = slot[live] /\ slot'[Target] = p
    BY <1>a, <1>c, <2>1
  <2>5. SlotTypes'
    BY <2>1, <2>2 DEF SlotsInv, SlotTypes
  <2>6. AllWork'
    BY <2>1, <2>3, <2>4 DEF SlotsInv, AllWork
  <2>7. Grows'
    BY <1>a, <1>c, <2>1, <2>2, <2>3, <2>4, GrownOrder DEF SlotsInv, Grows
  <2>8. RegistryKept'
    BY <1>a, <1>c, <2>1, <2>2, <2>3, <2>4, RemembersItself DEF SlotsInv, RegistryKept
  <2> QED BY <2>5, <2>6, <2>7, <2>8 DEF SlotsInv
<1>5. CASE precutover_check
  <2>1. /\ step = "started" /\ step' = "checked" /\ slot[Target].build \in Checked
        /\ <<slot[live].build, slot[Target].build>> \in check_catalog_completeness
        /\ UNCHANGED <<tree, image, slot, live, accepted, versions>>
    BY <1>5 DEF precutover_check
  <2>2. Target' = Target
    BY <1>a, <2>1, TargetMoves
  <2>3. Working(slot[Target].build)
    BY <1>a, <1>b, <2>1, ChecksSuffice DEF SlotsInv, AllWork, RegistryKept
  <2>4. SlotTypes'
    BY <2>1 DEF SlotsInv, SlotTypes
  <2>5. AllWork' /\ Grows' /\ RegistryKept'
    BY <2>1, <2>2, <2>3 DEF SlotsInv, AllWork, Grows, RegistryKept
  <2> QED BY <2>4, <2>5 DEF SlotsInv
<1>6. CASE DeployFails
  <2>1. /\ step' = "idle" /\ slot' = [slot EXCEPT ![Target] = Off]
        /\ UNCHANGED <<tree, image, live, accepted, versions>>
    BY <1>6 DEF DeployFails
  <2>2. Target' = Target /\ slot'[live] = slot[live] /\ slot'[Target] = Off
    BY <1>a, <1>c, <2>1, TargetMoves
  <2>3. SlotTypes'
    BY <2>1, OffWorks DEF SlotsInv, SlotTypes
  <2>4. AllWork' /\ Grows' /\ RegistryKept'
    BY <1>a, <1>c, <2>1, <2>2, OffWorks DEF SlotsInv, AllWork, Grows, RegistryKept
  <2> QED BY <2>3, <2>4 DEF SlotsInv
<1>7. CASE Cutover
  <2>1. step = "checked" /\ step' = "cut" /\ live' = Target /\ UNCHANGED <<tree, image, slot, accepted, versions>>
    BY <1>7 DEF Cutover
  <2>2. Target' = live
    BY <1>a, <2>1, TargetMoves
  <2>3. SlotTypes'
    BY <1>a, <2>1 DEF SlotsInv, SlotTypes
  <2>4. \A v \in versions : Grown(v, slot[Target].build)
    BY <1>a, <1>b, <1>c, <2>1, GrownOrder DEF SlotsInv, Grows
  <2>5. AllWork' /\ Grows' /\ RegistryKept'
    BY <2>1, <2>2, <2>4 DEF SlotsInv, AllWork, Grows, RegistryKept
  <2> QED BY <2>3, <2>5 DEF SlotsInv
<1>8. CASE NginxRefuses
  <2>1. step' = "idle" /\ UNCHANGED <<tree, image, slot, live, accepted, versions>>
    BY <1>8 DEF NginxRefuses
  <2>2. Target' = Target
    BY <1>a, <2>1, TargetMoves
  <2> QED BY <2>1, <2>2 DEF SlotsInv, SlotTypes, AllWork, Grows, RegistryKept
<1>9. CASE post_cutover_watch
  <2>1. /\ step' = "idle" /\ slot' = [slot EXCEPT ![Target] = Off]
        /\ accepted' = slot[live].build /\ versions' = versions \cup {slot[live].build}
        /\ UNCHANGED <<tree, image, live>>
    BY <1>9 DEF post_cutover_watch
  <2>2. Target' = Target /\ slot'[live] = slot[live] /\ slot'[Target] = Off
    BY <1>a, <1>c, <2>1, TargetMoves
  <2>3. SlotTypes'
    BY <1>a, <1>b, <2>1, OffWorks DEF SlotsInv, SlotTypes
  <2>4. AllWork'
    BY <1>a, <2>1, <2>2 DEF SlotsInv, AllWork
  <2>5. Grows'
    BY <1>a, <1>b, <1>c, <2>1, <2>2, OffWorks, GrownOrder DEF SlotsInv, Grows
  <2>6. RegistryKept'
    BY <1>a, <1>c, <2>1, <2>2, OffWorks DEF SlotsInv, RegistryKept
  <2> QED BY <2>3, <2>4, <2>5, <2>6 DEF SlotsInv
<1>10. CASE RollBack
  <2>1. /\ step = "cut" /\ step' = "idle" /\ live' = Target /\ slot' = [slot EXCEPT ![live] = Off]
        /\ UNCHANGED <<tree, image, accepted, versions>>
    BY <1>10 DEF RollBack
  <2>2. Target' = live /\ slot'[live] = Off /\ slot'[Target] = slot[Target]
    BY <1>a, <1>c, <2>1, TargetMoves
  <2>3. SlotTypes'
    BY <1>a, <2>1, OffWorks DEF SlotsInv, SlotTypes
  <2>4. AllWork' /\ Grows' /\ RegistryKept'
    BY <1>a, <1>c, <2>1, <2>2, OffWorks DEF SlotsInv, AllWork, Grows, RegistryKept
  <2> QED BY <2>3, <2>4 DEF SlotsInv
<1>11. CASE Redeploys
  <2> DEFINE p == Process(tree, "starting", TRUE)
  <2>1. /\ tree.work = accepted.work /\ slot' = [s \in Slots |-> p] /\ image' = tree
        /\ UNCHANGED <<tree, live, step, accepted, versions>>
    BY <1>11 DEF Redeploys
  <2>2. p \in Processes /\ p.build = tree
    BY <1>c, ProcessTypes
  <2> HIDE DEF p
  <2>3. Target' = Target /\ \A s \in Slots : slot'[s] = p
    BY <1>a, <2>1, TargetMoves
  <2>4. Working(tree)
    BY <2>1, WorkingByWork DEF SlotsInv, AllWork
  <2>5. \A v \in versions : Grown(v, tree)
    BY <1>a, <1>b, <1>c, GrownOrder DEF SlotsInv, Grows
  <2>6. SlotTypes'
    BY <2>1, <2>2, <2>3 DEF SlotsInv, SlotTypes
  <2>7. AllWork' 
    BY <1>a, <2>1, <2>2, <2>3, <2>4 DEF SlotsInv, AllWork
  <2>8. Grows'
    BY <1>a, <1>c, <2>1, <2>2, <2>3, <2>5, GrownOrder DEF SlotsInv, Grows
  <2>9. RegistryKept'
    BY <1>a, <1>c, <2>1, <2>2, <2>3, RemembersItself DEF SlotsInv, RegistryKept
  <2> QED BY <2>6, <2>7, <2>8, <2>9 DEF SlotsInv
<1>12. CASE BuildFails
  <2>1. UNCHANGED <<tree, image, slot, live, step, accepted, versions>>
    BY <1>12 DEF BuildFails
  <2>2. Target' = Target
    BY <1>a, <2>1, TargetMoves
  <2> QED BY <2>1, <2>2 DEF SlotsInv, SlotTypes, AllWork, Grows, RegistryKept
<1>13. CASE UNCHANGED vars
  <2>1. UNCHANGED <<tree, image, slot, live, step, accepted, versions>>
    BY <1>13 DEF vars
  <2>2. Target' = Target
    BY <1>a, <2>1, TargetMoves
  <2> QED BY <2>1, <2>2 DEF SlotsInv, SlotTypes, AllWork, Grows, RegistryKept
<1> QED BY <1>1, <1>2, <1>3, <1>4, <1>5, <1>6, <1>7, <1>8, <1>9, <1>10, <1>11, <1>12, <1>13 DEF Next

-----------------------------------------------------------------------------
(* What was sold stays for sale or is gone for good *)

\* SlotsInv is enough for the property the run checks.
LEMMA SoldIs == SlotsInv => SoldIsPaidOrGone
<1> SUFFICES ASSUME SlotsInv
             PROVE  /\ slot[live].build \in Delivers
                    /\ \A old \in versions : Catalog[old] \subseteq Kept[slot[live].build]
  BY DEF SoldIsPaidOrGone
<1>1. slot[live].build \in Builds /\ Working(slot[live].build) /\ live \in Slots
  BY DEF SlotsInv, SlotTypes, Processes, AllWork
<1>2. \A old \in versions : Catalog[old] \subseteq Kept[slot[live].build]
  BY <1>1, StillSold DEF SlotsInv, SlotTypes, AllWork, Grows
<1>3. slot[live].build \in Delivers
  BY <1>1, Delivered
<1> QED BY <1>2, <1>3

\* Every path an accepted version listed answers 402 or 410 to POST in the live
\* slot, GET gives none away but a route that left the twins' list and has no
\* paid upstream, and what is paid for is delivered, when the Fossoyeur digs up
\* no unaccepted edit (deploy.sh, precutover checks, x402_setup.py).
THEOREM SoldStaysSold == ~UncheckedEdits => (Spec => []SoldIsPaidOrGone)
<1> SUFFICES ASSUME ~UncheckedEdits PROVE Spec => []SoldIsPaidOrGone
  OBVIOUS
<1>1. SlotsInv /\ [Next]_vars => SlotsInv'
  BY SlotsStep
<1> QED BY <1>1, SlotsInit, SoldIs, PTL DEF Spec

-----------------------------------------------------------------------------
(* What the documents say.  A link is honest when what it prices is in the  *)
(* table and what it calls free is open; it is wrong when it was false of   *)
(* the first version already.  The rest is about edited routes.             *)

Open(b) == {op \in Handlers(b) : Answer(b, Priced(b), Handlers(b), op) = 200}
Honest(b) == Pay(Priced(b)) \cup Free(Open(b))
Changed(b) == Edited(b, Works \ {"sold"})

\* What is published and false from the first: GET /discover and token-card,
\* called free; the two mounts and the two pages nobody serves.
Unserved == {".well-known/tool-result-digest.json", "honest-delivery-refusal"}
Wrong == Free(Pages({"discover"})) \cup Free(Both(NoSchema)) \cup Mounts(MemoryAndThread) \cup Free(Pages(Unserved))

\* Links that are honest, wrong, or about the routes of E
Sound(b, E, links) == \A l \in links : l \in Honest(b) \/ l \in Wrong \/ l.op[2][1] \in E

\* What is for sale is not retired.
LEMMA NotRetired ==
    ASSUME NEW b, NEW r \in Names(b) PROVE r \notin RETIRED_ROUTES(b)
<1>1. CASE r \in SoldNames \ Edited(b, Gone)
  BY <1>1, Twinned, UsineApart DEF RETIRED_ROUTES, HAND_RETIRED_ROUTES, Edited, Gone, SoldNames
<1>2. CASE r \in live_routes(b)
  <2>1. r \in Usine /\ b.slugs[r] = "live"
    BY <1>2 DEF live_routes
  <2>2. r \notin Unlisted /\ r \notin SoldNames
    BY <2>1, UsineApart
  <2>3. r \notin Edited(b, {"withdrawn"})
    BY <2>2, TouchedSold DEF Edited
  <2> QED BY <2>1, <2>2, <2>3 DEF RETIRED_ROUTES, HAND_RETIRED_ROUTES
<1>3. CASE r \in ComputeRoutes \cup BaseRoutes
  <2>1. r \notin SoldNames /\ r \notin Unlisted
    BY <1>3, HeadsApart DEF HeadNames
  <2>2. r \notin Edited(b, {"withdrawn"})
    BY <2>1, TouchedSold DEF Edited
  <2>3. r \notin Usine
    BY <1>3, UsineApart, ElsewhereIs, GetsIn, Parts
  <2> QED BY <2>1, <2>2, <2>3 DEF RETIRED_ROUTES, HAND_RETIRED_ROUTES
<1> QED BY <1>1, <1>2, <1>3 DEF Names

\* It answers 402.
LEMMA Charged ==
    ASSUME NEW b, NEW op \in Priced(b)
    PROVE  Answer(b, Priced(b), Handlers(b), op) = 402
<1>1. PICK r \in Names(b) : op = PostOf(r) \/ op = GetOf(r)
  BY InPriced
<1>2. Head(op[2]) = r
  BY <1>1, Parts
<1>3. ~match_retired(b, op[2])
  BY <1>2, NotRetired DEF match_retired
<1> QED BY <1>3, AnswerIs

\* Unless it is edited, it is for sale by both methods.
LEMMA ForSale ==
    ASSUME NEW b, NEW r \in SoldNames \cup ComputeRoutes \cup BaseRoutes, r \notin Changed(b)
    PROVE  r \in Names(b) /\ PostOf(r) \in Priced(b) /\ GetOf(r) \in Priced(b)
<1>1. CASE r \in ComputeRoutes \cup BaseRoutes
  BY <1>1, InPriced DEF Names
<1>2. CASE r \in SoldNames
  <2>1. Gone \subseteq Works \ {"sold"} /\ "untwinned" \in Works \ {"sold"}
    BY DEF Gone, Works
  <2>2. r \notin Edited(b, Gone) /\ r \notin Edited(b, {"untwinned"})
    BY <2>1 DEF Changed, Edited
  <2>3. r \in Twin(b) /\ r \in Names(b)
    BY <1>2, <2>2, Twinned DEF Twin, SoldNames, Names
  <2> QED BY <2>3, InPriced
<1> QED BY <1>1, <1>2

\* The sample of what is for sale is free, but for that of discover.
LEMMA SamplesOpen ==
    ASSUME NEW b, Working(b), NEW r \in Names(b), r \notin {"discover"} \cap Edited(b, {"sampleless"})
    PROVE  SampleOf(r) \in Open(b)
<1>1. SampleOf(r) \in Handlers(b)
  <2>1. CASE r \in SoldNames \ Edited(b, Gone)
    <3>1. r \in CoreRoutes \ Edited(b, {"dropped", "sampleless"})
      BY <2>1, CoreIs DEF Edited, Gone, Working, Unseen
    <3> QED BY <3>1, SamplesIn DEF Handlers, CoreHandlers
  <2>2. CASE r \in live_routes(b)
    BY <2>2, SamplesIn DEF Handlers, GeneratedHandlers
  <2>3. CASE r \in ComputeRoutes \cup BaseRoutes
    BY <2>3, SamplesIn, ElsewhereIs DEF Handlers
  <2> QED BY <2>1, <2>2, <2>3 DEF Names
<1>2. SampleOf(r) \notin Priced(b)
  BY InPriced, Distinct
<1>3. ~match_retired(b, SampleOf(r)[2])
  BY Parts, NotRetired DEF match_retired
<1> QED BY <1>1, <1>2, <1>3, AnswerIs DEF Open

\* What else is served, engines' routes apart, is none of the engines' operations.
LEMMA NotEngines ==
    /\ (Pages(PageNames) \cup Samples(SampleNames) \cup Validates \cup Special
        \cup Post({"relationship-memory", "tool-result-digest"}) \cup Post({"accueil", "contact", "mcp"}))
       \cap Both(ComputeRoutes \cup BaseRoutes) = {}
<1>1. PageNames \cap (ComputeRoutes \cup BaseRoutes) = {}
  <2>1. WellKnown \cap (ComputeRoutes \cup BaseRoutes) = {}
    BY DEF WellKnown, ComputeRoutes, BaseRoutes
  <2>2. DiscoveryNames \cap (ComputeRoutes \cup BaseRoutes) = {}
    BY DEF DiscoveryNames, ComputeRoutes, BaseRoutes
  <2>3. SchemaNames \cap (ComputeRoutes \cup BaseRoutes) = {}
    BY DEF SchemaNames, ComputeRoutes, BaseRoutes
  <2>4. SocialNames \cap (ComputeRoutes \cup BaseRoutes) = {}
    BY DEF SocialNames, ComputeRoutes, BaseRoutes
  <2> QED BY <2>1, <2>2, <2>3, <2>4 DEF PageNames
<1>2. \A op \in Both(ComputeRoutes \cup BaseRoutes) :
          \E r \in {"text/slug", "base/nonce"} : op = PostOf(r) \/ op = GetOf(r)
  BY Members DEF ComputeRoutes, BaseRoutes
<1>3. \A op \in Both(ComputeRoutes \cup BaseRoutes) : op \notin Pages(PageNames) /\ op \notin Samples(SampleNames)
  <2> SUFFICES ASSUME NEW r \in ComputeRoutes \cup BaseRoutes
               PROVE  /\ PostOf(r) \notin Pages(PageNames) /\ PostOf(r) \notin Samples(SampleNames)
                      /\ GetOf(r) \notin Pages(PageNames) /\ GetOf(r) \notin Samples(SampleNames)
    BY Members
  <2> QED BY <1>1, PostsIn, GetsIn
<1>4. \A op \in Both(ComputeRoutes \cup BaseRoutes) : op \notin Validates
  BY <1>2 DEF Validates, PostOf, GetOf
<1>5. \A op \in Both(ComputeRoutes \cup BaseRoutes) : op \notin Special
  BY <1>2 DEF Special, PostOf, GetOf
<1>6. \A op \in Both(ComputeRoutes \cup BaseRoutes) :
          /\ op \notin Post({"relationship-memory", "tool-result-digest"})
          /\ op \notin Post({"accueil", "contact", "mcp"})
  BY <1>2, PostsIn, GetsIn
<1> QED BY <1>3, <1>4, <1>5, <1>6

\* It is open: neither retired nor for sale.
LEMMA ElsewhereOpen ==
    ASSUME NEW b, NEW op \in Elsewhere, op \notin Both(ComputeRoutes \cup BaseRoutes)
    PROVE  op \in Open(b)
<1>1. op[2][1] \in HeadNames /\ Head(op[2]) = op[2][1]
  BY Heads
<1>2. op[2][1] \notin SoldNames /\ op[2][1] \notin Unlisted
  BY <1>1, HeadsApart
<1>3. op[2][1] \notin Usine
  <2> DEFINE Named == {o[2][1] : o \in Both(CoreRoutes) \cup Elsewhere}
  <2>1. op[2][1] \in Named
    OBVIOUS
  <2>2. Usine \cap Named = {}
    BY CatalogueAssumption
  <2> QED BY <2>1, <2>2
<1>4. ~match_retired(b, op[2])
  BY <1>1, <1>2, <1>3, TouchedSold DEF match_retired, RETIRED_ROUTES, HAND_RETIRED_ROUTES, Edited
<1>5. op \notin Priced(b)
  <2> SUFFICES ASSUME NEW r \in Names(b), op = PostOf(r) \/ op = GetOf(r) PROVE FALSE
    BY InPriced
  <2>1. op[2][1] = r
    BY Parts
  <2>2. r \in ComputeRoutes \cup BaseRoutes
    BY <2>1, <1>2, <1>3 DEF Names, live_routes
  <2> QED BY <2>2, Members
<1>6. op \in Handlers(b)
  BY DEF Handlers
<1> QED BY <1>4, <1>5, <1>6, AnswerIs DEF Open

\* The open operations the documents link to
LEMMA OpenLinks ==
    ASSUME NEW b
    PROVE  /\ \A p \in PageNames : GetOf(p) \in Open(b)
           /\ \A p \in SampleNames : SampleOf(p) \in Open(b)
           /\ \A p \in {"accueil", "contact", "mcp"} : PostOf(p) \in Open(b)
           /\ Validates \subseteq Open(b) /\ Special \subseteq Open(b)
<1>1. /\ \A p \in PageNames : GetOf(p) \in Pages(PageNames)
      /\ \A p \in SampleNames : SampleOf(p) \in Samples(SampleNames)
      /\ \A p \in {"accueil", "contact", "mcp"} : PostOf(p) \in Post({"accueil", "contact", "mcp"})
  BY GetsIn, SamplesIn, PostsIn
<1>2. \A op \in Pages(PageNames) \cup Samples(SampleNames) \cup Validates \cup Special
                  \cup Post({"accueil", "contact", "mcp"}) : op \in Open(b)
  BY ElsewhereIs, NotEngines, ElsewhereOpen
<1> QED BY <1>1, <1>2

\* Links to what is for sale, as paid, and to what is open, as free, are honest.
LEMMA LinksHonest ==
    ASSUME NEW b, NEW ops
    PROVE  /\ ops \subseteq Priced(b) => Pay(ops) \subseteq Honest(b)
           /\ ops \subseteq Open(b) => Free(ops) \subseteq Honest(b)
BY DEF Pay, Free, Link, Honest

\* What a link is about
LEMMA LinkParts ==
    ASSUME NEW ops, NEW l
    PROVE  /\ l \in Pay(ops) => l.op \in ops /\ l.promise = "pay"
           /\ l \in Free(ops) => l.op \in ops /\ l.promise = "free"
           /\ l \in Pay(ops) => l = [op |-> l.op, promise |-> "pay"]
           /\ l \in Free(ops) => l = [op |-> l.op, promise |-> "free"]
BY DEF Pay, Free, Link

\* The sets of links to pages and to the trust kit are honest.
LEMMA PagesHonest ==
    ASSUME NEW b, NEW S
    PROVE  /\ S \subseteq PageNames => Free(Pages(S)) \subseteq Honest(b)
           /\ S \subseteq SampleNames => Free(Samples(S)) \subseteq Honest(b)
           /\ S \subseteq {"accueil", "contact", "mcp"} => Free(Post(S)) \subseteq Honest(b)
           /\ S \subseteq Validates \cup Special => Free(S) \subseteq Honest(b)
<1>1. S \subseteq PageNames => Pages(S) \subseteq Open(b)
  BY Members, OpenLinks
<1>2. S \subseteq SampleNames => Samples(S) \subseteq Open(b)
  BY Members, OpenLinks
<1>3. S \subseteq {"accueil", "contact", "mcp"} => Post(S) \subseteq Open(b)
  <2>1. \A p \in {"accueil", "contact", "mcp"} : PostOf(p) \in Open(b)
    BY OpenLinks
  <2> QED BY <2>1 DEF Post, PostOf
<1>4. S \subseteq Validates \cup Special => S \subseteq Open(b)
  BY OpenLinks
<1> QED BY <1>1, <1>2, <1>3, <1>4, LinksHonest

\* The links of a set of routes, by hand: sound when those of its routes that
\* were edited are in E.
LEMMA RoutesSound ==
    ASSUME NEW b, Working(b), NEW E, NEW S,
           S \subseteq SoldNames \cup ComputeRoutes \cup BaseRoutes, S \cap Changed(b) \subseteq E
    PROVE  /\ Sound(b, E, Pay(Both(S))) /\ Sound(b, E, Pay(Post(S))) /\ Sound(b, E, Pay(Pages(S)))
           /\ Sound(b, E, Free(Samples(S)))
<1>1. ASSUME NEW l, NEW r \in S, l.op = PostOf(r) \/ l.op = GetOf(r), l = [op |-> l.op, promise |-> "pay"]
      PROVE  l \in Honest(b) \/ l.op[2][1] \in E
  <2>1. CASE r \in Changed(b)
    BY <1>1, <2>1, Parts
  <2>2. CASE r \notin Changed(b)
    <3>1. l.op \in Priced(b)
      BY <1>1, <2>2, ForSale
    <3>2. l \in Pay(Priced(b))
      BY <1>1, <3>1 DEF Pay, Link
    <3> QED BY <3>2 DEF Honest
  <2> QED BY <2>1, <2>2
<1>2. ASSUME NEW l, NEW r \in S, l.op = SampleOf(r), l = [op |-> l.op, promise |-> "free"]
      PROVE  l \in Honest(b) \/ l.op[2][1] \in E
  <2>1. CASE r \in Changed(b)
    BY <1>2, <2>1, Parts
  <2>2. CASE r \notin Changed(b)
    <3>1. "sampleless" \in Works \ {"sold"}
      BY DEF Works
    <3>2. r \notin Edited(b, {"sampleless"})
      BY <2>2, <3>1 DEF Changed, Edited
    <3>3. l.op \in Open(b)
      BY <1>2, <2>2, <3>2, ForSale, SamplesOpen
    <3>4. l \in Free(Open(b))
      BY <1>2, <3>3 DEF Free, Link
    <3> QED BY <3>4 DEF Honest
  <2> QED BY <2>1, <2>2
<1>3. /\ \A l \in Pay(Both(S)) : \E r \in S : l.op = PostOf(r) \/ l.op = GetOf(r)
      /\ \A l \in Pay(Post(S)) : \E r \in S : l.op = PostOf(r)
      /\ \A l \in Pay(Pages(S)) : \E r \in S : l.op = GetOf(r)
      /\ \A l \in Free(Samples(S)) : \E r \in S : l.op = SampleOf(r)
  BY LinkParts, Members
<1>4. /\ \A l \in Pay(Both(S)) \cup Pay(Post(S)) \cup Pay(Pages(S)) : l = [op |-> l.op, promise |-> "pay"]
      /\ \A l \in Free(Samples(S)) : l = [op |-> l.op, promise |-> "free"]
  BY LinkParts
<1> QED BY <1>1, <1>2, <1>3, <1>4 DEF Sound

\* Soundness of a union, and of what is honest or wrong
LEMMA SoundUnions ==
    ASSUME NEW b, NEW E, NEW L, NEW M
    PROVE  /\ Sound(b, E, L) /\ Sound(b, E, M) => Sound(b, E, L \cup M)
           /\ L \subseteq Honest(b) => Sound(b, E, L)
           /\ L \subseteq Wrong => Sound(b, E, L)
BY DEF Sound

\* The documents generated from the table: only the sample of discover may be
\* missing.
LEMMA TableDocuments ==
    ASSUME NEW b, Working(b)
    PROVE  Sound(b, {}, (_route_entries(Priced(b)) \cup _agent_card(Priced(b)) \cup capabilities(Priced(b)))
                            \ Free(Samples({"discover"} \cap Edited(b, {"sampleless"}))))
<1> DEFINE lost == Free(Samples({"discover"} \cap Edited(b, {"sampleless"})))
<1>1. ASSUME NEW keys \in SUBSET Priced(b), NEW l \in Free(SamplesOf(keys)), l \notin lost
      PROVE  l \in Honest(b)
  <2>1. /\ l = [op |-> l.op, promise |-> "free"]
        /\ \E k \in keys : l.op = <<"GET", k[2] \o <<"sample">>>>
    BY <1>1, LinkParts DEF SamplesOf
  <2>2. PICK k \in keys : l.op = <<"GET", k[2] \o <<"sample">>>>
    BY <2>1
  <2>3. PICK r \in Names(b) : k[2] = <<r>>
    BY InPriced, Parts
  <2>4. l.op = SampleOf(r)
    BY <2>2, <2>3, SampleAfter
  <2>5. r \notin {"discover"} \cap Edited(b, {"sampleless"})
    <3> SUFFICES ASSUME r \in {"discover"} \cap Edited(b, {"sampleless"}) PROVE FALSE
      OBVIOUS
    <3>1. l.op \in Samples({"discover"} \cap Edited(b, {"sampleless"}))
      BY <2>4, SamplesIn
    <3>2. l \in lost
      BY <2>1, <3>1 DEF Free, Link
    <3> QED BY <1>1, <3>2
  <2>6. l.op \in Open(b)
    BY <2>4, <2>5, SamplesOpen
  <2>7. l \in Free(Open(b))
    BY <2>1, <2>6 DEF Free, Link
  <2> QED BY <2>7 DEF Honest
<1>2. Pay(Priced(b)) \subseteq Honest(b)
  BY DEF Honest
<1> DEFINE pages == {".well-known/x402", "openapi.json", "capabilities", "agentindex.md", "v1/models"}
<1>3. pages \subseteq PageNames
  BY DEF PageNames, WellKnown, DiscoveryNames, SocialNames
<1>4. Free(Pages(pages)) \subseteq Honest(b)
  BY <1>3, PagesHonest
<1>5. _agent_card(Priced(b)) = Pay(Priced(b)) \cup Free(SamplesOf(Priced(b))) \cup Free(Pages(pages))
  BY DEF _agent_card
<1> DEFINE kit == {k \in Priced(b) : k[2][1] \in _KIT_SLUGS}
<1>6. capabilities(Priced(b)) = Pay(kit) \cup Free(SamplesOf(kit)) /\ kit \in SUBSET Priced(b)
  BY DEF capabilities
<1> HIDE DEF kit, lost, pages
<1>7. Pay(kit) \subseteq Honest(b)
  BY <1>6, LinksHonest
<1>8. ASSUME NEW l \in (_route_entries(Priced(b)) \cup _agent_card(Priced(b)) \cup capabilities(Priced(b))) \ lost
      PROVE  l \in Honest(b)
  <2>1. CASE l \in Pay(Priced(b)) \cup Free(Pages(pages)) \cup Pay(kit)
    BY <1>2, <1>4, <1>7, <2>1
  <2>2. CASE l \in Free(SamplesOf(Priced(b))) \cup Free(SamplesOf(kit))
    BY <1>1, <1>6, <1>8, <2>2
  <2> QED BY <1>5, <1>6, <1>8, <2>1, <2>2 DEF _route_entries
<1> QED BY <1>8 DEF Sound, lost

\* The OpenAPI document: operations on priced paths, without the price of what
\* has no schema.
LEMMA OpenApiDocument == ASSUME NEW b PROVE Sound(b, {}, custom_openapi(b, Priced(b)))
<1> DEFINE operations == {h \in Handlers(b) : \E k \in Priced(b) : k[2] = h[2]}
           priced == {op \in operations \cap Priced(b) : op[2][1] \notin NoSchema}
<1>1. ASSUME NEW h \in operations, h \notin Priced(b) PROVE h \in Open(b)
  <2>1. PICK k \in Priced(b) : k[2] = h[2]
    OBVIOUS
  <2>2. PICK r \in Names(b) : Head(h[2]) = r
    BY <2>1, InPriced, Parts
  <2>3. ~match_retired(b, h[2])
    BY <2>2, NotRetired DEF match_retired
  <2>4. h \in Handlers(b)
    OBVIOUS
  <2> QED BY <1>1, <2>3, <2>4, AnswerIs DEF Open
<1>2. ASSUME NEW h \in operations \cap Priced(b), h[2][1] \in NoSchema PROVE h \in Both(NoSchema)
  <2>1. PICK r \in Names(b) : h = PostOf(r) \/ h = GetOf(r)
    BY InPriced
  <2>2. r \in NoSchema
    BY <1>2, <2>1, Parts
  <2> QED BY <2>1, <2>2, PostsIn, GetsIn
<1>3. custom_openapi(b, Priced(b)) =
          Pay(priced) \cup Free(operations \ priced) \cup Free(Pages({"agent.json", "llms.txt"}))
  BY DEF custom_openapi
<1>4. Pay(priced) \subseteq Honest(b)
  BY LinksHonest
<1>5. {"agent.json", "llms.txt"} \subseteq PageNames
  BY DEF PageNames, DiscoveryNames
<1>6. Free(Pages({"agent.json", "llms.txt"})) \subseteq Honest(b)
  BY <1>5, PagesHonest
<1>7. \A op \in operations \ priced : op \in Open(b) \/ op \in Both(NoSchema)
  BY <1>1, <1>2
<1> HIDE DEF operations, priced
<1>8. ASSUME NEW l \in Free(operations \ priced) PROVE l \in Honest(b) \/ l \in Wrong
  <2>1. l = [op |-> l.op, promise |-> "free"] /\ l.op \in operations \ priced
    BY LinkParts
  <2>2. l \in Free(Open(b)) \/ l \in Free(Both(NoSchema))
    BY <1>7, <2>1 DEF Free, Link
  <2> QED BY <2>2 DEF Honest, Wrong
<1> QED BY <1>3, <1>4, <1>6, <1>8 DEF Sound

\* A route with a flag that is edited in a working version is withdrawn: its
\* module is paid.
LEMMA FlagIsOff == ASSUME NEW b, Working(b) PROVE Changed(b) \cap Flagged \subseteq FlagsOff(b)
<1> SUFFICES ASSUME NEW r \in Changed(b) \cap Flagged PROVE r \in FlagsOff(b)
  OBVIOUS
<1>1. Flagged \subseteq PaidModules /\ "discover" \notin Flagged
  BY DEF Flagged, PaidModules
<1>2. r \in Touched /\ b.work[r] # "sold"
  BY DEF Changed, Edited
<1>3. b.work[r] = "withdrawn"
  BY <1>1, <1>2 DEF Working, Unseen
<1> QED BY <1>2, <1>3 DEF FlagsOff, Edited

\* llms.txt: by hand, but for the lines that go with a flag
LEMMA LlmsDocument ==
    ASSUME NEW b, Working(b)
    PROVE  Sound(b, Changed(b) \ LlmsFlag, _llms_catalog(b))
<1> DEFINE E == Changed(b) \ LlmsFlag
<1>1. LlmsHead \ Unlisted \subseteq SoldNames \cup ComputeRoutes
  BY DEF LlmsHead, Unlisted, SoldNames, PostNames, BothNames
<1>2. LlmsSamples \ Unlisted \subseteq SoldNames \cup ComputeRoutes
  BY DEF LlmsSamples, Unlisted, SoldNames, PostNames, BothNames
<1>3. Unlisted \subseteq LlmsFlags(b) /\ Changed(b) \cap LlmsFlag \subseteq LlmsFlags(b)
  <2>1. LlmsFlag \subseteq Flagged
    BY DEF LlmsFlag, Flagged
  <2> QED BY <2>1, FlagIsOff DEF LlmsFlags
<1>4. /\ (LlmsHead \ LlmsFlags(b)) \cap Changed(b) \subseteq E
      /\ (LlmsSamples \ LlmsFlags(b)) \cap Changed(b) \subseteq E
      /\ LlmsHead \ LlmsFlags(b) \subseteq SoldNames \cup ComputeRoutes \cup BaseRoutes
      /\ LlmsSamples \ LlmsFlags(b) \subseteq SoldNames \cup ComputeRoutes \cup BaseRoutes
  BY <1>1, <1>2, <1>3
<1> HIDE DEF E
<1>5. Sound(b, E, Pay(Both(LlmsHead \ LlmsFlags(b)))) /\ Sound(b, E, Free(Samples(LlmsSamples \ LlmsFlags(b))))
  BY <1>4, RoutesSound
<1> DEFINE pages == {"agent-salut", "v1/models", "openapi.json", "agent.json", "capabilities", ".well-known/x402",
           ".well-known/mcp/server-card.json", "skills/agentindex-x402/SKILL.md", "agentindex.md"}
<1>6. pages \subseteq PageNames
  BY DEF PageNames, WellKnown, DiscoveryNames, SocialNames
<1>7. Free(LlmsManifests) = Free(Pages(pages)) \cup Free(Post({"mcp"}))
  BY DEF LlmsManifests, Free, Link
<1> HIDE DEF pages
<1>8. Free(LlmsManifests) \subseteq Honest(b)
  BY <1>6, <1>7, PagesHonest
<1>9. Sound(b, E, _llms_catalog(b))
  BY <1>5, <1>8, SoundUnions DEF _llms_catalog
<1> QED BY <1>9 DEF E

\* The Wallet MCP skill
LEMMA WalletSkill == ASSUME NEW b PROVE Sound(b, {}, _agentindex_wallet_mcp_skill(Priced(b)))
<1>1. Post(ComputeRoutes) \subseteq Priced(b)
  <2>1. ComputeRoutes \subseteq Names(b)
    BY DEF Names
  <2> QED BY <2>1, Members, InPriced
<1>2. {"v1/models", "llms.txt", "agent.json", ".well-known/agent.json", "openapi.json", ".well-known/x402",
       "skills/agentindex-x402/SKILL.md"} \subseteq PageNames
  BY DEF PageNames, WellKnown, DiscoveryNames, SocialNames
<1>3. Free(SkillLinks) \subseteq Honest(b)
  BY <1>2, PagesHonest DEF SkillLinks
<1>4. Pay(Post(ComputeRoutes)) \subseteq Honest(b) /\ Pay(Post(_WALLET_MCP_SECTIONS) \cap Priced(b)) \subseteq Honest(b)
  BY <1>1, LinksHonest
<1> QED BY <1>3, <1>4, SoundUnions DEF _agentindex_wallet_mcp_skill

\* The links of the trust kit that the cards and the reception hall repeat
LEMMA KitLinks ==
    ASSUME NEW b
    PROVE  /\ Free({<<"POST", <<v, "validate">>>> : v \in Validators}) \subseteq Honest(b)
           /\ Free(Samples(Validators)) \subseteq Honest(b) /\ Free(SchemaPages) \subseteq Honest(b)
           /\ Free(Special) \subseteq Honest(b)
<1>1. /\ SchemaNames \subseteq PageNames /\ Validators \subseteq SampleNames
      /\ Validates \subseteq Validates \cup Special /\ Special \subseteq Validates \cup Special
  BY DEF PageNames, SampleNames
<1> QED BY <1>1, PagesHonest DEF SchemaPages, Validates

\* The skill file
LEMMA SkillFileSound == ASSUME NEW b, Working(b) PROVE Sound(b, Changed(b), SkillFile)
<1> DEFINE gets == {"x402-echo", "agent-health", "wallet-balance", "gas-price", "wallet-intelligence", "weather",
                    "crypto", "news", "can-pay", "probe"}
           posts == {"search", "pdf", "web-read", "extract", "discover"}
           samples == {"search", "pdf"}
           pages == {"llms.txt", "openapi.json", "agent.json"}
<1>1. gets \subseteq SoldNames /\ posts \subseteq SoldNames /\ samples \subseteq SoldNames
  BY DEF SoldNames, PostNames, BothNames
<1>2. pages \subseteq PageNames
  BY DEF PageNames, DiscoveryNames, SocialNames
<1>3. SkillFile = Pay(Pages(gets)) \cup Pay(Post(posts)) \cup Free(Samples(samples)) \cup Free(Pages(pages))
                  \cup Free(Post({"mcp"}))
  BY DEF SkillFile
<1> HIDE DEF gets, posts, samples, pages
<1>4. /\ Sound(b, Changed(b), Pay(Pages(gets))) /\ Sound(b, Changed(b), Pay(Post(posts)))
      /\ Sound(b, Changed(b), Free(Samples(samples)))
  BY <1>1, RoutesSound
<1>5. Free(Pages(pages)) \subseteq Honest(b) /\ Free(Post({"mcp"})) \subseteq Honest(b)
  BY <1>2, PagesHonest
<1> QED BY <1>3, <1>4, <1>5 DEF Sound

\* The server cards
LEMMA CardsSound == ASSUME NEW b, Working(b) PROVE Sound(b, Changed(b), ServerCards)
<1> DEFINE A == {".well-known/x402", "openapi.json", "capabilities", ".well-known/relationship-memory.json",
                 "server-relationship-memory.json", ".well-known/coordination-thread-turn.json",
                 "server-coordination-thread.json"}
           B == {<<"POST", <<"relationship-memory", leaf>>>> : leaf \in {"validate", "store"}}
           C == {<<"POST", <<"coordination-thread", "validate">>>>}
           D == {<<"GET", <<r, "retrieve">>>> : r \in MemoryAndThread}
           F == {"honest-delivery-refusal"}
<1>1. A \subseteq PageNames
  BY DEF PageNames, WellKnown, DiscoveryNames, SchemaNames, SocialNames
<1>2. B \subseteq Validates \cup Special /\ C \subseteq Validates \cup Special
  BY DEF Validates, Special, Validators
<1>3. D \subseteq Validates \cup Special
  BY DEF Special, MemoryAndThread
<1>4. {"discover"} \subseteq SoldNames
  BY DEF SoldNames, PostNames
<1>5. F \subseteq Unserved
  BY DEF Unserved
<1>6. ServerCards = Free(Pages(A)) \cup Free(B) \cup Free(C) \cup Free(D) \cup Pay(Post({"discover"}))
                    \cup Free(Post({"mcp"})) \cup Mounts(MemoryAndThread) \cup Free(Pages(F))
  BY DEF ServerCards
<1> HIDE DEF A, B, C, D, F
<1>7. /\ Free(Pages(A)) \subseteq Honest(b) /\ Free(B) \subseteq Honest(b) /\ Free(C) \subseteq Honest(b)
      /\ Free(D) \subseteq Honest(b) /\ Free(Post({"mcp"})) \subseteq Honest(b)
  BY <1>1, <1>2, <1>3, PagesHonest
<1>8. Sound(b, Changed(b), Pay(Post({"discover"})))
  BY <1>4, RoutesSound
<1>9. Mounts(MemoryAndThread) \subseteq Wrong /\ Free(Pages(F)) \subseteq Wrong
  BY <1>5 DEF Wrong, Free, Link, Pages
<1> QED BY <1>6, <1>7, <1>8, <1>9 DEF Sound

\* The AI catalogue and the site map
LEMMA IndexesSound ==
    ASSUME NEW b, Working(b)
    PROVE  Sound(b, Changed(b), _ai_catalog_manifest) /\ Sound(b, Changed(b), _sitemap_urls)
<1>1. Sound(b, Changed(b), _ai_catalog_manifest)
  <2> DEFINE pages == {"llms.txt", ".well-known/mcp/server-card.json", "discover/preview",
                       ".well-known/agent-card.json", "openapi.json"}
  <2>1. pages \subseteq PageNames
    BY DEF PageNames, WellKnown, DiscoveryNames, SocialNames
  <2>2. {"discover/preview"} \subseteq SampleNames /\ {"discover"} \subseteq SoldNames
    BY DEF SampleNames, SocialSamples, SoldNames, PostNames
  <2>3. Free(Samples({"discover/preview", "discover"}))
            = Free(Samples({"discover/preview"})) \cup Free(Samples({"discover"}))
    BY DEF Free, Link, Samples
  <2>4. _ai_catalog_manifest = Free(Pages(pages)) \cup Free(Samples({"discover/preview", "discover"}))
                               \cup Pay(Post({"discover"})) \cup Mounts(MemoryAndThread)
    BY DEF _ai_catalog_manifest
  <2> HIDE DEF pages
  <2>5. Free(Pages(pages)) \subseteq Honest(b) /\ Free(Samples({"discover/preview"})) \subseteq Honest(b)
    BY <2>1, <2>2, PagesHonest
  <2>6. Sound(b, Changed(b), Free(Samples({"discover"}))) /\ Sound(b, Changed(b), Pay(Post({"discover"})))
    BY <2>2, RoutesSound
  <2>7. Mounts(MemoryAndThread) \subseteq Wrong
    BY DEF Wrong
  <2> QED BY <2>3, <2>4, <2>5, <2>6, <2>7 DEF Sound
<1>2. Sound(b, Changed(b), _sitemap_urls)
  <2> DEFINE sold == {"discover", "search", "wallet-balance", "gas-price", "wallet-intelligence", "x402-echo",
                      "agent-health", "due-diligence", "company-leads"}
             kit == Validators
                    \cup {"contact", "discover/preview", "detect-language", "mesh", "tool-result-digest"}
             pages == {"", "agent.json", "capabilities", "openapi.json", "llms.txt",
                       "skills/agentindex-x402/SKILL.md", "server.json", ".well-known/x402",
                       ".well-known/x402.json", ".well-known/ai-catalog.json", ".well-known/ard.json",
                       ".well-known/agent.json", ".well-known/mcp.json", ".well-known/glama.json",
                       ".well-known/security.txt", "transparency", "accueil", "salon", "place",
                       "discover/preview", ".well-known/agent-trust-kit.json"}
  <2>1. pages \subseteq PageNames
    BY DEF PageNames, WellKnown, DiscoveryNames, SchemaNames, SocialNames
  <2>2. kit \subseteq SampleNames
    BY DEF SampleNames, SocialSamples
  <2>3. sold \subseteq SoldNames
    BY DEF SoldNames, PostNames, BothNames
  <2>4. _sitemap_urls = Free(Samples(sold)) \cup Free(Samples(kit)) \cup Free(Pages(pages))
    <3>1. _sitemap_urls = Free(Samples(sold \cup kit)) \cup Free(Pages(pages))
      <4>1. sold \cup kit = {"discover", "search", "wallet-balance", "gas-price", "wallet-intelligence",
                            "x402-echo", "agent-health", "due-diligence", "company-leads", "contact",
                            "discover/preview", "detect-language", "mesh", "tool-result-digest"} \cup Validators
        OBVIOUS
      <4> HIDE DEF sold, kit
      <4> QED BY <4>1 DEF _sitemap_urls
    <3> HIDE DEF sold, kit, pages
    <3>2. Free(Samples(sold \cup kit)) = Free(Samples(sold)) \cup Free(Samples(kit))
      BY DEF Free, Link, Samples
    <3> QED BY <3>1, <3>2
  <2> HIDE DEF sold, kit, pages
  <2>5. Sound(b, Changed(b), Free(Samples(sold)))
    BY <2>3, RoutesSound
  <2>6. Free(Samples(kit)) \subseteq Honest(b) /\ Free(Pages(pages)) \subseteq Honest(b)
    BY <2>1, <2>2, PagesHonest
  <2> QED BY <2>4, <2>5, <2>6 DEF Sound
<1> QED BY <1>1, <1>2

\* The trust kit's manifest and the reception hall
LEMMA HallSound ==
    ASSUME NEW b, Working(b)
    PROVE  /\ Sound(b, Changed(b), manifest) /\ Sound(b, Changed(b), ReceptionOffers)
           /\ Sound(b, Changed(b), ReceptionPages) /\ Sound(b, Changed(b), ReceptionTrust)
<1>1. Sound(b, Changed(b), manifest)
  <2> DEFINE samples == Samples(Validators \cup {"tool-result-digest"})
             validates == {<<"POST", <<v, "validate">>>> : v \in Validators}
             pages == {".well-known/mcp/coordination-thread.json", ".well-known/tool-result-digest.json"}
  <2>1. manifest = Free(samples \cup validates \cup Post({"tool-result-verify"}) \cup SchemaPages \cup Pages(pages))
                   \cup Mounts({"coordination-thread"})
    BY DEF manifest
  <2>2. pages = {".well-known/mcp/coordination-thread.json"} \cup {".well-known/tool-result-digest.json"}
    OBVIOUS
  <2>3. Post({"tool-result-verify"}) \subseteq Validates \cup Special
    BY DEF Post, Special
  <2>4. Validators \cup {"tool-result-digest"} \subseteq SampleNames
        /\ {".well-known/mcp/coordination-thread.json"} \subseteq PageNames
    BY DEF SampleNames, PageNames, WellKnown
  <2>5. /\ Free(samples) \subseteq Honest(b) /\ Free(Post({"tool-result-verify"})) \subseteq Honest(b)
        /\ Free(Pages({".well-known/mcp/coordination-thread.json"})) \subseteq Honest(b)
        /\ Free(validates) \subseteq Honest(b) /\ Free(SchemaPages) \subseteq Honest(b)
    BY <2>3, <2>4, PagesHonest, KitLinks
  <2>6. Free(Pages({".well-known/tool-result-digest.json"})) \subseteq Wrong
    BY DEF Wrong, Unserved, Free, Link, Pages
  <2>7. Mounts({"coordination-thread"}) \subseteq Wrong
    BY DEF Wrong, Mounts, MemoryAndThread, Free, Link
  <2> HIDE DEF samples, validates
  <2>8. Pages(pages) = Pages({".well-known/mcp/coordination-thread.json"})
                       \cup Pages({".well-known/tool-result-digest.json"})
    BY <2>2 DEF Pages
  <2> HIDE DEF pages
  <2>9. manifest = Free(samples) \cup Free(validates) \cup Free(Post({"tool-result-verify"})) \cup Free(SchemaPages)
                   \cup Free(Pages({".well-known/mcp/coordination-thread.json"}))
                   \cup Free(Pages({".well-known/tool-result-digest.json"})) \cup Mounts({"coordination-thread"})
    BY <2>1, <2>8 DEF Free, Link
  <2> QED BY <2>5, <2>6, <2>7, <2>9 DEF Sound
<1>2. Sound(b, Changed(b), ReceptionOffers)
  <2> DEFINE sold == {"pdf", "web-read", "extract", "summarize", "search", "fact-check", "translate", "jobs",
                      "discover"}
  <2>1. sold \subseteq SoldNames /\ {"discover"} \subseteq SoldNames
    BY DEF SoldNames, PostNames
  <2>2. ReceptionOffers = Pay(Post(sold)) \cup Free(Samples({"discover"})) \cup Free(Pages({"discover"}))
    BY DEF ReceptionOffers
  <2> HIDE DEF sold
  <2>3. Sound(b, Changed(b), Pay(Post(sold))) /\ Sound(b, Changed(b), Free(Samples({"discover"})))
    BY <2>1, RoutesSound
  <2>4. Free(Pages({"discover"})) \subseteq Wrong
    BY DEF Wrong
  <2> QED BY <2>2, <2>3, <2>4 DEF Sound
<1>3. Sound(b, Changed(b), ReceptionPages)
  <2>1. {"agent.json", "llms.txt", ".well-known/x402", "capabilities", "openapi.json", "detect-language",
         "mesh", "place", "accueil"} \subseteq PageNames
    BY DEF PageNames, WellKnown, DiscoveryNames, SocialNames
  <2>2. {"contact", "mesh"} \subseteq SampleNames
    BY DEF SampleNames, SocialSamples
  <2>3. ReceptionPages \subseteq Honest(b)
    BY <2>1, <2>2, PagesHonest DEF ReceptionPages
  <2> QED BY <2>3 DEF Sound
<1>4. Sound(b, Changed(b), ReceptionTrust)
  <2> DEFINE stores == {<<"POST", <<"relationship-memory", "store">>>>,
                        <<"GET", <<"relationship-memory", "retrieve">>>>,
                        <<"GET", <<"coordination-thread", "retrieve">>>>}
             mcp == {".well-known/mcp/relationship-memory.json", ".well-known/mcp/coordination-thread.json"}
             validates == {<<"POST", <<v, "validate">>>> : v \in Validators}
  <2>1. stores \subseteq Validates \cup Special
    BY DEF Special
  <2>2. mcp \subseteq PageNames
    BY DEF PageNames, WellKnown
  <2>3. ReceptionTrust = Free(validates) \cup Free(Samples(Validators)) \cup Free(SchemaPages) \cup Free(stores)
            \cup Free(Pages(mcp)) \cup Mounts(MemoryAndThread)
    BY DEF ReceptionTrust
  <2>4. Free(validates) \subseteq Honest(b)
    BY KitLinks
  <2> HIDE DEF stores, mcp, validates
  <2>5. Free(stores) \subseteq Honest(b) /\ Free(Pages(mcp)) \subseteq Honest(b)
    BY <2>1, <2>2, PagesHonest
  <2>6. Free(Samples(Validators)) \subseteq Honest(b) /\ Free(SchemaPages) \subseteq Honest(b)
    BY KitLinks
  <2>7. Mounts(MemoryAndThread) \subseteq Wrong
    BY DEF Wrong
  <2> QED BY <2>3, <2>4, <2>5, <2>6, <2>7 DEF Sound
<1> QED BY <1>1, <1>2, <1>3, <1>4

\* The tools sell entries of the table, or follow a flag, or sell an edited
\* route that has none.
LEMMA ToolsDocument == ASSUME NEW b, Working(b) PROVE Sound(b, Changed(b) \ Flagged, ToolLinks(b))
<1> DEFINE core == ChainTools \cup ClassifierTools \cup ModelTools \cup ResearchTool \cup ReadingTools
                   \cup JudgementTools \cup FeedTools \cup PaywallTools \cup WebTools
           rest == GeneratedTools(b) \cup EngineTools
           E == Changed(b) \ Flagged
<1>1. ToolLinks(b) = Pay(Post((core \ FlagsOff(b)) \cup rest))
  <2>1. (core \ FlagsOff(b)) \cup rest = (core \ FlagsOff(b)) \cup GeneratedTools(b) \cup EngineTools
    OBVIOUS
  <2> QED BY <2>1 DEF ToolLinks
<1>2. core \subseteq SoldNames
  BY DEF ChainTools, ClassifierTools, ModelTools, ResearchTool, ReadingTools, JudgementTools, FeedTools,
         PaywallTools, WebTools, SoldNames, PostNames, BothNames
<1>3. rest \subseteq Names(b)
  BY DEF GeneratedTools, EngineTools, Names
<1> HIDE DEF core, rest
<1>4. (core \ FlagsOff(b)) \cap Changed(b) \subseteq E
  BY FlagIsOff
<1> HIDE DEF E
<1>5. Sound(b, E, Pay(Post(core \ FlagsOff(b))))
  BY <1>2, <1>4, RoutesSound
<1>6. Pay(Post(rest)) \subseteq Honest(b)
  <2>1. Post(rest) \subseteq Priced(b)
    BY <1>3, Members, InPriced
  <2> QED BY <2>1, LinksHonest
<1>7. ToolLinks(b) = Pay(Post(core \ FlagsOff(b))) \cup Pay(Post(rest))
  BY <1>1 DEF Pay, Link, Post
<1>8. Sound(b, E, ToolLinks(b))
  BY <1>5, <1>6, <1>7 DEF Sound
<1> QED BY <1>8 DEF E

\* What is wrong was published by the first version, and false.
LEMMA WrongFirst == Wrong \subseteq Lies(Off.build, Published(Off.build))
<1> DEFINE b == Off.build
           T == Priced(b)
           H == Handlers(b)
<1>1. \A r : r \notin Changed(b) /\ r \notin Edited(b, {"dropped"})
  <2>1. b.work = [r \in Touched |-> "sold"]
    BY DEF Off, Process
  <2> QED BY <2>1 DEF Changed, Edited
<1>2. NoSchema = {"token-card"} /\ "token-card" \in SoldNames /\ "discover" \in SoldNames
  BY DEF NoSchema, SoldNames, PostNames, BothNames
<1>3. \A r \in {"token-card", "discover"} : r \in Names(b) /\ PostOf(r) \in T /\ GetOf(r) \in T
  BY <1>1, <1>2, ForSale
<1> HIDE DEF b
<1>4. ASSUME NEW l \in Free(Pages({"discover"})) PROVE l \in Published(b) /\ Answer(b, T, H, l.op) # 200
  <2>1. l.op = GetOf("discover")
    BY LinkParts, Members
  <2>2. l \in Handwritten
    BY DEF Handwritten, ReceptionOffers
  <2> QED BY <1>3, <2>1, <2>2, AnswerIs DEF Published, Documents
<1>5. ASSUME NEW l \in Free(Both(NoSchema)) PROVE l \in Published(b) /\ Answer(b, T, H, l.op) # 200
  <2>1. l = [op |-> l.op, promise |-> "free"] /\ (l.op = PostOf("token-card") \/ l.op = GetOf("token-card"))
    BY <1>2, LinkParts, Members
  <2>2. l.op \in T /\ l.op[2][1] \in NoSchema
    BY <1>2, <1>3, <2>1, Parts
  <2>3. l.op \in H
    <3>1. "token-card" \in CoreRoutes /\ "token-card" \notin Edited(b, {"deaf"})
      <4>1. "deaf" \in Works \ {"sold"}
        BY DEF Works
      <4> QED BY <1>1, <1>2, <4>1, CoreIs DEF Changed, Edited
    <3>2. "token-card" \notin Edited(b, {"dropped", "deaf"})
      BY <1>1, <3>1 DEF Edited
    <3> QED BY <1>3, <2>1, <3>1, <3>2, Handled
  <2> DEFINE operations == {h \in H : \E k \in T : k[2] = h[2]}
             priced == {op \in operations \cap T : op[2][1] \notin NoSchema}
  <2>4. l.op \in operations \ priced
    BY <2>2, <2>3
  <2>5. l \in Free(operations \ priced)
    BY <2>1, <2>4 DEF Free, Link
  <2>6. l \in custom_openapi(b, T)
    BY <2>5 DEF custom_openapi
  <2>7. l \in Published(b)
    BY <2>6 DEF Published, Documents, Generated
  <2> QED BY <2>2, <2>7, AnswerIs
<1>6. ASSUME NEW l \in Mounts(MemoryAndThread) PROVE l \in Published(b) /\ Answer(b, T, H, l.op) # 200
  <2>1. PICK n \in MemoryAndThread : l.op = <<"POST", <<"mcp", n>>>>
    BY LinkParts DEF Mounts
  <2>2. l.op \notin Elsewhere
    <3>1. \A r : l.op # PostOf(r) /\ l.op # GetOf(r) /\ l.op # SampleOf(r)
      BY <2>1 DEF PostOf, GetOf, SampleOf
    <3>2. l.op \notin Validates
      BY <2>1 DEF Validates, Validators
    <3>3. l.op \notin Special
      BY <2>1 DEF Special
    <3> QED BY <3>1, <3>2, <3>3, ElsewhereIs, Members
  <2>3. \A r : l.op # PostOf(r) /\ l.op # GetOf(r) /\ l.op # SampleOf(r)
    BY <2>1 DEF PostOf, GetOf, SampleOf
  <2>4. l.op \notin H
    BY <2>2, <2>3, Members DEF Handlers, CoreHandlers, GeneratedHandlers
  <2>5. l \in Handwritten
    BY DEF Handwritten, ServerCards
  <2> QED BY <2>4, <2>5, AnswerIs DEF Published, Documents
<1>7. ASSUME NEW l \in Free(Pages(Unserved)) PROVE l \in Published(b) /\ Answer(b, T, H, l.op) # 200
  <2>1. PICK p \in Unserved : l.op = GetOf(p) /\ l = [op |-> GetOf(p), promise |-> "free"]
    BY LinkParts, Members
  <2>2. p \notin PageNames
    <3>1. p \notin WellKnown
      BY <2>1 DEF Unserved, WellKnown
    <3>2. p \notin DiscoveryNames
      BY <2>1 DEF Unserved, DiscoveryNames
    <3>3. p \notin SchemaNames
      BY <2>1 DEF Unserved, SchemaNames
    <3>4. p \notin SocialNames
      BY <2>1 DEF Unserved, SocialNames
    <3> QED BY <3>1, <3>2, <3>3, <3>4 DEF PageNames
  <2>3. p \notin ComputeRoutes \cup BaseRoutes /\ p \notin CoreRoutes
    <3>1. p \notin ComputeRoutes \cup BaseRoutes /\ p \notin Unlisted
      BY <2>1 DEF Unserved, ComputeRoutes, BaseRoutes, Unlisted
    <3>2. p \notin PostNames /\ p \notin BothNames
      BY <2>1 DEF Unserved, PostNames, BothNames
    <3> QED BY <3>1, <3>2, CoreIs DEF SoldNames
  <2>4. GetOf(p) \notin Elsewhere
    <3>1. GetOf(p) \notin Validates /\ GetOf(p) \notin Special
      BY DEF GetOf, Validates, Special
    <3> QED BY <2>2, <2>3, <3>1, ElsewhereIs, GetsIn
  <2>5. l.op \notin H
    BY <2>1, <2>3, <2>4, Handled
  <2>6. l \in Handwritten
    <3>1. CASE p = "honest-delivery-refusal"
      <4>1. l \in Free(Pages({"honest-delivery-refusal"}))
        BY <2>1, <3>1, GetsIn DEF Free, Link
      <4> QED BY <4>1 DEF Handwritten, ServerCards
    <3>2. CASE p = ".well-known/tool-result-digest.json"
      <4>1. l.op \in Pages({".well-known/mcp/coordination-thread.json", ".well-known/tool-result-digest.json"})
        BY <2>1, <3>2, GetsIn
      <4>2. l \in manifest
        BY <2>1, <4>1 DEF manifest, Free, Link
      <4> QED BY <4>2 DEF Handwritten
    <3> QED BY <3>1, <3>2 DEF Unserved
  <2> QED BY <2>5, <2>6, AnswerIs DEF Published, Documents
<1>8. \A l \in Wrong : l.promise # "pay"
  BY LinkParts DEF Wrong, Mounts
<1> HIDE DEF T, H
<1>9. \A l \in Wrong : l \in Published(b) /\ Answer(b, T, H, l.op) # IF l.promise = "pay" THEN 402 ELSE 200
  BY <1>4, <1>5, <1>6, <1>7, <1>8 DEF Wrong
<1> QED BY <1>9 DEF Lies, T, H, b

\* A working version lies of nothing new, edited routes' handwritten lines apart.
LEMMA WorkingIsTruthful ==
    ASSUME NEW b \in Builds, Working(b)
    PROVE  b \in Truthful
<1> DEFINE T == Priced(b)
           H == Handlers(b)
           lost == Free(Samples({"discover"} \cap Edited(b, {"sampleless"})))
           first == Lies(Off.build, Published(Off.build))
<1>1. ASSUME NEW l \in Honest(b)
      PROVE  Answer(b, T, H, l.op) = IF l.promise = "pay" THEN 402 ELSE 200
  <2>1. CASE l \in Pay(T)
    <3>1. l.op \in T /\ l.promise = "pay"
      BY <2>1, LinkParts
    <3> QED BY <3>1, Charged
  <2>2. CASE l \in Free(Open(b))
    <3>1. l.op \in Open(b) /\ l.promise = "free"
      BY <2>2, LinkParts
    <3> QED BY <3>1 DEF Open
  <2> QED BY <1>1, <2>1, <2>2 DEF Honest
<1>2. LeftBehind(b) = About(_llms_catalog(b), Changed(b) \ LlmsFlag) \cup About(ToolLinks(b), Changed(b) \ Flagged)
                      \cup About(Handwritten, Changed(b)) \cup lost
  BY DEF LeftBehind, Changed
<1>3. Sound(b, Changed(b), Handwritten)
  BY SkillFileSound, CardsSound, IndexesSound, HallSound, SoundUnions DEF Handwritten
<1>4. Sound(b, {}, Generated(b, T) \ lost)
  BY TableDocuments, OpenApiDocument, WalletSkill DEF Generated, Sound
<1>5. Published(b) = Generated(b, T) \cup _llms_catalog(b) \cup ToolLinks(b) \cup Handwritten
  BY DEF Published, Documents
<1> HIDE DEF T, H, lost, first
<1>6. ASSUME NEW l \in Published(b), l \notin Honest(b)
      PROVE  l \in first \cup LeftBehind(b)
  <2>1. Wrong \subseteq first
    BY WrongFirst DEF first
  <2>2. CASE l \in Generated(b, T)
    BY <1>2, <1>4, <1>6, <2>1, <2>2 DEF Sound
  <2>3. CASE l \in _llms_catalog(b)
    BY <1>2, <1>6, <2>1, <2>3, LlmsDocument DEF Sound, About
  <2>4. CASE l \in ToolLinks(b)
    BY <1>2, <1>6, <2>1, <2>4, ToolsDocument DEF Sound, About
  <2>5. CASE l \in Handwritten
    BY <1>2, <1>3, <1>6, <2>1, <2>5 DEF Sound, About
  <2> QED BY <1>5, <1>6, <2>2, <2>3, <2>4, <2>5
<1>7. \A l \in Lies(b, Published(b)) :
          l \in Published(b) /\ Answer(b, T, H, l.op) # IF l.promise = "pay" THEN 402 ELSE 200
  BY DEF Lies, T, H
<1>8. Lies(b, Published(b)) \subseteq first \cup LeftBehind(b)
  BY <1>1, <1>6, <1>7
<1> QED BY <1>8 DEF Truthful, first

\* A deploy makes no document lie about a route it did not edit, nor one that
\* follows the table or a flag about any route, when the Fossoyeur digs up no
\* unaccepted edit: what the live process publishes and does not answer as it
\* says was published in vain by the first version, or is a line written by hand
\* about an edited route (discovery.py, openapi_custom.py, accueil.py,
\* agent_trust_kit.py, mcp_server.py).
THEOREM DocumentsStayTrue == ~UncheckedEdits => (Spec => []DocumentsTellTheTruth)
<1> SUFFICES ASSUME ~UncheckedEdits PROVE Spec => []DocumentsTellTheTruth
  OBVIOUS
<1>1. SlotsInv /\ [Next]_vars => SlotsInv'
  BY SlotsStep
<1>2. SlotsInv => DocumentsTellTheTruth
  <2> SUFFICES ASSUME SlotsInv PROVE slot[live].build \in Truthful
    BY DEF DocumentsTellTheTruth
  <2>1. slot[live].build \in Builds /\ Working(slot[live].build) /\ live \in Slots
    BY DEF SlotsInv, SlotTypes, Processes, AllWork
  <2> QED BY <2>1, WorkingIsTruthful
<1> QED BY <1>1, <1>2, SlotsInit, PTL DEF Spec

-----------------------------------------------------------------------------
(* The mechanical roles.                                                   *)

\* What the runs assume of their constants
LEMMA RunsConstants == "fossoyeur" \notin InContainer /\ MaxRuns \in Nat
BY OfficeConstants DEF Runs!RunConstants

RunStatuses == {"none", "requested", "running", "done", "error"}
Rows == [id : 0..MaxRuns, recent : BOOLEAN, status : RunStatuses]
Places == [at : {"away", "digging", "building"}, id : 0..MaxRuns]

\* The types the argument needs
RunTypes ==
    /\ row \in [Runs!Roles -> Rows]
    /\ tasks \subseteq [role : InContainer, id : 1..MaxRuns]
    /\ digger \in [Diggers -> Places]
    /\ registry \in [DeadRoutes -> {"live", "retired"}]
    /\ served \subseteq DeadRoutes
    /\ cut \subseteq InContainer /\ botched \in BOOLEAN

\* A run that executes is the one its row tells of, and the row says so: what
\* lets manual_run_allowed refuse the second click
TasksAreRows ==
    \A t \in tasks : t.id = row[t.role].id /\ row[t.role].status = "running"

RunsInv == RunTypes /\ TasksAreRows /\ Runs!RetiredIsNotServed

\* The start: nothing has run
LEMMA RunsStart == Runs!Init => RunsInv
<1> SUFFICES ASSUME Runs!Init PROVE RunsInv
  OBVIOUS
<1>1. 0 \in 0..MaxRuns
  BY RunsConstants
<1>2. RunTypes
  BY <1>1 DEF Runs!Init, RunTypes, Rows, RunStatuses, Places, Runs!Away
<1>3. TasksAreRows /\ Runs!RetiredIsNotServed
  BY DEF Runs!Init, TasksAreRows, Runs!RetiredIsNotServed
<1> QED BY <1>2, <1>3 DEF RunsInv

-----------------------------------------------------------------------------
(* The rows and the tasks.                                                 *)

\* A role is started when its row says that nothing runs
LEMMA RunInContainerKeeps ==
    ASSUME RunsInv, NEW role \in InContainer, Runs!RunInContainer(role) PROVE RunsInv'
<1> role \in Runs!Roles
  BY DEF Runs!Roles
<1>1. row[role] \in Rows /\ row[role].id + 1 \in 1..MaxRuns
  <2>1. row[role] \in Rows /\ row[role].id < MaxRuns
    BY DEF Runs!RunInContainer, RunsInv, RunTypes
  <2> QED BY <2>1, RunsConstants DEF Rows
<1>2. [id |-> row[role].id + 1, status |-> "running", recent |-> TRUE] \in Rows
  BY <1>1 DEF Rows, RunStatuses
<1>3. row' = [row EXCEPT ![role] = [id |-> row[role].id + 1, status |-> "running", recent |-> TRUE]]
  BY DEF Runs!RunInContainer, Runs!start_manual_run
<1>4. RunTypes'
  BY <1>1, <1>2, <1>3 DEF Runs!RunInContainer, RunsInv, RunTypes
<1>5. \A t \in tasks : t.role # role
  BY DEF Runs!RunInContainer, Runs!manual_run_allowed, RunsInv, TasksAreRows
<1>6. TasksAreRows'
  <2>1. ASSUME NEW t \in tasks PROVE t.id = row'[t.role].id /\ row'[t.role].status = "running"
    <3>1. t.role \in Runs!Roles /\ t.role # role
      BY <1>5 DEF RunsInv, RunTypes, Runs!Roles
    <3> QED BY <1>3, <3>1 DEF RunsInv, RunTypes, TasksAreRows
  <2>2. row'[role].id = row[role].id + 1 /\ row'[role].status = "running"
    BY <1>3 DEF RunsInv, RunTypes
  <2> QED BY <2>1, <2>2 DEF Runs!RunInContainer, TasksAreRows
<1>7. Runs!RetiredIsNotServed'
  BY DEF Runs!RunInContainer, RunsInv, Runs!RetiredIsNotServed
<1> QED BY <1>4, <1>6, <1>7 DEF RunsInv

\* The fossoyeur's row has no task in the container
LEMMA HostRow ==
    ASSUME RunsInv, row' \in [Runs!Roles -> Rows], tasks' \subseteq tasks,
           \A role \in InContainer : row'[role] = row[role]
    PROVE  TasksAreRows'
BY DEF RunsInv, RunTypes, TasksAreRows

\* The request to the host writes the row of the fossoyeur
LEMMA RequestOnHostKeeps == ASSUME RunsInv, Runs!RequestOnHost PROVE RunsInv'
<1> DEFINE new == [id |-> row["fossoyeur"].id + 1, status |-> "requested", recent |-> TRUE]
<1>1. row' = [row EXCEPT !["fossoyeur"] = new]
  BY DEF Runs!RequestOnHost, Runs!start_manual_run
<1>2. "fossoyeur" \in Runs!Roles
  BY DEF Runs!Roles
<1>3. new \in Rows
  <2>1. row["fossoyeur"] \in Rows /\ row["fossoyeur"].id < MaxRuns
    BY <1>2 DEF Runs!RequestOnHost, RunsInv, RunTypes
  <2> QED BY <2>1, RunsConstants DEF Rows, RunStatuses
<1>4. row' \in [Runs!Roles -> Rows] /\ \A role \in InContainer : row'[role] = row[role]
  BY <1>1, <1>2, <1>3, RunsConstants DEF RunsInv, RunTypes, Runs!Roles
<1>5. TasksAreRows'
  BY <1>4, HostRow DEF Runs!RequestOnHost
<1> QED BY <1>4, <1>5 DEF Runs!RequestOnHost, RunsInv, RunTypes, Runs!RetiredIsNotServed

\* What a script's end writes is a row again, of its role alone
LEMMA Finishes ==
    ASSUME RunTypes, NEW role \in Runs!Roles, NEW id, NEW status \in RunStatuses,
           Runs!finish_manual_run(role, id, status)
    PROVE  /\ row' \in [Runs!Roles -> Rows]
           /\ \A other \in Runs!Roles \ {role} : row'[other] = row[other]
<1> DEFINE s == IF row[role].id = id THEN status ELSE row[role].status
<1>1. row' = [row EXCEPT ![role] = [row[role] EXCEPT !.status = s]]
  BY DEF Runs!finish_manual_run, RunTypes
<1>2. [row[role] EXCEPT !.status = s] \in Rows
  BY DEF RunTypes, Rows
<1> HIDE DEF s
<1> QED BY <1>1, <1>2 DEF RunTypes

\* A task that ends writes its own row
LEMMA TaskEndsKeeps ==
    ASSUME RunsInv, NEW t \in tasks, NEW outcome \in {"done", "error"}, Runs!TaskEnds(t, outcome)
    PROVE  RunsInv'
<1>1. t.role \in InContainer /\ t.role \in Runs!Roles /\ t \in [role : InContainer, id : 1..MaxRuns]
  BY DEF RunsInv, RunTypes, Runs!Roles
<1>2. row' \in [Runs!Roles -> Rows] /\ \A other \in Runs!Roles \ {t.role} : row'[other] = row[other]
  BY <1>1, Finishes DEF Runs!TaskEnds, RunsInv, RunStatuses
<1>3. \A u \in tasks \ {t} : u.role \in Runs!Roles \ {t.role}
  BY <1>1 DEF RunsInv, RunTypes, TasksAreRows, Runs!Roles
<1>4. TasksAreRows'
  BY <1>2, <1>3 DEF Runs!TaskEnds, RunsInv, TasksAreRows
<1> QED BY <1>2, <1>4 DEF Runs!TaskEnds, RunsInv, RunTypes, Runs!RetiredIsNotServed

\* Five minutes pass
LEMMA CooldownKeeps ==
    ASSUME RunsInv, NEW role \in Runs!Roles, Runs!Cooldown(role) PROVE RunsInv'
<1>1. row' = [row EXCEPT ![role] = [row[role] EXCEPT !.recent = FALSE]]
  BY DEF Runs!Cooldown, RunsInv, RunTypes
<1>2. [row[role] EXCEPT !.recent = FALSE] \in Rows
  BY DEF RunsInv, RunTypes, Rows
<1>3. row' \in [Runs!Roles -> Rows]
  BY <1>1, <1>2 DEF RunsInv, RunTypes
<1>4. \A r \in Runs!Roles : row'[r].id = row[r].id /\ row'[r].status = row[r].status
  BY <1>1 DEF RunsInv, RunTypes, Rows
<1>5. TasksAreRows'
  BY <1>4 DEF Runs!Cooldown, RunsInv, RunTypes, TasksAreRows, Runs!Roles
<1> QED BY <1>3, <1>5 DEF Runs!Cooldown, RunsInv, RunTypes, Runs!RetiredIsNotServed

\* A container that stops has no task
LEMMA RestartKeeps == ASSUME RunsInv, Runs!Restart PROVE RunsInv'
BY DEF Runs!Restart, Runs!ContainerStops, RunsInv, RunTypes, TasksAreRows, Runs!RetiredIsNotServed

-----------------------------------------------------------------------------
(* The processes of the fossoyeur.                                         *)

\* A process at the door takes up a request, or comes by itself
LEMMA ArrivalKeeps ==
    ASSUME RunsInv, NEW d \in Diggers, Runs!Poll(d) \/ Runs!Cron(d) PROVE RunsInv'
<1>1. PICK n \in 0..MaxRuns : digger' = [digger EXCEPT ![d] = [at |-> "digging", id |-> n]]
  <2>1. 0 \in 0..MaxRuns
    BY RunsConstants
  <2>2. row["fossoyeur"].id \in 0..MaxRuns
    BY DEF RunsInv, RunTypes, Rows, Runs!Roles
  <2> QED BY <2>1, <2>2 DEF Runs!Poll, Runs!Cron
<1>2. digger' \in [Diggers -> Places]
  BY <1>1 DEF RunsInv, RunTypes, Places
<1>3. \A e \in Diggers : digger[e].at = "building" => digger'[e].at = "building"
  BY <1>1 DEF Runs!Poll, Runs!Cron, Runs!Away, RunsInv, RunTypes
<1> QED BY <1>2, <1>3 DEF Runs!Poll, Runs!Cron, RunsInv, RunTypes, TasksAreRows, Runs!RetiredIsNotServed

\* The rows of the container stay as they are when a process of the host ends
LEMMA HostFinishes ==
    ASSUME RunsInv, NEW id, NEW status \in RunStatuses,
           Runs!finish_manual_run("fossoyeur", id, status), tasks' \subseteq tasks
    PROVE  row' \in [Runs!Roles -> Rows] /\ TasksAreRows'
<1>1. "fossoyeur" \in Runs!Roles
  BY DEF Runs!Roles
<1>2. row' \in [Runs!Roles -> Rows] /\ \A other \in Runs!Roles \ {"fossoyeur"} : row'[other] = row[other]
  BY <1>1, Finishes DEF RunsInv
<1>3. \A role \in InContainer : row'[role] = row[role]
  BY <1>2, RunsConstants DEF Runs!Roles
<1> QED BY <1>2, <1>3, HostRow

\* A process that was not between the registry and the image leaves no gap
LEMMA LeavingKeeps ==
    ASSUME RunsInv, NEW d \in Diggers, Runs!Leaves(d)
    PROVE  /\ digger' \in [Diggers -> Places]
           /\ \A e \in Diggers \ {d} : digger'[e] = digger[e]
<1>1. 0 \in 0..MaxRuns
  BY RunsConstants
<1>2. Runs!Away \in Places
  BY <1>1 DEF Runs!Away, Places
<1> QED BY <1>2 DEF Runs!Leaves, RunsInv, RunTypes

\* A process that finds nothing leaves the registry and the image
LEMMA FindsNothingKeeps ==
    ASSUME RunsInv, NEW d \in Diggers, Runs!FindsNothing(d) PROVE RunsInv'
<1>1. row' \in [Runs!Roles -> Rows] /\ TasksAreRows'
  BY HostFinishes DEF Runs!FindsNothing, RunStatuses
<1>2. digger' \in [Diggers -> Places] /\ \A e \in Diggers \ {d} : digger'[e] = digger[e]
  BY LeavingKeeps DEF Runs!FindsNothing
<1>3. digger[d].at # "building"
  BY DEF Runs!FindsNothing
<1>4. Runs!RetiredIsNotServed'
  BY <1>2, <1>3 DEF Runs!FindsNothing, RunsInv, Runs!RetiredIsNotServed
<1> QED BY <1>1, <1>2, <1>4 DEF Runs!FindsNothing, RunsInv, RunTypes

\* A process that retires routes is behind the registry and before the image
LEMMA RetireKeeps == ASSUME RunsInv, NEW d \in Diggers, Runs!Retire(d) PROVE RunsInv'
<1>1. digger' = [digger EXCEPT ![d] = [digger[d] EXCEPT !.at = "building"]]
  BY DEF Runs!Retire, RunsInv, RunTypes
<1>2. [digger[d] EXCEPT !.at = "building"] \in Places
  BY DEF RunsInv, RunTypes, Places
<1>3. digger' \in [Diggers -> Places] /\ digger'[d].at = "building"
  BY <1>1, <1>2 DEF RunsInv, RunTypes, Places
<1>4. registry' \in [DeadRoutes -> {"live", "retired"}]
  BY DEF Runs!Retire
<1> QED BY <1>3, <1>4 DEF Runs!Retire, RunsInv, RunTypes, TasksAreRows, Runs!RetiredIsNotServed

\* The image is what the registry says
LEMMA RedeployKeeps ==
    ASSUME RunsInv, NEW d \in Diggers, Runs!Redeploy(d) PROVE RunsInv'
<1>1. row' \in [Runs!Roles -> Rows] /\ TasksAreRows'
  BY HostFinishes DEF Runs!Redeploy, Runs!ContainerStops, RunStatuses
<1>2. digger' \in [Diggers -> Places]
  BY LeavingKeeps DEF Runs!Redeploy
<1>3. Runs!RetiredIsNotServed'
  BY DEF Runs!Redeploy, Runs!RetiredIsNotServed
<1> QED BY <1>1, <1>2, <1>3 DEF Runs!Redeploy, Runs!ContainerStops, RunsInv, RunTypes

\* A build that fails is noted
LEMMA BuildFailsKeeps ==
    ASSUME RunsInv, NEW d \in Diggers, Runs!BuildFails(d) PROVE RunsInv'
<1>1. row' \in [Runs!Roles -> Rows] /\ TasksAreRows'
  BY HostFinishes DEF Runs!BuildFails, RunStatuses
<1>2. digger' \in [Diggers -> Places]
  BY LeavingKeeps DEF Runs!BuildFails
<1> QED BY <1>1, <1>2 DEF Runs!BuildFails, RunsInv, RunTypes, Runs!RetiredIsNotServed

\* and so is a process that dies before it
LEMMA DiggerDiesKeeps ==
    ASSUME RunsInv, NEW d \in Diggers, Runs!DiggerDies(d) PROVE RunsInv'
<1>1. digger' \in [Diggers -> Places] /\ \A e \in Diggers \ {d} : digger'[e] = digger[e]
  BY LeavingKeeps DEF Runs!DiggerDies
<1>2. digger[d].at = "building" => botched'
  BY DEF Runs!DiggerDies
<1>3. Runs!RetiredIsNotServed'
  BY <1>1, <1>2 DEF Runs!DiggerDies, RunsInv, Runs!RetiredIsNotServed
<1> QED BY <1>1, <1>3 DEF Runs!DiggerDies, RunsInv, RunTypes, TasksAreRows

-----------------------------------------------------------------------------
\* Each step of the roles keeps their invariant
LEMMA RunsSteps == ASSUME RunsInv, Runs!Next \/ UNCHANGED runs PROVE RunsInv'
<1>1. CASE UNCHANGED runs
  BY <1>1 DEF runs, RunsInv, RunTypes, TasksAreRows, Runs!RetiredIsNotServed
<1>2. ASSUME NEW role \in InContainer, Runs!RunInContainer(role) PROVE RunsInv'
  BY <1>2, RunInContainerKeeps
<1>3. CASE Runs!RequestOnHost
  BY <1>3, RequestOnHostKeeps
<1>4. ASSUME NEW t \in tasks, NEW outcome \in {"done", "error"}, Runs!TaskEnds(t, outcome) PROVE RunsInv'
  BY <1>4, TaskEndsKeeps
<1>5. ASSUME NEW role \in Runs!Roles, Runs!Cooldown(role) PROVE RunsInv'
  BY <1>5, CooldownKeeps
<1>6. CASE Runs!Restart
  BY <1>6, RestartKeeps
<1>7. ASSUME NEW d \in Diggers, Runs!Poll(d) \/ Runs!Cron(d) \/ Runs!Dig(d) \/ Runs!DiggerDies(d) PROVE RunsInv'
  BY <1>7, ArrivalKeeps, FindsNothingKeeps, RetireKeeps, RedeployKeeps, BuildFailsKeeps, DiggerDiesKeeps DEF Runs!Dig
<1> QED BY <1>1, <1>2, <1>3, <1>4, <1>5, <1>6, <1>7 DEF Runs!Next

-----------------------------------------------------------------------------
(* The requests to the PC and its loop.                                    *)

PCInv == PC!TypeOK /\ PC!OnlyTheNewestWaits

PCStatuses == {"requested", "running", "done", "error", "timeout"}
PCRequests == [role : PC!RequestRoles, started : BOOLEAN, stale : BOOLEAN, status : PCStatuses]
LoopStates == [status : {"stopped", "running"}, rejections : 0..MaxCount, exists : BOOLEAN]

\* What the PC's part assumes of its constants
LEMMA PCConstants == MaxRequests \in Nat /\ MaxCount \in Nat
BY OfficeConstants DEF PC!RequestConstants

\* The requests are a sequence
LEMMA RequestsAreListed == ASSUME PC!TypeOK PROVE
    /\ requests \in Seq(PCRequests) /\ Len(requests) \in Nat /\ DOMAIN requests = 1..Len(requests)
    /\ \A i \in 1..Len(requests) : requests[i] \in PCRequests
<1>1. requests \in Seq(PCRequests)
  BY DEF PC!TypeOK, PCRequests, PCStatuses
<1> QED BY <1>1, LenProperties, ElementOfSeq

\* The start: nothing was requested
LEMMA PCStarts == PC!Init => PCInv
<1> SUFFICES ASSUME PC!Init PROVE PCInv
  OBVIOUS
<1>1. 0 \in 0..MaxCount
  BY PCConstants
<1>2. requests = <<>> /\ atWork = {} /\ loop \in LoopStates
  BY <1>1 DEF PC!Init, LoopStates
<1>3. requests \in Seq(PCRequests) /\ Len(requests) = 0
  BY <1>2, EmptySeq
<1>4. PC!TypeOK
  BY <1>2, <1>3 DEF PC!TypeOK, PCRequests, PCStatuses, LoopStates
<1>5. PC!OnlyTheNewestWaits
  BY <1>3 DEF PC!OnlyTheNewestWaits, PC!Ids
<1> QED BY <1>4, <1>5 DEF PCInv

\* One request is written
LEMMA OneRequest ==
    ASSUME PCInv, NEW i \in PC!Ids, NEW r \in PCRequests, requests' = [requests EXCEPT ![i] = r],
           r.status = "requested" => requests[i].status = "requested",
           atWork' \subseteq atWork, UNCHANGED loop
    PROVE  PCInv'
<1>1. /\ requests \in Seq(PCRequests) /\ i \in 1..Len(requests)
  BY RequestsAreListed DEF PCInv, PC!Ids
<1>2. /\ requests' \in Seq(PCRequests) /\ Len(requests') = Len(requests)
      /\ \A j \in 1..Len(requests) : requests'[j] = IF j = i THEN r ELSE requests[j]
  BY <1>1, ExceptSeq
<1>3. PC!TypeOK'
  BY <1>2 DEF PCInv, PC!TypeOK, PC!Ids, PCRequests, PCStatuses
<1>4. PC!OnlyTheNewestWaits'
  BY <1>1, <1>2 DEF PCInv, PC!OnlyTheNewestWaits, PC!Ids
<1> QED BY <1>3, <1>4 DEF PCInv

\* No request is written
LEMMA NoRequest ==
    ASSUME PCInv, UNCHANGED requests, atWork' \subseteq PC!Ids, loop' \in LoopStates
    PROVE  PCInv'
BY DEF PCInv, PC!TypeOK, PC!OnlyTheNewestWaits, PC!Ids, LoopStates

\* _expire_if_stale ends requests, and makes none
LEMMA ExpiryEnds == ASSUME PC!TypeOK PROVE
    /\ PC!Expired(requests) \in Seq(PCRequests) /\ Len(PC!Expired(requests)) = Len(requests)
    /\ \A i \in 1..Len(requests) :
          PC!Expired(requests)[i].status = "requested" => requests[i].status = "requested"
<1> DEFINE E == PC!Expired(requests)
<1>1. /\ requests \in Seq(PCRequests) /\ Len(requests) \in Nat /\ DOMAIN requests = 1..Len(requests)
      /\ \A i \in 1..Len(requests) : requests[i] \in PCRequests
  BY RequestsAreListed
<1>2. /\ DOMAIN E = 1..Len(requests)
      /\ \A i \in 1..Len(requests) :
            E[i] = requests[i] \/ E[i] = [requests[i] EXCEPT !.status = "timeout"]
  BY <1>1 DEF PC!Expired
<1>3. ASSUME NEW i \in 1..Len(requests)
      PROVE  E[i] \in PCRequests /\ (E[i].status = "requested" => requests[i].status = "requested")
  <2>1. requests[i] \in PCRequests
    BY <1>1
  <2>2. [requests[i] EXCEPT !.status = "timeout"] \in PCRequests
    BY <2>1 DEF PCRequests, PCStatuses
  <2>3. [requests[i] EXCEPT !.status = "timeout"].status = "timeout"
    BY <2>1 DEF PCRequests
  <2> QED BY <1>2, <2>1, <2>2, <2>3
<1>4. E = [i \in DOMAIN requests |-> E[i]]
  BY DEF PC!Expired
<1> HIDE DEF E
<1>5. E \in [1..Len(requests) -> PCRequests]
  BY <1>1, <1>3, <1>4
<1>6. E \in Seq(PCRequests)
  BY <1>1, <1>5, SeqDef
<1>7. Len(E) = Len(requests)
  <2>1. Len(E) \in Nat /\ DOMAIN E = 1..Len(E)
    BY <1>6, LenProperties
  <2> QED BY <1>1, <1>2, <2>1
<1> QED BY <1>3, <1>6, <1>7 DEF E

\* A request is made when the newest one has ended
LEMMA RequestFromPCKeeps ==
    ASSUME PCInv, NEW role \in PC!RequestRoles, PC!RequestFromPC(role) PROVE PCInv'
<1> DEFINE E == PC!Expired(requests)
           r == [role |-> role, started |-> FALSE, stale |-> FALSE, status |-> "requested"]
<1>1. /\ ~PC!Blocks(E) /\ requests' = Append(E, r) /\ UNCHANGED <<atWork, loop>>
  BY DEF PC!RequestFromPC
<1>2. /\ E \in Seq(PCRequests) /\ Len(E) = Len(requests) /\ Len(requests) \in Nat
      /\ \A i \in 1..Len(requests) : E[i].status = "requested" => requests[i].status = "requested"
  BY ExpiryEnds, RequestsAreListed DEF PCInv
<1>3. r \in PCRequests
  BY DEF PCRequests, PCStatuses
<1> HIDE DEF E, r
<1>4. /\ requests' \in Seq(PCRequests) /\ Len(requests') = Len(requests) + 1
      /\ \A i \in 1..Len(requests) : requests'[i] = E[i]
  BY <1>1, <1>2, <1>3, AppendProperties
<1>5. PC!TypeOK'
  BY <1>1, <1>2, <1>4 DEF PCInv, PC!TypeOK, PC!Ids, PCRequests, PCStatuses
<1>6. ASSUME NEW i \in 1..Len(requests) PROVE E[i].status # "requested"
  <2>1. SUFFICES ASSUME E[i].status = "requested" PROVE FALSE
    OBVIOUS
  <2>2. i = Len(requests)
    BY <1>2, <2>1 DEF PCInv, PC!OnlyTheNewestWaits, PC!Ids
  <2>3. E # <<>>
    BY <1>2, <2>2, EmptySeq
  <2> QED BY <1>1, <1>2, <2>1, <2>2, <2>3 DEF PC!Blocks, PC!Pending
<1>7. PC!OnlyTheNewestWaits'
  <2> SUFFICES ASSUME NEW i \in 1..Len(requests'), requests'[i].status = "requested" PROVE i = Len(requests')
    BY DEF PC!OnlyTheNewestWaits, PC!Ids
  <2>1. i \notin 1..Len(requests)
    BY <1>4, <1>6
  <2> QED BY <1>2, <1>4, <2>1
<1> QED BY <1>5, <1>7 DEF PCInv

\* A look at the dashboard
LEMMA LatestKeeps == ASSUME PCInv, PC!latest_pc_request PROVE PCInv'
<1>1. /\ requests' \in Seq(PCRequests) /\ Len(requests') = Len(requests)
      /\ \A i \in 1..Len(requests) : requests'[i].status = "requested" => requests[i].status = "requested"
      /\ UNCHANGED <<atWork, loop>>
  BY ExpiryEnds DEF PCInv, PC!latest_pc_request
<1>2. PC!TypeOK'
  BY <1>1 DEF PCInv, PC!TypeOK, PC!Ids, PCRequests, PCStatuses
<1>3. PC!OnlyTheNewestWaits'
  BY <1>1 DEF PCInv, PC!OnlyTheNewestWaits, PC!Ids
<1> QED BY <1>2, <1>3 DEF PCInv

\* Time passes for a request
LEMMA TwentyMinutesKeeps == ASSUME PCInv, NEW i \in PC!Ids, PC!TwentyMinutes(i) PROVE PCInv'
<1> DEFINE r == [requests[i] EXCEPT !.stale = TRUE]
<1>1. requests[i] \in PCRequests
  BY RequestsAreListed DEF PCInv, PC!Ids
<1>2. requests' = [requests EXCEPT ![i] = r] /\ UNCHANGED <<atWork, loop>>
  BY DEF PC!TwentyMinutes
<1>3. r \in PCRequests /\ r.status = requests[i].status
  BY <1>1 DEF PCRequests
<1> HIDE DEF r
<1> QED BY <1>2, <1>3, OneRequest

\* The PC reports that it runs a request, which then waits no more
LEMMA ReportRunningKeeps == ASSUME PCInv, NEW i \in PC!Ids, PC!ReportRunning(i) PROVE PCInv'
<1> DEFINE s == requests[i].stale /\ requests[i].started
           r == [[[requests[i] EXCEPT !.status = "running"] EXCEPT !.started = TRUE] EXCEPT !.stale = s]
<1>1. requests[i] \in PCRequests /\ requests \in Seq(PCRequests) /\ i \in 1..Len(requests)
  BY RequestsAreListed DEF PCInv, PC!Ids
<1>2. s \in BOOLEAN
  OBVIOUS
<1>3. requests' = [requests EXCEPT ![i].status = "running", ![i].started = TRUE,
                                   ![i].stale = @ /\ requests[i].started]
      /\ UNCHANGED <<atWork, loop>>
  BY DEF PC!ReportRunning
<1>4. requests \in [1..Len(requests) -> PCRequests]
  BY <1>1, LenProperties
<1>5. [[requests[i] EXCEPT !.status = "running"] EXCEPT !.started = TRUE].stale = requests[i].stale
  BY <1>1 DEF PCRequests
<1>6. requests' = [requests EXCEPT ![i] = r]
  BY <1>1, <1>3, <1>4, <1>5
<1> HIDE DEF s
<1>7. r \in PCRequests /\ r.status = "running"
  BY <1>1, <1>2 DEF PCRequests, PCStatuses
<1> HIDE DEF r
<1> QED BY <1>3, <1>6, <1>7, OneRequest

\* The PC reports the end of a request
LEMMA ReportEndKeeps ==
    ASSUME PCInv, NEW i \in PC!Ids, NEW status \in {"done", "error"}, PC!ReportEnd(i, status) PROVE PCInv'
<1> DEFINE r == [requests[i] EXCEPT !.status = status]
<1>1. requests[i] \in PCRequests
  BY RequestsAreListed DEF PCInv, PC!Ids
<1>2. requests' = [requests EXCEPT ![i] = r] /\ atWork' \subseteq atWork /\ UNCHANGED loop
  BY DEF PC!ReportEnd
<1>3. r \in PCRequests /\ r.status = status
  BY <1>1 DEF PCRequests, PCStatuses
<1> HIDE DEF r
<1> QED BY <1>2, <1>3, OneRequest

\* The loop has a row of its own
LEMMA LoopKeeps ==
    ASSUME PCInv, PC!LoopStarted \/ PC!LoopStopped \/ \E rejected \in BOOLEAN : PC!LoopCycle(rejected)
    PROVE  PCInv'
<1>1. UNCHANGED <<requests, atWork>> /\ loop \in LoopStates
  BY DEF PC!LoopStarted, PC!LoopStopped, PC!LoopCycle, PCInv, PC!TypeOK, LoopStates
<1>2. ASSUME PC!LoopStarted PROVE loop' \in LoopStates
  <2>1. 0 \in 0..MaxCount
    BY PCConstants
  <2> QED BY <1>2, <2>1 DEF PC!LoopStarted, LoopStates
<1>3. ASSUME PC!LoopStopped PROVE loop' \in LoopStates
  BY <1>1, <1>3 DEF PC!LoopStopped, LoopStates
<1>4. ASSUME NEW rejected \in BOOLEAN, PC!LoopCycle(rejected) PROVE loop' \in LoopStates
  <2> DEFINE n == IF ~loop.exists THEN 0 ELSE IF rejected THEN loop.rejections + 1 ELSE 0
  <2>1. loop' = [loop EXCEPT !.rejections = n] /\ loop.rejections < MaxCount
    BY <1>4 DEF PC!LoopCycle
  <2>2. n \in 0..MaxCount
    BY <1>1, <2>1, PCConstants DEF LoopStates
  <2> HIDE DEF n
  <2> QED BY <1>1, <2>1, <2>2 DEF LoopStates
<1>5. loop' \in LoopStates
  BY <1>2, <1>3, <1>4
<1>6. atWork' \subseteq PC!Ids
  BY <1>1 DEF PCInv, PC!TypeOK
<1> QED BY <1>1, <1>5, <1>6, NoRequest

\* Each step of the PC's part keeps its invariant
LEMMA PCSteps == ASSUME PCInv, PC!Next \/ UNCHANGED pc PROVE PCInv'
<1>1. loop \in LoopStates /\ atWork \subseteq PC!Ids
  BY DEF PCInv, PC!TypeOK, LoopStates
<1>2. CASE UNCHANGED pc
  BY <1>1, <1>2, NoRequest DEF pc
<1>3. ASSUME NEW role \in PC!RequestRoles, PC!RequestFromPC(role) PROVE PCInv'
  BY <1>3, RequestFromPCKeeps
<1>4. CASE PC!latest_pc_request
  BY <1>4, LatestKeeps
<1>5. ASSUME NEW i \in PC!Ids, PC!TwentyMinutes(i) \/ PC!ReportRunning(i) PROVE PCInv'
  BY <1>5, TwentyMinutesKeeps, ReportRunningKeeps
<1>6. ASSUME NEW i \in PC!Ids, PC!TakeRequest(i) PROVE PCInv'
  <2>1. UNCHANGED <<requests, loop>> /\ atWork' \subseteq PC!Ids
    BY <1>1, <1>6 DEF PC!TakeRequest
  <2> QED BY <1>1, <2>1, NoRequest
<1>7. ASSUME NEW i \in PC!Ids, NEW status \in {"done", "error"}, PC!ReportEnd(i, status) PROVE PCInv'
  BY <1>7, ReportEndKeeps
<1>8. CASE PC!PCStops
  BY <1>1, <1>8, NoRequest DEF PC!PCStops
<1>9. CASE PC!LoopStarted \/ PC!LoopStopped \/ \E rejected \in BOOLEAN : PC!LoopCycle(rejected)
  BY <1>9, LoopKeeps
<1> QED BY <1>2, <1>3, <1>4, <1>5, <1>6, <1>7, <1>8, <1>9 DEF PC!Next

-----------------------------------------------------------------------------
(* The proposals.                                                          *)

IdeasInv == Ideas!TypeOK /\ Ideas!PaidSourcesNeedAHand

\* What the proposals assume of their constants
LEMMA IdeasConstants == MaxAttempts \in Nat
BY OfficeConstants DEF Ideas!ProposalConstants

\* The start: nothing was proposed
LEMMA IdeasStart == Ideas!Init => IdeasInv
BY IdeasConstants DEF Ideas!Init, IdeasInv, Ideas!TypeOK, Ideas!PaidSourcesNeedAHand

\* A proposal of a source that costs money is blocked, or left as it was inserted
LEMMA CreationKeeps ==
    ASSUME IdeasInv, NEW p \in Proposed, Ideas!CreateProposal(p) \/ Ideas!CreationIsCut(p) PROVE IdeasInv'
<1>1. PICK to \in {"proposed", "approved", "blocked"} :
         /\ proposal' = [proposal EXCEPT ![p] = to] /\ (p \in paying => to # "approved")
         /\ UNCHANGED <<paying, clicked, attempts>>
  BY DEF Ideas!CreateProposal, Ideas!CreationIsCut, Ideas!add_proposal, Ideas!Verdict
<1> QED BY <1>1 DEF IdeasInv, Ideas!TypeOK, Ideas!PaidSourcesNeedAHand

\* A click is remembered; only what was approved is closed
LEMMA ClickKeeps ==
    ASSUME IdeasInv, NEW p \in Proposed, NEW to \in {"approved", "blocked", "closed"}, Ideas!Click(p, to)
    PROVE  IdeasInv'
<1>1. /\ proposal' = [proposal EXCEPT ![p] = to] /\ clicked' = [clicked EXCEPT ![p] = @ \cup {to}]
      /\ UNCHANGED <<paying, attempts>>
      /\ to = "closed" => proposal[p] = "approved"
  BY DEF Ideas!Click, Ideas!Accepts
<1>2. Ideas!TypeOK'
  BY <1>1 DEF IdeasInv, Ideas!TypeOK
<1>3. Ideas!PaidSourcesNeedAHand'
  <2> SUFFICES ASSUME NEW q \in paying, proposal'[q] \in {"approved", "closed"} PROVE "approved" \in clicked'[q]
    BY <1>1 DEF Ideas!PaidSourcesNeedAHand
  <2>1. q \in Proposed
    BY DEF IdeasInv, Ideas!TypeOK
  <2>2. CASE q # p
    BY <1>1, <2>1, <2>2 DEF IdeasInv, Ideas!TypeOK, Ideas!PaidSourcesNeedAHand
  <2>3. CASE q = p
    BY <1>1, <2>1, <2>3 DEF IdeasInv, Ideas!TypeOK, Ideas!PaidSourcesNeedAHand
  <2> QED BY <2>2, <2>3
<1> QED BY <1>2, <1>3 DEF IdeasInv

\* Each step of the proposals keeps their invariant
LEMMA IdeasSteps == ASSUME IdeasInv, Ideas!Next \/ UNCHANGED ideas PROVE IdeasInv'
<1>1. CASE UNCHANGED ideas
  BY <1>1 DEF ideas, IdeasInv, Ideas!TypeOK, Ideas!PaidSourcesNeedAHand
<1>2. ASSUME NEW p \in Proposed, Ideas!CreateProposal(p) \/ Ideas!CreationIsCut(p) PROVE IdeasInv'
  BY <1>2, CreationKeeps
<1>3. ASSUME NEW p \in Proposed, NEW to \in {"approved", "blocked", "closed"}, Ideas!Click(p, to) PROVE IdeasInv'
  BY <1>3, ClickKeeps
<1>4. CASE Ideas!RepairFails \/ Ideas!RepairSucceeds
  <2>1. attempts' \in 0..MaxAttempts /\ UNCHANGED <<proposal, paying, clicked>>
    BY <1>4, IdeasConstants DEF Ideas!RepairFails, Ideas!RepairSucceeds, IdeasInv, Ideas!TypeOK
  <2> QED BY <2>1 DEF IdeasInv, Ideas!TypeOK, Ideas!PaidSourcesNeedAHand
<1> QED BY <1>1, <1>2, <1>3, <1>4 DEF Ideas!Next

-----------------------------------------------------------------------------
(* The theorems.                                                           *)

\* In a step of Office each of the three takes a step of its own or stands still
LEMMA EachPartStepsOrStands ==
    ASSUME [OfficeNext]_everything
    PROVE  /\ Runs!Next \/ UNCHANGED runs
           /\ PC!Next \/ UNCHANGED pc
           /\ Ideas!Next \/ UNCHANGED ideas
<1>1. CASE OfficeNext
  BY <1>1 DEF OfficeNext, Only
<1>2. CASE UNCHANGED everything
  BY <1>2 DEF everything
<1> QED BY <1>1, <1>2

OfficeInv == RunsInv /\ PCInv /\ IdeasInv

\* The invariant of the three holds
LEMMA OfficeInvariance == OfficeSpec => []OfficeInv
<1>1. SomePart => OfficeInv
  BY RunsStart, PCStarts, IdeasStart DEF SomePart, OfficeInv
<1>2. OfficeInv /\ [OfficeNext]_everything => OfficeInv'
  BY EachPartStepsOrStands, RunsSteps, PCSteps, IdeasSteps DEF OfficeInv
<1> QED BY <1>1, <1>2, PTL DEF OfficeSpec

\* WorkIsDoneOnce (Office.tla): a role has one run at a time in the container,
\* though the operator may click while a run outlasts the cooldown, restart it or
\* poll from the host (admin.py, db.manual_run_allowed); and the PC may be given
\* the newest request only (db.py).
THEOREM NoWorkTwice == OfficeSpec => []WorkIsDoneOnce
<1>1. RunsInv => Runs!OneRunPerRole
  <2> SUFFICES ASSUME RunsInv, NEW t \in tasks, NEW u \in tasks, t.role = u.role PROVE t = u
    BY DEF Runs!OneRunPerRole
  <2>1. t.id = u.id
    BY DEF RunsInv, TasksAreRows
  <2> QED BY <2>1 DEF RunsInv, RunTypes
<1>2. OfficeInv => WorkIsDoneOnce
  BY <1>1 DEF OfficeInv, PCInv, WorkIsDoneOnce
<1> QED BY <1>2, OfficeInvariance, PTL

\* RecordsAreTrue (Office.tla): a retired route is served only while a fossoyeur
\* rebuilds the image, or after one has failed between the two
\* (scripts/fossoyeur.py); a source that costs money is approved by hand
\* (admin.py); and the parts keep their types.
THEOREM TablesTellTheTruth == OfficeSpec => []RecordsAreTrue
<1>1. RunsInv => Runs!TypeOK
  BY DEF RunsInv, RunTypes, Rows, RunStatuses, Places, Runs!TypeOK
<1>2. OfficeInv => RecordsAreTrue
  BY <1>1 DEF OfficeInv, RunsInv, PCInv, IdeasInv, TypeOK, RecordsAreTrue
<1> QED BY <1>2, OfficeInvariance, PTL

\* The slots of Office are those of Deploy: every behaviour of Office is one of
\* Deploy, in which the steps of the other parts stutter.
THEOREM SlotsAreDeployed == OfficeSpec => Spec
<1>1. SomePart => Init
  BY DEF SomePart
<1>2. ASSUME [OfficeNext]_everything PROVE [Next]_vars
  <2>1. CASE OfficeNext
    BY <2>1 DEF OfficeNext, Only, slots
  <2>2. CASE UNCHANGED everything
    BY <2>2 DEF everything, slots
  <2> QED BY <1>2, <2>1, <2>2
<1> QED BY <1>1, <1>2, PTL DEF OfficeSpec, Spec
=============================================================================
