------------------------------- MODULE Catalogue -------------------------------
(***************************************************************************)
(* What one version of the code sells, serves and says of itself: the table*)
(* of priced routes, the paths that are gone, the handlers, and the links  *)
(* its documents publish.  Everything is an operator of the version, so    *)
(* that Deploy can compare the version being replaced with the next.       *)
(*                                                                         *)
(* A path is a tuple of segments: a route <<"research">>, its free sample  *)
(* <<"research", "sample">>, a page <<"llms.txt">>.  One engine stands for *)
(* the fifty-one compute routes and one for the twenty-nine Base readings. *)
(***************************************************************************)
EXTENDS Naturals, FiniteSets, Sequences

CONSTANTS
    Usine,      \* slugs the Ouvrier may publish
    Touched     \* core routes a developer edits

\* Of a route that is edited: its entries are gone, popped by its flag if it has
\* one ("off"), and it is listed in HAND_RETIRED_ROUTES too ("withdrawn"); its
\* entries and handlers are deleted ("dropped"), or its GET handler alone
\* ("deaf"); it leaves the twins' list ("untwinned"); it has lost its sample.
Works == {"sold", "off", "withdrawn", "dropped", "deaf", "untwinned", "sampleless"}
Statuses == {"none", "live", "retired"}
Builds == {[slugs |-> s, work |-> w] : s \in [Usine -> Statuses], w \in [Touched -> Works]}
Edited(b, works) == {r \in Touched : b.work[r] \in works}
Flagged == {"research", "sentiment", "classify", "intent", "spam-check", "toxicity", "language", "pii-check"}
FlagsOff(b) == Edited(b, {"off", "withdrawn"}) \cap Flagged

Post(S) == {<<"POST", <<r>>>> : r \in S}
Both(S) == Post(S) \cup {<<"GET", <<r>>>> : r \in S}
Samples(S) == {<<"GET", <<r, "sample">>>> : r \in S}
Pages(S) == {<<"GET", <<p>>>> : p \in S}
-----------------------------------------------------------------------------
(* The table of priced routes (x402_setup.py) *)

WebEntries == Post({"search", "translate", "jobs", "company-leads", "pdf", "web-read", "extract", "summarize"})
FeedEntries == Post({"fact-check", "discover"}) \cup Both({"weather", "crypto", "news"})
ReadingEntries == Both({"can-pay", "probe", "wallet-balance", "gas-price"})
EchoEntries == Both({"wallet-intelligence", "x402-echo", "tip"})
AgentEntries == Post({"agent-claim", "decide", "guard", "verify", "rank"}) \cup Both({"agent-health"})
TokenEntries == Post({"token-risk", "due-diligence", "research", "v1/chat/completions"}) \cup Both({"token-card"})
ClassifierEntries ==
    Post({"sentiment", "classify", "intent", "spam-check", "toxicity", "language", "pii-check"})
PinnedEntries == Post({"llm/claude-sonnet", "llm/gpt-mini", "llm/llama"})
Unlisted == {"llm/gemini-flash", "llm/deepseek"}        \* their flags are off
Twins ==
    {"search", "translate", "pdf", "web-read", "extract", "summarize", "discover", "decide", "guard", "verify",
     "rank", "token-risk", "due-diligence", "v1/chat/completions", "llm/llama", "llm/gpt-mini",
     "llm/claude-sonnet", "pii-check", "language", "toxicity", "spam-check", "intent", "classify", "sentiment",
     "research", "agent-claim", "fact-check", "jobs", "company-leads"}

Listed ==
    WebEntries \cup FeedEntries \cup ReadingEntries \cup EchoEntries \cup AgentEntries \cup TokenEntries
        \cup ClassifierEntries \cup PinnedEntries
_core_route_configs(b) ==
    LET posts == Listed \ Both(Edited(b, {"off", "withdrawn", "dropped"}))
    IN  posts \cup {k \in Both(Twins \ Edited(b, {"untwinned"})) : <<"POST", k[2]>> \in posts}

live_routes(b) == {u \in Usine : b.slugs[u] = "live"}
build_dynamic_route_configs(b) == Post(live_routes(b))
ComputeRoutes == {"text/slug"}
BaseRoutes == {"base/nonce"}
build_compute_route_configs == Both(ComputeRoutes)
build_rpc_route_configs == Both(BaseRoutes)

_build_route_configs_uncached(b) ==
    _core_route_configs(b) \cup build_dynamic_route_configs(b)
        \cup build_compute_route_configs \cup build_rpc_route_configs

HAND_RETIRED_ROUTES(b) == Unlisted \cup Edited(b, {"withdrawn"})
RETIRED_ROUTES(b) == HAND_RETIRED_ROUTES(b) \cup {u \in Usine : b.slugs[u] = "retired"}
match_retired(b, path) == Head(path) \in RETIRED_ROUTES(b)
-----------------------------------------------------------------------------
(* What is served (main.py's routers).  A handler stays when its entry goes. *)

CoreRoutes == {k[2][1] : k \in Listed} \cup Unlisted
CoreHandlers(b) ==
    ((Both(CoreRoutes) \ Both(Edited(b, {"dropped"}))) \ {<<"GET", <<r>>>> : r \in Edited(b, {"deaf"})})
        \cup Samples(CoreRoutes \ Edited(b, {"dropped", "sampleless"}))
GeneratedHandlers(b) == Post(live_routes(b)) \cup Samples(live_routes(b))
EngineHandlers == Both(ComputeRoutes \cup BaseRoutes) \cup Samples(ComputeRoutes \cup BaseRoutes)

WellKnown ==
    {".well-known/agent.json", ".well-known/agent-card.json", ".well-known/x402", ".well-known/x402.json",
     ".well-known/ai-catalog.json", ".well-known/ard.json", ".well-known/mcp.json", ".well-known/glama.json",
     ".well-known/security.txt", ".well-known/owners.json", ".well-known/mcp/server-card.json",
     ".well-known/mcp/relationship-memory.json", ".well-known/mcp/coordination-thread.json"}
DiscoveryNames ==
    {"", "agent.json", "discovery/resources", "glama.json", "server.json", "server-relationship-memory.json",
     "server-coordination-thread.json", "robots.txt", "sitemap.xml", "llms.txt",
     "skills/agentindex-x402/SKILL.md", "agentindex.md", "transparency"}
DiscoveryPages == Pages(WellKnown \cup DiscoveryNames)
SchemaNames ==
    {".well-known/agent-trust-kit.json", ".well-known/relationship-memory.json",
     ".well-known/coordination-thread-turn.json", ".well-known/coordination-thread-snapshot.json",
     ".well-known/honest-delivery-refusal.json", ".well-known/return-visit-pledge.json",
     ".well-known/tool-delivery-receipt.json"}
SchemaPages == Pages(SchemaNames)
Validators ==
    {"relationship-memory", "coordination-thread", "coordination-thread-snapshot", "honest-delivery-refusal",
     "return-visit-pledge", "tool-delivery-receipt"}
TrustKitPages ==
    {<<"POST", <<v, "validate">>>> : v \in Validators} \cup Samples(Validators)
        \cup {<<"POST", <<"relationship-memory", "store">>>>, <<"GET", <<"relationship-memory", "retrieve">>>>,
              <<"GET", <<"coordination-thread", "retrieve">>>>, <<"POST", <<"tool-result-verify">>>>}
        \cup Post({"relationship-memory", "tool-result-digest"}) \cup Samples({"tool-result-digest"})
SocialNames ==
    {"accueil", "salon", "place", "mesh", "mesh/bounties", "mesh/nodes", "mesh/ledger", "verified-agents.json",
     "v1/models", "capabilities", "openapi.json", "health", "agent-trust-kit", "detect-language",
     "agent-salut", "discover/preview", "favicon.ico", "icon.png"}
SocialSamples == {"accueil", "contact", "mesh", "detect-language", "agent-salut", "discover/preview"}
SocialPages == Pages(SocialNames) \cup Post({"accueil", "contact", "mcp"}) \cup Samples(SocialSamples)
Elsewhere == EngineHandlers \cup DiscoveryPages \cup SchemaPages \cup TrustKitPages \cup SocialPages
Handlers(b) == CoreHandlers(b) \cup GeneratedHandlers(b) \cup Elsewhere

\* A generated route has a name of its own; registry.py refuses a slash and
\* leaves the rest to the Ouvrier.  A developer edits routes listed by hand.
ASSUME CatalogueAssumption ==
    /\ Usine \cap {op[2][1] : op \in Both(CoreRoutes) \cup Elsewhere} = {}
    /\ Touched \subseteq {k[2][1] : k \in Listed}

\* The stack answers from the outside in: 410, then 402, then the handlers.
Answer(b, table, handled, op) ==
    IF match_retired(b, op[2]) THEN 410
    ELSE IF op \in table THEN 402
    ELSE IF op \in handled THEN 200
    ELSE IF \E h \in handled : h[2] = op[2] THEN 405
    ELSE 404
-----------------------------------------------------------------------------
(* What the documents publish: links, each with what it promises.  First the *)
(* documents generated from the table, then those written by hand.          *)

Link(ops, promise) == {[op |-> op, promise |-> promise] : op \in ops}
Pay(ops) == Link(ops, "pay")
Free(ops) == Link(ops, "free")
SamplesOf(keys) == {<<"GET", k[2] \o <<"sample">>>> : k \in keys}

\* Generated from the table: /.well-known/x402, /discovery/resources.
_route_entries(keys) == Pay(keys)

\* The agent card: every entry with its sample.
_agent_card(keys) ==
    Pay(keys) \cup Free(SamplesOf(keys))
        \cup Free(Pages({".well-known/x402", "openapi.json", "capabilities", "agentindex.md", "v1/models"}))
_KIT_SLUGS ==
    {"pdf", "web-read", "extract", "summarize", "search", "fact-check", "translate", "jobs", "discover", "weather",
     "crypto", "news", "can-pay", "probe", "wallet-balance", "gas-price", "wallet-intelligence", "x402-echo",
     "tip", "agent-claim", "agent-health"}
capabilities(keys) ==
    LET kit == {k \in keys : k[2][1] \in _KIT_SLUGS} IN Pay(kit) \cup Free(SamplesOf(kit))

\* OpenAPI: the served operations on priced paths, with the price of those in
\* the table.  Its loop passes over a route it has no schema for, which leaves
\* the operation without a price.
NoSchema == {"token-card"}
custom_openapi(b, keys) ==
    LET operations == {h \in Handlers(b) : \E k \in keys : k[2] = h[2]}
        priced == {op \in operations \cap keys : op[2][1] \notin NoSchema}
    IN  Pay(priced) \cup Free(operations \ priced) \cup Free(Pages({"agent.json", "llms.txt"}))

\* llms.txt is written by hand, for GET and POST; the lines of three routes go
\* with their flags.  Only the compute section follows a registry.
LlmsHead ==
    {"wallet-balance", "gas-price", "x402-echo", "agent-health", "wallet-intelligence", "can-pay", "probe",
     "weather", "crypto", "news", "discover", "search", "pdf", "web-read", "extract", "summarize", "translate",
     "decide", "guard", "verify", "rank", "token-risk", "token-card", "due-diligence", "research", "sentiment",
     "classify", "intent", "spam-check", "toxicity", "language", "pii-check", "v1/chat/completions",
     "llm/claude-sonnet", "llm/gpt-mini", "llm/gemini-flash", "llm/llama", "llm/deepseek"} \cup ComputeRoutes
LlmsSamples ==
    {"can-pay", "probe", "wallet-balance", "gas-price", "wallet-intelligence", "x402-echo", "agent-health",
     "weather", "crypto", "news", "discover", "decide", "guard", "verify", "rank", "token-risk", "token-card",
     "due-diligence", "company-leads", "research", "sentiment", "classify", "intent", "spam-check", "toxicity",
     "language", "pii-check", "llm/claude-sonnet", "llm/gpt-mini", "llm/gemini-flash", "llm/llama",
     "llm/deepseek"} \cup ComputeRoutes
LlmsManifests ==
    Pages({"agent-salut", "v1/models", "openapi.json", "agent.json", "capabilities", ".well-known/x402",
           ".well-known/mcp/server-card.json", "skills/agentindex-x402/SKILL.md", "agentindex.md"})
        \cup Post({"mcp"})
LlmsFlag == {"research"}
LlmsFlags(b) == (FlagsOff(b) \cap LlmsFlag) \cup Unlisted
_llms_catalog_all(b) ==      \* mutant: the lines of a flag stay when it is off
    Pay(Both(LlmsHead \ Unlisted)) \cup Free(Samples(LlmsSamples \ Unlisted)) \cup Free(LlmsManifests)
_llms_catalog(b) ==
    Pay(Both(LlmsHead \ LlmsFlags(b))) \cup Free(Samples(LlmsSamples \ LlmsFlags(b))) \cup Free(LlmsManifests)

\* The Wallet MCP skill lists by hand too, and keeps what the table has.
_WALLET_MCP_SECTIONS ==
    {"search", "pdf", "web-read", "extract", "summarize", "translate", "jobs", "fact-check", "decide", "guard",
     "verify", "rank", "sentiment", "classify", "intent", "spam-check", "toxicity", "language", "pii-check",
     "token-risk", "due-diligence", "research", "v1/chat/completions", "llm/claude-sonnet", "llm/gpt-mini",
     "llm/gemini-flash", "llm/llama", "llm/deepseek", "weather", "crypto", "news", "can-pay", "probe",
     "wallet-balance", "gas-price", "wallet-intelligence", "x402-echo", "agent-health", "discover",
     "company-leads"}
SkillLinks ==
    Pages({"v1/models", "llms.txt", "agent.json", ".well-known/agent.json", "openapi.json", ".well-known/x402",
           "skills/agentindex-x402/SKILL.md"})
_agentindex_wallet_mcp_skill(keys) ==
    Pay(Post(_WALLET_MCP_SECTIONS) \cap keys) \cup Pay(Post(ComputeRoutes)) \cup Free(SkillLinks)

\* The skill file, served as it is
SkillFile ==
    Pay(Pages({"x402-echo", "agent-health", "wallet-balance", "gas-price", "wallet-intelligence", "weather", "crypto",
               "news", "can-pay", "probe"}))
        \cup Pay(Post({"search", "pdf", "web-read", "extract", "discover"})) \cup Free(Samples({"search", "pdf"}))
        \cup Free(Pages({"llms.txt", "openapi.json", "agent.json"})) \cup Free(Post({"mcp"}))

\* Two MCP applications of their own, under a path that /mcp takes first
Mounts(names) == Free({<<"POST", <<"mcp", n>>>> : n \in names})
MemoryAndThread == {"relationship-memory", "coordination-thread"}

\* The server cards and manifests, and the page on transparency
ServerCards ==
    Free(Pages({".well-known/x402", "openapi.json", "capabilities", ".well-known/relationship-memory.json",
                "server-relationship-memory.json", ".well-known/coordination-thread-turn.json",
                "server-coordination-thread.json"}))
        \cup Free({<<"POST", <<"relationship-memory", leaf>>>> : leaf \in {"validate", "store"}})
        \cup Free({<<"POST", <<"coordination-thread", "validate">>>>})
        \cup Free({<<"GET", <<r, "retrieve">>>> : r \in MemoryAndThread})
        \cup Pay(Post({"discover"})) \cup Free(Post({"mcp"})) \cup Mounts(MemoryAndThread)
        \cup Free(Pages({"honest-delivery-refusal"}))
_ai_catalog_manifest ==
    Free(Pages({"llms.txt", ".well-known/mcp/server-card.json", "discover/preview", ".well-known/agent-card.json",
                "openapi.json"}))
        \cup Free(Samples({"discover/preview", "discover"})) \cup Pay(Post({"discover"}))
        \cup Mounts(MemoryAndThread)
_sitemap_urls ==
    Free(Samples({"discover", "search", "wallet-balance", "gas-price", "wallet-intelligence", "x402-echo",
                  "agent-health", "due-diligence", "company-leads", "contact", "discover/preview",
                  "detect-language", "mesh", "tool-result-digest"} \cup Validators))
        \cup Free(Pages({"", "agent.json", "capabilities", "openapi.json", "llms.txt",
                         "skills/agentindex-x402/SKILL.md", "server.json", ".well-known/x402",
                         ".well-known/x402.json", ".well-known/ai-catalog.json", ".well-known/ard.json",
                         ".well-known/agent.json", ".well-known/mcp.json", ".well-known/glama.json",
                         ".well-known/security.txt", "transparency", "accueil", "salon", "place",
                         "discover/preview", ".well-known/agent-trust-kit.json"}))

\* The trust kit's manifest and the reception hall.  Documents of /place and
\* bounties of /mesh are rows of tables, and are left out.
manifest ==
    Free(Samples(Validators \cup {"tool-result-digest"})
         \cup {<<"POST", <<v, "validate">>>> : v \in Validators} \cup Post({"tool-result-verify"})
         \cup SchemaPages
         \cup Pages({".well-known/mcp/coordination-thread.json", ".well-known/tool-result-digest.json"}))
        \cup Mounts({"coordination-thread"})
ReceptionOffers ==
    Pay(Post({"pdf", "web-read", "extract", "summarize", "search", "fact-check", "translate", "jobs", "discover"}))
        \cup Free(Samples({"discover"})) \cup Free(Pages({"discover"}))
ReceptionPages ==
    Free(Pages({"agent.json", "llms.txt", ".well-known/x402", "capabilities", "openapi.json", "detect-language",
                "mesh", "place", "accueil"}))
        \cup Free(Samples({"contact", "mesh"})) \cup Free(Post({"accueil", "contact", "mcp"}))
ReceptionTrust ==
    Free({<<"POST", <<v, "validate">>>> : v \in Validators}) \cup Free(Samples(Validators)) \cup Free(SchemaPages)
        \cup Free({<<"POST", <<"relationship-memory", "store">>>>, <<"GET", <<"relationship-memory", "retrieve">>>>,
                   <<"GET", <<"coordination-thread", "retrieve">>>>})
        \cup Free(Pages({".well-known/mcp/relationship-memory.json", ".well-known/mcp/coordination-thread.json"}))
        \cup Mounts(MemoryAndThread)

\* A tool sells the entry of the table it names, and fails without it.
ChainTools == {"wallet-balance", "token-risk", "due-diligence"}
ClassifierTools ==
    {"sentiment", "classify", "intent", "spam-check", "toxicity", "language", "pii-check"}
ModelTools == {"llm/claude-sonnet", "llm/gpt-mini", "llm/llama"}
ResearchTool == {"research"}
ReadingTools == {"gas-price", "wallet-intelligence", "x402-echo", "agent-health"}
JudgementTools == {"decide", "guard", "verify", "rank"}
FeedTools == {"weather", "crypto", "news"}
PaywallTools == {"can-pay", "probe"}
WebTools ==
    {"search", "translate", "jobs", "company-leads", "pdf", "web-read", "extract", "summarize", "fact-check",
     "discover", "v1/chat/completions"}
GeneratedTools(b) == live_routes(b)
EngineTools == ComputeRoutes \cup BaseRoutes
ToolLinks(b) ==
    Pay(Post(((ChainTools \cup ClassifierTools \cup ModelTools \cup ResearchTool \cup ReadingTools
               \cup JudgementTools \cup FeedTools \cup PaywallTools \cup WebTools) \ FlagsOff(b))
             \cup GeneratedTools(b) \cup EngineTools))

Generated(b, keys) ==
    _route_entries(keys) \cup _agent_card(keys) \cup capabilities(keys) \cup custom_openapi(b, keys)
        \cup _agentindex_wallet_mcp_skill(keys)
Handwritten ==
    SkillFile \cup ServerCards \cup _ai_catalog_manifest \cup _sitemap_urls \cup manifest \cup ReceptionOffers
        \cup ReceptionPages \cup ReceptionTrust
Documents(b, keys) == Generated(b, keys) \cup _llms_catalog(b) \cup ToolLinks(b) \cup Handwritten
=============================================================================
