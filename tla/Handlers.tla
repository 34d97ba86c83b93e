------------------------------- MODULE Handlers -------------------------------
(***************************************************************************)
(* The priced handlers, each behind two doors: its HTTP route and its MCP  *)
(* tool.  A handler is data: the steps of its lookup, which both doors     *)
(* share unless the code has two, and for each door what it makes of the   *)
(* exceptions the steps raise.  One call of a route is played through both *)
(* doors in the same world, and the doors are compared.                    *)
(*                                                                         *)
(* The calls ask for everything optional (content, summary, a verdict).    *)
(* A payment has been verified; PaidRoute and JobQueue model the rails.    *)
(***************************************************************************)
EXTENDS Integers, Sequences

VARIABLES
    route,      \* the route of the call
    world,      \* what the buyer sent, which upstreams are down, whether it pays
    call        \* per door: the next step, what was asked, the row, the reply

\* Steps: refuse the input; ask the first upstream of some tiers that is up,
\* failing with error when none is and with a reason when the answer is
\* unusable; find fault with what was read; ask some whose failure is
\* swallowed; raise, always.
Check(reasons) == [does |-> "check", of |-> <<>>, error |-> "none", may |-> reasons]
Ask(tiers, error, reasons) == [does |-> "ask", of |-> tiers, error |-> error, may |-> reasons]
Finds(reasons) == [does |-> "find", of |-> <<>>, error |-> "none", may |-> reasons]
Try(tiers) == [does |-> "try", of |-> tiers, error |-> "none", may |-> {}]
\* The OpenRouter and Jev clients raise their own error on a bad status; a call
\* that got no answer, or one of another shape, raises a foreign exception.
Llm(tiers, error, reasons) == Ask(tiers, error, reasons \cup {"foreign"})
Lean(tiers) == [Try(tiers) EXCEPT !.may = {"foreign"}]
Raises(error) == [does |-> "raise", of |-> <<>>, error |-> error, may |-> {}]

\* Handlers: an exception in one of the sets of except answers that code, and
\* leaves that row; any other exception is a 500 that nobody recorded.
All == {"*"}
On(code, es) == [code |-> code, es |-> es, row |-> "error"]
Unlogged(code, es) == [code |-> code, es |-> es, row |-> "none"]
Http(steps, except) == [steps |-> steps, except |-> except, settlesFirst |-> FALSE, late |-> {}]
Tool(steps, es) == Http(steps, <<On(200, es)>>)     \* a ServiceError, reported in the result
-----------------------------------------------------------------------------
(* Search, reading and writing *)

\* Specialised sources race SearXNG; Jev ranks what they found.
WebSearch(nothing) == <<Ask(<<"sources", "searxng">>, nothing, {nothing}), Lean(<<"jev">>)>>
WebSearches(nothing) == <<Ask(<<"sources", "searxng">>, nothing, {nothing}), Try(<<"jev">>)>>     \* gathered
Enrich == <<Try(<<"web">>)>>
Summary == <<"openrouter", "lastresort">>
SearchHttp ==
    Http(<<Check({"missing_query", "invalid_query_type"})>> \o WebSearch("no_results") \o Enrich \o <<Lean(Summary)>>,
         <<On(400, {"missing_query", "invalid_query_type"}), On(422, {"no_results"})>>)
SearchMcp ==
    Tool(<<Check({"missing_query"})>> \o WebSearch("no_results") \o Enrich \o <<Llm(Summary, "OpenRouterError", {})>>,
         {"missing_query", "no_results", "OpenRouterError"})
SearchBatchHttp ==      \* a failing query is dropped from the batch
    Http(<<Check({"invalid_batch_query"})>> \o WebSearches("no_results") \o Enrich \o <<Lean(Summary)>>,
         <<On(400, {"invalid_batch_query"}), On(422, {"no_results"})>>)
SearchBatchMcp ==       \* _run_batch_search takes a third argument and returns four values
    Tool(<<Check({"invalid_batch_query"})>> \o <<Raises("TypeError")>>, {"invalid_batch_query", "OpenRouterError"})

TranslateOne == <<Llm(<<"openrouter", "lastresort">>, "OpenRouterError", {})>>
TranslateHttp ==
    Http(<<Check({"missing_fields", "invalid_text_type"})>> \o TranslateOne,
         <<On(400, {"missing_fields", "invalid_text_type"}), On(502, {"OpenRouterError"})>>)
TranslateMcpOnce ==     \* mutant: the tool does not try the last resort
    Tool(<<Check({"missing_fields"}), Llm(<<"openrouter">>, "OpenRouterError", {})>>, {"missing_fields", "OpenRouterError"})
TranslateMcp ==
    Tool(<<Check({"missing_fields"})>> \o TranslateOne, {"missing_fields", "OpenRouterError"})
TranslateBatch ==       \* a misaligned answer is retried once, on the last resort
    <<Llm(<<"openrouter", "lastresort">>, "OpenRouterError", {"BatchMisaligned"})>>
TranslateBatchHttp ==
    Http(<<Check({"invalid_batch_text"})>> \o TranslateBatch,
         <<On(400, {"invalid_batch_text"}), On(502, {"OpenRouterError"})>>)
TranslateBatchMcp ==
    Tool(<<Check({"invalid_batch_text"})>> \o TranslateBatch, {"invalid_batch_text", "OpenRouterError"})

SummarizeContent ==
    <<Check({"provide_exactly_one"}), Ask(<<"web">>, "fetch_failed", {"no_extractable_content"})>>
SummarizeSteps == SummarizeContent \o <<Llm(<<"openrouter", "lastresort">>, "upstream_error", {})>>
SummarizeErrors == {"provide_exactly_one", "fetch_failed", "no_extractable_content", "upstream_error"}
SummarizeHttp ==
    Http(SummarizeSteps, <<On(400, {"provide_exactly_one", "no_extractable_content"}), On(502, SummarizeErrors)>>)
SummarizeMcp == Tool(SummarizeSteps, SummarizeErrors)

ExtractContent ==
    <<Check({"both_url_and_text_provided", "missing_url_or_text"}),
      Ask(<<"web">>, "fetch_failed", {"no_extractable_content"})>>
RunExtract ==
    <<Check({"invalid_schema"}), Llm(<<"openrouter", "lastresort">>, "upstream_error", {"extraction_failed"})>>
ExtractSteps == <<Check({"missing_schema"})>> \o ExtractContent \o RunExtract
ExtractCaller == {"missing_schema", "both_url_and_text_provided", "missing_url_or_text", "invalid_schema",
                  "no_extractable_content"}
ExtractHttp ==
    Http(ExtractSteps, <<On(400, ExtractCaller), On(502, {"fetch_failed", "upstream_error", "extraction_failed"})>>)
ExtractMcp == Tool(ExtractSteps, ExtractCaller \cup {"fetch_failed", "upstream_error", "extraction_failed"})

PdfBytes ==
    <<Check({"both_url_and_base64_provided", "missing_url_or_base64", "invalid_base64"}),
      Ask(<<"web">>, "FetchError", {})>>
ParsePdf == <<Finds({"invalid_pdf", "encrypted_pdf", "no_extractable_text"})>>
PdfCaller == {"both_url_and_base64_provided", "missing_url_or_base64", "invalid_base64", "invalid_pdf",
              "encrypted_pdf", "no_extractable_text"}
PdfHttp == Http(PdfBytes \o ParsePdf, <<On(400, PdfCaller), On(502, {"FetchError"})>>)
ReadPdfMcp == Tool(PdfBytes \o ParsePdf, PdfCaller \cup {"FetchError"})

ReadUrlUnchecked ==     \* mutant: the URL is looked at when the fetch has failed
    <<Ask(<<"web">>, "FetchError", {"no_extractable_content"}), Check({"missing_url"})>>
ReadUrl == <<Check({"missing_url"}), Ask(<<"web">>, "FetchError", {"no_extractable_content"})>>
WebReadHttp ==
    Http(ReadUrl, <<On(400, {"missing_url", "no_extractable_content"}), On(502, {"FetchError"})>>)
ReadWebPageMcp == Tool(ReadUrl, {"missing_url", "no_extractable_content", "FetchError"})

PlanSearchQueries == <<Try(<<"claude", "ollama">>)>>
MultiSearch == WebSearches("no_sources_found")
RequestVerdict == <<Ask(<<"claude", "ollama">>, "upstream_error", {"verification_failed"})>>
CheckClaim == PlanSearchQueries \o MultiSearch \o RequestVerdict
FactCheckErrors == {"upstream_error", "no_sources_found", "verification_failed"}
FactCheckHttp ==
    Http(<<Check({"missing_claim"})>> \o CheckClaim \o <<Finds({"TimeoutError"})>>,
         <<On(400, {"missing_claim", "no_sources_found"}), On(504, {"TimeoutError"}), On(502, FactCheckErrors)>>)
FactCheckMcp ==         \* unpacks four of the five values of _check_claim
    Tool(<<Check({"missing_claim"})>> \o CheckClaim \o <<Raises("ValueError")>>,
         {"missing_claim"} \cup FactCheckErrors)

ResearchSteps ==        \* without a model, sentences are extracted and ranked by Jev, or by keyword
    <<Check({"missing_query"})>> \o WebSearch("no_results") \o <<Lean(<<"openrouter">>), Lean(<<"jev">>)>>
ResearchHttp == Http(ResearchSteps, <<On(400, {"missing_query"}), On(422, {"no_results"})>>)
ResearchMcp == Tool(ResearchSteps, {"missing_query", "no_results"})
-----------------------------------------------------------------------------
(* Data feeds: an answer of another shape is an exception of its own *)

WeatherLookup ==
    <<Check({"missing_location", "invalid_coordinates"}), Ask(<<"geocoder">>, "HTTPError", {"location_not_found"}),
      Ask(<<"forecast">>, "HTTPError", {"malformed"})>>
WeatherErrors == {"missing_location", "invalid_coordinates", "location_not_found"}
WeatherHttpNarrow ==    \* mutant: no clause for what is not a WeatherError
    Http(WeatherLookup, <<On(404, {"location_not_found"}), On(400, WeatherErrors)>>)
WeatherHttp ==
    Http(WeatherLookup, <<On(404, {"location_not_found"}), On(400, WeatherErrors), On(502, All)>>)
WeatherMcp == Tool(WeatherLookup, WeatherErrors)

CryptoLookup ==
    <<Check({"missing_coins", "invalid_coins", "too_many_coins", "invalid_coin", "invalid_vs_currency"}),
      Ask(<<"prices">>, "HTTPError", {"rate_limited", "coins_not_found", "malformed"})>>
CryptoErrors == {"missing_coins", "invalid_coins", "too_many_coins", "invalid_coin", "invalid_vs_currency",
                 "rate_limited", "coins_not_found"}
CryptoHttp ==
    Http(CryptoLookup,
         <<On(429, {"rate_limited"}), On(404, {"coins_not_found"}), On(400, CryptoErrors), On(502, All)>>)
CryptoMcp == Tool(CryptoLookup, CryptoErrors)

NewsLookup == <<Check({"invalid_limit"}), Ask(<<"topstories">>, "HTTPError", {"upstream_empty"}),
                Ask(<<"items">>, "HTTPError", {"malformed"})>>
NewsErrors == {"invalid_limit", "upstream_empty"}
NewsHttp == Http(NewsLookup, <<On(502, {"upstream_empty"}), On(400, NewsErrors), On(502, All)>>)
NewsMcp == Tool(NewsLookup, NewsErrors)

CanPayLookup == <<Check({"invalid_address", "invalid_amount"}), Ask(<<"rpc">>, "HTTPError", {"rpc_error", "malformed"})>>
CanPayErrors == {"invalid_address", "invalid_amount", "rpc_error"}
CanPayHttp == Http(CanPayLookup, <<On(400, CanPayErrors), On(502, All)>>)
CanPayMcp == Tool(CanPayLookup, CanPayErrors)

\* A target that does not answer is an answer of the probe.
ProbeLookup == <<Check({"missing_url", "invalid_url", "blocked_host", "dns_failed", "invalid_method"}),
                 Try(<<"target">>), Finds({"timeout"})>>
ProbeErrors == {"missing_url", "invalid_url", "blocked_host", "dns_failed", "invalid_method", "timeout"}
ProbeHttp == Http(ProbeLookup, <<On(400, ProbeErrors), On(502, All)>>)
ProbeMcp == Tool(ProbeLookup, ProbeErrors)

AgentHealthLookup == ProbeLookup \o <<Try(<<"discovery">>)>>
AgentHealthHttp == Http(AgentHealthLookup, <<On(400, ProbeErrors), On(502, All)>>)
AgentHealthMcp == Tool(AgentHealthLookup, {})

X402EchoHttp == Http(<<>>, <<>>)
X402EchoMcp == Tool(<<>>, {})

ProxyLookup == <<Ask(<<"proxied">>, "HTTPError", {"malformed"})>>
ProxyHttp == Http(ProxyLookup, <<On(502, All)>>)
GeneratedMcp == Tool(ProxyLookup, All)

DiscoverLookup == <<Ask(<<"embedder">>, "OllamaError", {})>>
DiscoverPaidHttp ==
    Http(<<Check({"invalid_json", "missing_q"})>> \o DiscoverLookup,
         <<On(400, {"invalid_json", "missing_q"}), On(502, {"OllamaError"})>>)
DiscoverMcp == Tool(<<Check({"missing_q"})>> \o DiscoverLookup, {"missing_q", "OllamaError"})
-----------------------------------------------------------------------------
(* Chain readings: an RPC answers, fails, or answers something unreadable *)

GasPriceLookup == <<Check({"unsupported_network"}), Ask(<<"rpc">>, "rpc_unavailable", {"malformed"})>>
GasPriceErrors == {"unsupported_network", "rpc_unavailable"}
GasPriceHttp == Http(GasPriceLookup, <<On(400, {"unsupported_network"}), On(502, GasPriceErrors)>>)
GasPriceMcp == Tool(GasPriceLookup, GasPriceErrors)

WalletBalanceLookup ==
    <<Check({"invalid_address", "unsupported_network"}), Ask(<<"rpc">>, "rpc_unavailable", {"malformed"})>>
WalletBalanceErrors == {"invalid_address"} \cup GasPriceErrors
WalletBalanceHttp ==
    Http(WalletBalanceLookup, <<On(400, {"invalid_address", "unsupported_network"}), On(502, WalletBalanceErrors)>>)
WalletBalanceMcp == Tool(WalletBalanceLookup, WalletBalanceErrors)

\* Every network's balance and gas price at once; a bad address is found only
\* then, by the balance.  One network that answers is enough.
WalletIntelligenceLookup ==
    <<Check({"invalid_networks", "unsupported_network", "invalid_amount"}),
      Try(<<"rpc", "rpc2">>), Finds({"invalid_address"}), Ask(<<"rpc", "rpc2">>, "rpc_unavailable", {})>>
WalletIntelligenceErrors ==
    {"invalid_address", "invalid_networks", "unsupported_network", "invalid_amount", "rpc_unavailable"}
WalletIntelligenceHttp ==
    Http(WalletIntelligenceLookup,
         <<On(400, WalletIntelligenceErrors \ {"rpc_unavailable"}), On(502, WalletIntelligenceErrors)>>)
WalletIntelligenceMcp == Tool(WalletIntelligenceLookup, WalletIntelligenceErrors)

\* The code must be read; pools and holders may be missing.  Jev judges, or the rules.
TokenSignals ==
    <<Check({"invalid_address"}), Ask(<<"rpc">>, "bytecode_unavailable", {"not_a_contract"}), Try(<<"rpc">>)>>
TokenRiskLookup == TokenSignals \o <<Lean(<<"jev">>)>>
TokenRiskErrors == {"invalid_address", "not_a_contract", "bytecode_unavailable"}
TokenRiskHttp ==
    Http(TokenRiskLookup,
         <<On(400, {"invalid_address", "not_a_contract"}), On(504, {"bytecode_unavailable"}),
           On(502, {"JevError"} \cup TokenRiskErrors)>>)
TokenRiskMcp == Tool(TokenRiskLookup, {"JevError"} \cup TokenRiskErrors)

ComputeCard == TokenRiskLookup \o <<Try(<<"claude">>), Finds({"TimeoutError"})>>
TokenCardHttp ==
    Http(ComputeCard,
         <<On(504, {"TimeoutError", "bytecode_unavailable"}), On(400, {"invalid_address", "not_a_contract"}),
           On(502, TokenRiskErrors)>>)

DueDiligenceLookup ==       \* a leg that fails is a leg of the answer
    <<Check({"invalid_address"}), Try(<<"rpc">>), Lean(<<"jev">>), Try(<<"target">>)>>
DueDiligenceHttp == Http(DueDiligenceLookup, <<On(400, {"invalid_address"})>>)
DueDiligenceMcp == Tool(DueDiligenceLookup, {"invalid_address"})
-----------------------------------------------------------------------------
(* Judgement by Jev, and models *)

Judged == <<Llm(<<"jev">>, "JevError", {})>>
Late(door, reasons) == [door EXCEPT !.late = reasons]    \* found after the row was written
DecideLookup ==
    <<Check({"missing_state", "missing_questions", "too_many_questions", "invalid_question", "state_too_large"}),
      Llm(<<"jev">>, "JevError", {})>>
DecideErrors == {"missing_state", "missing_questions", "too_many_questions", "invalid_question", "state_too_large"}
DecideHttp == Http(DecideLookup, <<On(400, DecideErrors), On(502, {"JevError"})>>)
DecideMcp == Tool(DecideLookup, DecideErrors \cup {"JevError"})

GuardLookup == <<Check({"missing_user_request", "missing_tool_call"})>> \o Judged
GuardErrors == {"missing_user_request", "missing_tool_call"}
GuardHttp == Late(Http(GuardLookup, <<On(400, GuardErrors), On(502, {"JevError"})>>), {"unlisted_choice"})
GuardMcp == Late(Tool(GuardLookup, GuardErrors \cup {"JevError"}), {"unlisted_choice"})

VerifyLookup == <<Check({"missing_claim", "missing_source"})>> \o Judged
VerifyErrors == {"missing_claim", "missing_source"}
VerifyHttp == Late(Http(VerifyLookup, <<On(400, VerifyErrors), On(502, {"JevError"})>>), {"unlisted_choice"})
VerifyMcp == Late(Tool(VerifyLookup, VerifyErrors \cup {"JevError"}), {"unlisted_choice"})

RankLookup == <<Check({"missing_query", "invalid_documents"})>> \o Judged
RankErrors == {"missing_query", "invalid_documents"}
RankHttp == Http(RankLookup, <<On(400, RankErrors), On(502, {"JevError"})>>)
RankMcp == Tool(RankLookup, RankErrors \cup {"JevError"})

\* Jev, or one pinned model when Jev is slow or answers an error.
Classify == <<Llm(<<"jev", "openrouter">>, "engine_unavailable", {})>>
ClassifyErrors(inputs) == inputs \cup {"engine_unavailable"}
RespondHttp(inputs) == Http(<<Check(inputs)>> \o Classify, <<On(422, ClassifyErrors(inputs))>>)
ClassifyRunner(inputs) == Tool(<<Check(inputs)>> \o Classify, ClassifyErrors(inputs))
Classifier(inputs) == [http |-> RespondHttp(inputs), mcp |-> ClassifyRunner(inputs)]
ClassifyText == Classifier({"empty_text", "invalid_labels", "duplicate_labels"})
Sentiment == Classifier({"empty_text"})
Intent == Classifier({"empty_text"})
SpamCheck == Classifier({"empty_text"})
Toxicity == Classifier({"empty_text"})
Language == Classifier({"empty_text"})
PiiCheck == Classifier({"empty_text"})

\* The gateway reads the price list before it looks at the body, the pinned
\* models after; a model that is not on it is priced at the dearest.
PriceList == <<Ask(<<"pricelist">>, "HTTPError", {})>>
Completion == <<Llm(<<"openrouter">>, "OpenRouterError", {"TimeoutError"})>>
GatewayBody == {"streaming_not_supported"}
GatewayErrors == {"invalid_request", "free_model_not_supported", "unknown_model"}
GatewayHttp ==
    Http(<<Check(GatewayBody)>> \o PriceList \o <<Finds(GatewayErrors)>> \o Completion,
         <<On(400, GatewayBody \cup GatewayErrors), On(504, {"TimeoutError"}), On(502, {"OpenRouterError"})>>)
SettlesFirst(door) == [door EXCEPT !.settlesFirst = TRUE]
AskModelMcp ==
    SettlesFirst(Tool(PriceList \o <<Finds(GatewayErrors)>> \o Completion,
                      GatewayErrors \cup {"TimeoutError", "OpenRouterError"}))
PinnedHttp ==
    Http(<<Check(GatewayBody \cup {"invalid_request"})>> \o PriceList \o Completion,
         <<On(400, GatewayBody \cup {"invalid_request"}), On(504, {"TimeoutError"}), On(502, {"OpenRouterError"})>>)
PinnedMcp ==
    SettlesFirst(Tool(PriceList \o <<Finds({"invalid_request"})>> \o Completion,
                      {"invalid_request", "TimeoutError", "OpenRouterError"}))
-----------------------------------------------------------------------------
(* Jobs, and the routes of the engines *)

CreateJobHttp == Http(<<Check({"missing_subject"})>>, <<On(400, {"missing_subject"})>>)
RunJobs == Tool(<<Check({"missing_subject"})>>, {"missing_subject"})
LeadsQuery == {"missing_sector", "invalid_country", "invalid_max_results"}
CompanyLeadsHttp == Http(<<Check(LeadsQuery)>>, <<On(400, LeadsQuery)>>)
RunCompanyLeads == Tool(<<Check(LeadsQuery)>>, LeadsQuery)
\* The only handler that records no failure.
AgentClaimHttp ==
    Http(<<Check({"url_required"})>> \o AgentHealthLookup,
         <<Unlogged(400, {"url_required"}), Unlogged(422, All)>>)

\* An engine's HTTP handler refuses a call whose payer it cannot name.
NoPayer == "no_verified_payment"
Named(steps) == <<Check({NoPayer})>> \o steps
NoPayerReply == [code |-> 402, es |-> {NoPayer}, row |-> "payment_failed"]
ComputeSteps == <<Check({"invalid_input"}), Finds({"ComputeError", "exception"})>>
ComputeHttp == Http(Named(ComputeSteps), <<NoPayerReply, On(422, All)>>)
RunCompute == Tool(ComputeSteps, All)
RpcHttp(steps) == Http(Named(steps), <<NoPayerReply, On(504, {"RpcTimeout"}), On(422, All)>>)
RunRpc(steps) == Tool(steps, All)

\* Each provider in turn, for as long as time is left; a revert is final.
Call == Ask(<<"rpc", "rpc2">>, "RpcTimeout", {"reverted", "malformed"})
CallsNoRevert == Ask(<<"rpc", "rpc2">>, "RpcTimeout", {"malformed"})
ValidInput == Check({"invalid_input"})
Nonce == <<ValidInput, Call>>
Code == <<ValidInput, Ask(<<"rpc", "rpc2">>, "RpcTimeout", {"reverted"})>>      \* no text: no contract
Quote == <<ValidInput, Call, Finds({"no_liquidity"}), Call>>        \* then a thousandth, for the impact
Storage == <<ValidInput, Call>>
EthCall == <<ValidInput, Call>>                                     \* reverted: call_reverted
Basename == <<ValidInput, Call, Finds({"resolver_call_failed", "name_not_found"})>>
CanSell == <<ValidInput, Call, Finds({"no_liquidity"}), Call>>
EstimateGas == <<ValidInput, Call>>                                 \* reverted: call_would_revert
BlockRange == Check({"invalid_block_range", "range_too_wide"})
Erc20Transfers == <<ValidInput, BlockRange, Call>>
Events == <<ValidInput, BlockRange, Call>>
Erc721Tokens ==
    <<ValidInput, Call, Finds({"not_an_erc721_token"}), Call, Finds({"not_enumerable"})>>
NftMetadata == <<ValidInput, Call, Finds({"token_not_found"})>>
NftOwner == <<ValidInput, Call, Finds({"token_not_found"})>>
Simulate == <<ValidInput, CallsNoRevert, Call>>                     \* a revert is the answer; its reason, another call
Erc20Balance == <<ValidInput, Call, Finds({"not_an_erc20_token"})>>
LiveBalance == <<ValidInput, Call, Finds({"not_an_erc20_token"})>>
TotalSupply == <<ValidInput, Call, Finds({"no_total_supply"})>>
Allowance == <<ValidInput, Call, Finds({"not_an_erc20_token"})>>
Erc1155Balance == <<ValidInput, Call, Finds({"not_an_erc1155_token"})>>
Tx == <<ValidInput, Call, Finds({"tx_not_found"})>>
Receipt == <<ValidInput, Call, Finds({"receipt_not_found"})>>
Block == <<ValidInput, Check({"invalid_block_number"}), Call, Finds({"block_not_found"})>>
Pending == <<Call, Finds({"pending_unavailable"})>>
BlockNumber == <<Call>>
ChainId == <<Call>>
NetworkInfo == <<Call>>
Contract == <<ValidInput, Call>>
Proxy == <<ValidInput, Call>>
-----------------------------------------------------------------------------
(* What is sold, and through which doors *)

BASE_RPC_SPECS ==
    [base_nonce |-> Nonce, base_code |-> Code, base_quote |-> Quote, base_storage |-> Storage,
     base_call |-> EthCall, base_basename |-> Basename, base_can_sell |-> CanSell,
     base_estimate_gas |-> EstimateGas, base_erc20_transfers |-> Erc20Transfers, base_events |-> Events,
     base_erc721_tokens |-> Erc721Tokens, base_nft_metadata |-> NftMetadata, base_nft_owner |-> NftOwner,
     base_simulate |-> Simulate, base_erc20_balance |-> Erc20Balance, base_live_balance |-> LiveBalance,
     base_total_supply |-> TotalSupply, base_allowance |-> Allowance,
     base_erc1155_balance |-> Erc1155Balance, base_tx |-> Tx, base_receipt |-> Receipt,
     base_block |-> Block, base_pending |-> Pending, base_block_number |-> BlockNumber,
     base_chain_id |-> ChainId, base_network_info |-> NetworkInfo, base_contract |-> Contract,
     base_proxy |-> Proxy]
Two(http, mcp) == [http |-> http, mcp |-> mcp]
Written ==
    [search |-> Two(SearchHttp, SearchMcp),
     search_batch |-> Two(SearchBatchHttp, SearchBatchMcp),
     translate |-> Two(TranslateHttp, TranslateMcp),
     translate_batch |-> Two(TranslateBatchHttp, TranslateBatchMcp),
     summarize |-> Two(SummarizeHttp, SummarizeMcp),
     extract |-> Two(ExtractHttp, ExtractMcp),
     pdf_parse |-> Two(PdfHttp, ReadPdfMcp),
     web_read |-> Two(WebReadHttp, ReadWebPageMcp),
     fact_check |-> Two(FactCheckHttp, FactCheckMcp),
     research |-> Two(ResearchHttp, ResearchMcp),
     weather |-> Two(WeatherHttp, WeatherMcp),
     crypto |-> Two(CryptoHttp, CryptoMcp),
     news |-> Two(NewsHttp, NewsMcp),
     can_pay |-> Two(CanPayHttp, CanPayMcp),
     probe |-> Two(ProbeHttp, ProbeMcp),
     agent_health |-> Two(AgentHealthHttp, AgentHealthMcp),
     x402_echo |-> Two(X402EchoHttp, X402EchoMcp),
     generated |-> Two(ProxyHttp, GeneratedMcp),
     discover |-> Two(DiscoverPaidHttp, DiscoverMcp),
     gas_price |-> Two(GasPriceHttp, GasPriceMcp),
     wallet_balance |-> Two(WalletBalanceHttp, WalletBalanceMcp),
     wallet_intelligence |-> Two(WalletIntelligenceHttp, WalletIntelligenceMcp),
     token_risk |-> Two(TokenRiskHttp, TokenRiskMcp),
     due_diligence |-> Two(DueDiligenceHttp, DueDiligenceMcp),
     decide |-> Two(DecideHttp, DecideMcp),
     guard |-> Two(GuardHttp, GuardMcp),
     verify |-> Two(VerifyHttp, VerifyMcp),
     rank |-> Two(RankHttp, RankMcp),
     chat_completions |-> Two(GatewayHttp, AskModelMcp),
     pinned_model |-> Two(PinnedHttp, PinnedMcp),
     jobs |-> Two(CreateJobHttp, RunJobs),
     company_leads |-> Two(CompanyLeadsHttp, RunCompanyLeads),
     purecalc |-> Two(ComputeHttp, RunCompute),
     token_card |-> [http |-> TokenCardHttp],
     agent_claim |-> [http |-> AgentClaimHttp]]
Classifiers ==
    [sentiment |-> Sentiment, classify |-> ClassifyText, intent |-> Intent,
     spam_check |-> SpamCheck, toxicity |-> Toxicity, language |-> Language, pii_check |-> PiiCheck]
Sold ==
    [r \in DOMAIN BASE_RPC_SPECS \cup DOMAIN Classifiers \cup DOMAIN Written |->
        IF r \in DOMAIN Written THEN Written[r]
        ELSE IF r \in DOMAIN Classifiers THEN Classifiers[r]
        ELSE Two(RpcHttp(BASE_RPC_SPECS[r]), RunRpc(BASE_RPC_SPECS[r]))]
-----------------------------------------------------------------------------
(* One call of a route, through its HTTP door and then through its tool *)

vars == <<route, world, call>>
Image(f) == {f[x] : x \in DOMAIN f}
Doors(r) == DOMAIN Sold[r]
StepsOf(r) == UNION {Image(Sold[r][d].steps) : d \in Doors(r)}
Tiers(r) == UNION {Image(step.of) : step \in StepsOf(r)}
Says(r) == {"fine"} \cup UNION {step.may : step \in StepsOf(r)} \cup UNION {Sold[r][d].late : d \in Doors(r)}

Fresh == [at |-> 1, asked |-> {}, row |-> "none", code |-> 0, reply |-> "none"]
Init ==
    /\ route \in DOMAIN Sold
    /\ world \in [says : Says(route), down : SUBSET Tiers(route), pays : BOOLEAN]
    /\ call = [d \in Doors(route) |-> Fresh]

Handler(d) == Sold[route][d]
Running(d) == call[d].reply = "none" /\ (d = "mcp" => call["http"].reply # "none")
Busy(d) == Running(d) /\ call[d].row = "none" /\ call[d].at <= Len(Handler(d).steps)
Step(d) == Handler(d).steps[call[d].at]
Up(step) == {k \in DOMAIN step.of : step.of[k] \notin world.down}
Asked(step) == {step.of[k] : k \in {j \in DOMAIN step.of : \A i \in 1..(j - 1) : i \notin Up(step)}}
Fault(step) ==
    IF step.does = "raise" THEN step.error
    ELSE IF step.of # <<>> /\ Up(step) = {} THEN IF step.does = "ask" THEN step.error ELSE "none"
    ELSE IF world.says \in step.may THEN world.says
    ELSE "none"

Pass(d) ==
    /\ Busy(d)
    /\ Fault(Step(d)) = "none"
    /\ call' = [call EXCEPT ![d].at = @ + 1, ![d].asked = @ \cup Asked(Step(d))]

Catches(clause, fault) == clause.es = All \/ fault \in clause.es
Catching(d, fault) == {k \in DOMAIN Handler(d).except : Catches(Handler(d).except[k], fault)}
Refuse(d) ==
    /\ Busy(d)
    /\ Fault(Step(d)) # "none"
    /\ \E k \in Catching(d, Fault(Step(d))) :
        /\ \A j \in Catching(d, Fault(Step(d))) : k <= j
        /\ call' = [call EXCEPT ![d].asked = @ \cup Asked(Step(d)), ![d].reply = "refused",
                                ![d].row = Handler(d).except[k].row, ![d].code = Handler(d).except[k].code]
Crash(d) ==
    /\ Busy(d)
    /\ Fault(Step(d)) # "none"
    /\ Catching(d, Fault(Step(d))) = {}
    /\ call' = [call EXCEPT ![d].asked = @ \cup Asked(Step(d)), ![d].reply = "crashed", ![d].code = 500]

Done(d) == Running(d) /\ call[d].at > Len(Handler(d).steps)
Record(d) ==
    /\ Done(d) /\ call[d].row = "none" /\ ~Handler(d).settlesFirst
    /\ call' = [call EXCEPT ![d].row = "paid"]
CrashLate(d) ==
    /\ Done(d) /\ call[d].row = "paid" /\ world.says \in Handler(d).late
    /\ call' = [call EXCEPT ![d].reply = "crashed", ![d].code = 500]
Settle(d) ==
    /\ Done(d) /\ (call[d].row = "paid" \/ Handler(d).settlesFirst)
    /\ world.says \notin Handler(d).late
    /\ call' = [call EXCEPT ![d].row = IF world.pays THEN "paid" ELSE @,
                            ![d].code = IF world.pays THEN 200 ELSE 402,
                            ![d].reply = IF world.pays THEN "delivered" ELSE "unsettled"]

Next ==
    /\ \E d \in Doors(route) :
        Pass(d) \/ Refuse(d) \/ Crash(d) \/ Record(d) \/ CrashLate(d) \/ Settle(d)
    /\ UNCHANGED <<route, world>>
Spec == Init /\ [][Next]_vars
-----------------------------------------------------------------------------
(* What holds of every route *)

TypeOK ==
    /\ route \in DOMAIN Sold
    /\ world \in [says : Says(route), down : SUBSET Tiers(route), pays : BOOLEAN]
    /\ call \in [Doors(route) -> [at : Nat, asked : SUBSET Tiers(route), code : {0, 200, 400, 402, 404, 422, 429, 500, 502, 504},
                                  row : {"none", "paid", "error", "payment_failed"},
                                  reply : {"none", "delivered", "unsettled", "refused", "crashed"}]]

\* A caller gets the same from a tool as from the route: what one door delivers
\* the other delivers, in the same world (mcp_server.py's runners repeat the
\* handlers by hand).  Three tools do not keep up with their handlers.
Outdated == {"search", "search_batch", "fact_check"}
BothMeet == \A d \in Doors(route) :
    world.says \in {"fine"} \cup UNION {step.may : step \in Image(Handler(d).steps)} \cup Handler(d).late
DoorsAgree ==
    BothMeet /\ route \notin Outdated /\ (\A d \in Doors(route) : call[d].reply # "none")
        => \A d, e \in Doors(route) : call[d].reply = "delivered" => call[e].reply = "delivered"

\* The requests table tells what happened: a delivery left a 'paid' row, a
\* refusal an 'error' row, and only what no client turned into its own error
\* fails without one (or, in two handlers, after the 'paid' row).
RowsTellWhatHappened ==
    /\ TypeOK
    /\ \A d \in Doors(route) :
           /\ call[d].reply = "delivered" => call[d].row = "paid"
           /\ call[d].reply = "refused" => call[d].row \in {"error", "payment_failed"} \/ route = "agent_claim"
           /\ call[d].reply = "crashed" => call[d].row = "none" \/ world.says = "unlisted_choice"
           /\ call[d].reply = "crashed" /\ d = "http"
               => \/ world.says \in {"foreign", "malformed", "BatchMisaligned", "unlisted_choice"}
                  \/ "pricelist" \in world.down

\* A mistake of the caller is found before anybody upstream is asked, and so
\* before it costs anything (each handler's checks precede its calls).
\* extract reads the page before it looks at the schema, and wallet-intelligence
\* asks for gas prices while it finds the address bad.
CallersMistakes == UNION {step.may : step \in {s \in UNION {StepsOf(r) : r \in DOMAIN Sold} : s.does = "check"}} 
RefusedInputsAskNothing ==
    \A d \in Doors(route) :
        call[d].reply = "refused" /\ world.says \in CallersMistakes /\ world.down = {}
            => call[d].asked \subseteq {"pricelist"} \/ route \in {"extract", "wallet_intelligence"}

\* With a good input, every upstream up and a payment that settles, both doors
\* deliver.
HealthyUpstreamsDeliver ==
    \A d \in Doors(route) :
        world = [says |-> "fine", down |-> {}, pays |-> TRUE] => call[d].reply \in {"none", "delivered"}
=============================================================================
