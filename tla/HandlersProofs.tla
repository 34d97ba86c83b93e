---------------------------- MODULE HandlersProofs ----------------------------
(***************************************************************************)
(* For every route of Handlers, whatever the caller sends, whichever       *)
(* upstreams are down and whether or not the payment settles: the doors    *)
(* agree, the rows tell what happened, a caller's mistake asks nothing.    *)
(*                                                                         *)
(* The argument has two halves.  The table: every route Fits, that is, its *)
(* handlers are made of sound steps, what may be the caller's fault comes  *)
(* before what asks an upstream, the except clauses catch what the steps   *)
(* raise, and each door meets what the other does.  The call: CallInv says *)
(* that a call stands where its steps led it, those it passed found no     *)
(* fault, and it has asked the upstreams of these steps only.              *)
(***************************************************************************)
EXTENDS Handlers, SequenceTheorems, TLAPS

-----------------------------------------------------------------------------
(* Steps, and the order they come in.                                      *)

\* What no client turns into an error of its own
Strange == {"foreign", "malformed", "BatchMisaligned"}

\* Everybody a step may ask
Upstreams ==
    {"sources", "searxng", "web", "jev", "openrouter", "lastresort", "claude", "ollama", "geocoder", "forecast",
     "prices", "topstories", "items", "rpc", "rpc2", "target", "discovery", "proxied", "embedder", "pricelist"}

\* What a check may find: the caller's mistakes
Mistakes ==
    {"missing_query", "invalid_query_type", "invalid_batch_query", "missing_fields", "invalid_text_type",
     "invalid_batch_text", "provide_exactly_one", "both_url_and_text_provided", "missing_url_or_text", "invalid_schema",
     "missing_schema", "both_url_and_base64_provided", "missing_url_or_base64", "invalid_base64", "missing_url",
     "missing_claim", "missing_location", "invalid_coordinates", "missing_coins", "invalid_coins", "too_many_coins",
     "invalid_coin", "invalid_vs_currency", "invalid_limit", "invalid_address", "invalid_amount", "invalid_url",
     "blocked_host", "dns_failed", "invalid_method", "invalid_json", "missing_q", "unsupported_network",
     "invalid_networks", "missing_state", "missing_questions", "too_many_questions", "invalid_question",
     "state_too_large", "missing_user_request", "missing_tool_call", "missing_source", "invalid_documents",
     "empty_text", "invalid_labels", "duplicate_labels", "streaming_not_supported", "invalid_request",
     "missing_subject", "missing_sector", "invalid_country", "invalid_max_results", "url_required",
     "no_verified_payment", "invalid_input", "invalid_block_range", "range_too_wide", "invalid_block_number"}

\* A step that raises errors of E, or something strange, when its upstreams are
\* down (all but the price list) or their answer is no good
Sound(E) ==
    {s \in [does : {"check", "ask", "find", "try"}, of : Seq(Upstreams), error : E \cup {"none", "HTTPError"},
            may : SUBSET (E \cup Strange)] :
        /\ s.does = "ask" => s.error \in E \/ s.of = <<"pricelist">>
        /\ s.does = "check" => s.may \subseteq Mistakes}

\* A step that asks nobody but the price list
Quiet(s) == s.of \in {<<>>, <<"pricelist">>}

\* A step that blames the caller for nothing a check could have found
Innocent(s) == s.may \cap Mistakes = {}

Free(E) == {s \in Sound(E) : Quiet(s)}
Harmless(E) == {s \in Sound(E) : Innocent(s)}

\* The steps that ask come after those that may find a mistake
Splits(s, n) == (\A i \in 1..n : Quiet(s[i])) /\ (\A i \in (n + 1)..Len(s) : Innocent(s[i]))
Ordered(E) == {s \in Seq(Sound(E)) : \E n \in 0..Len(s) : Splits(s, n)}

\* Checks and findings ask nobody
LEMMA ACheckIsFree ==
    ASSUME NEW E, NEW S, S \subseteq E, S \subseteq Mistakes
    PROVE  Check(S) \in Free(E)
BY DEF Check, Free, Quiet, Sound

LEMMA AFindIsFree ==
    ASSUME NEW E, NEW S, S \subseteq E
    PROVE  Finds(S) \in Free(E)
BY DEF Finds, Free, Quiet, Sound

\* Findings, questions and attempts do not blame the caller
LEMMA AFindIsHarmless ==
    ASSUME NEW E, NEW S, S \subseteq E \cup Strange, S \cap Mistakes = {}
    PROVE  Finds(S) \in Harmless(E)
BY DEF Finds, Harmless, Innocent, Sound

LEMMA AnAskIsHarmless ==
    ASSUME NEW E, NEW t \in Upstreams, NEW e \in E, NEW S, S \subseteq E \cup Strange,
           S \cap Mistakes = {}
    PROVE  Ask(<<t>>, e, S) \in Harmless(E)
BY DEF Ask, Harmless, Innocent, Sound

LEMMA AnAskOfTwoIsHarmless ==
    ASSUME NEW E, NEW t \in Upstreams, NEW u \in Upstreams, NEW e \in E, NEW S,
           S \subseteq E \cup Strange, S \cap Mistakes = {}
    PROVE  Ask(<<t, u>>, e, S) \in Harmless(E)
BY DEF Ask, Harmless, Innocent, Sound

LEMMA AModelIsHarmless ==
    ASSUME NEW E, NEW t \in Upstreams, NEW e \in E, NEW S, S \subseteq E \cup Strange,
           S \cap Mistakes = {}
    PROVE  Llm(<<t>>, e, S) \in Harmless(E)
BY AnAskIsHarmless DEF Llm, Strange, Mistakes

LEMMA AModelOfTwoIsHarmless ==
    ASSUME NEW E, NEW t \in Upstreams, NEW u \in Upstreams, NEW e \in E, NEW S,
           S \subseteq E \cup Strange, S \cap Mistakes = {}
    PROVE  Llm(<<t, u>>, e, S) \in Harmless(E)
BY AnAskOfTwoIsHarmless DEF Llm, Strange, Mistakes

LEMMA ATryIsHarmless ==
    ASSUME NEW E, NEW t \in Upstreams
    PROVE  Try(<<t>>) \in Harmless(E)
BY DEF Try, Harmless, Innocent, Sound

LEMMA ATryOfTwoIsHarmless ==
    ASSUME NEW E, NEW t \in Upstreams, NEW u \in Upstreams
    PROVE  Try(<<t, u>>) \in Harmless(E)
BY DEF Try, Harmless, Innocent, Sound

LEMMA ALeanIsHarmless ==
    ASSUME NEW E, NEW t \in Upstreams
    PROVE  Lean(<<t>>) \in Harmless(E)
<1>1. Lean(<<t>>) = [does |-> "try", of |-> <<t>>, error |-> "none", may |-> {"foreign"}]
  BY DEF Lean, Try
<1>2. [does |-> "try", of |-> <<t>>, error |-> "none", may |-> {"foreign"}] \in Harmless(E)
  BY DEF Harmless, Innocent, Sound, Strange, Mistakes
<1> QED BY <1>1, <1>2

LEMMA ALeanOfTwoIsHarmless ==
    ASSUME NEW E, NEW t \in Upstreams, NEW u \in Upstreams
    PROVE  Lean(<<t, u>>) \in Harmless(E)
<1>1. Lean(<<t, u>>) = [does |-> "try", of |-> <<t, u>>, error |-> "none", may |-> {"foreign"}]
  BY DEF Lean, Try
<1>2. [does |-> "try", of |-> <<t, u>>, error |-> "none", may |-> {"foreign"}] \in Harmless(E)
  BY DEF Harmless, Innocent, Sound, Strange, Mistakes
<1> QED BY <1>1, <1>2

\* Reading the price list is both
LEMMA ThePriceListIsBoth ==
    ASSUME NEW E
    PROVE  PriceList \in Seq(Free(E)) /\ PriceList \in Seq(Harmless(E))
<1>1. Ask(<<"pricelist">>, "HTTPError", {}) \in Free(E) \cap Harmless(E)
  BY DEF Ask, Harmless, Innocent, Free, Quiet, Sound, Upstreams
<1> QED BY <1>1 DEF PriceList

\* Steps that ask nobody are in order, and so are steps that blame nobody
LEMMA FreeIsOrdered ==
    ASSUME NEW E
    PROVE  Seq(Free(E)) \subseteq Ordered(E)
<1> SUFFICES ASSUME NEW s \in Seq(Free(E)) PROVE s \in Ordered(E)
  OBVIOUS
<1>1. s \in Seq(Sound(E)) /\ \A i \in 1..Len(s) : Quiet(s[i])
  BY DEF Free
<1>2. Splits(s, Len(s))
  BY <1>1 DEF Splits
<1> QED BY <1>1, <1>2 DEF Ordered

LEMMA HarmlessIsOrdered ==
    ASSUME NEW E
    PROVE  Seq(Harmless(E)) \subseteq Ordered(E)
<1> SUFFICES ASSUME NEW s \in Seq(Harmless(E)) PROVE s \in Ordered(E)
  OBVIOUS
<1>1. s \in Seq(Sound(E)) /\ \A i \in 1..Len(s) : Innocent(s[i])
  BY DEF Harmless
<1>2. Splits(s, 0)
  BY <1>1 DEF Splits
<1> QED BY <1>1, <1>2 DEF Ordered

\* Steps that ask nobody may come first, steps that blame nobody last
LEMMA FreeThenOrdered ==
    ASSUME NEW E, NEW s \in Seq(Free(E)), NEW t \in Ordered(E)
    PROVE  s \o t \in Ordered(E)
<1>1. PICK n \in 0..Len(t) : Splits(t, n)
  BY DEF Ordered
<1>2. s \in Seq(Sound(E)) /\ t \in Seq(Sound(E))
  BY DEF Ordered, Free
<1>3. s \o t \in Seq(Sound(E)) /\ Len(s \o t) = Len(s) + Len(t)
  BY <1>2
<1>4. ASSUME NEW i \in 1..Len(s) PROVE Quiet((s \o t)[i])
  BY DEF Free
<1>5. ASSUME NEW i \in (Len(s) + 1)..Len(s \o t) PROVE (s \o t)[i] = t[i - Len(s)] /\ i - Len(s) \in 1..Len(t)
  BY <1>2, <1>3
<1>6. ASSUME NEW i \in 1..(Len(s) + n) PROVE Quiet((s \o t)[i])
  BY <1>1, <1>2, <1>3, <1>4, <1>5 DEF Splits
<1>7. ASSUME NEW i \in (Len(s) + n + 1)..Len(s \o t) PROVE Innocent((s \o t)[i])
  BY <1>1, <1>2, <1>3, <1>5 DEF Splits
<1>8. Splits(s \o t, Len(s) + n)
  BY <1>6, <1>7 DEF Splits
<1> QED BY <1>1, <1>2, <1>3, <1>8 DEF Ordered

LEMMA OrderedThenHarmless ==
    ASSUME NEW E, NEW s \in Ordered(E), NEW t \in Seq(Harmless(E))
    PROVE  s \o t \in Ordered(E)
<1>1. PICK n \in 0..Len(s) : Splits(s, n)
  BY DEF Ordered
<1>2. s \in Seq(Sound(E)) /\ t \in Seq(Sound(E))
  BY DEF Ordered, Harmless
<1>3. s \o t \in Seq(Sound(E)) /\ Len(s \o t) = Len(s) + Len(t)
  BY <1>2
<1>4. ASSUME NEW i \in 1..n PROVE Quiet((s \o t)[i])
  BY <1>1, <1>2 DEF Splits
<1>5. ASSUME NEW i \in (n + 1)..Len(s \o t) PROVE Innocent((s \o t)[i])
  BY <1>1, <1>2, <1>3 DEF Splits, Harmless
<1>6. Splits(s \o t, n)
  BY <1>4, <1>5 DEF Splits
<1> QED BY <1>1, <1>2, <1>3, <1>6 DEF Ordered

\* Sequences of few steps
LEMMA Join ==
    ASSUME NEW S, NEW s \in Seq(S), NEW t \in Seq(S)
    PROVE  s \o t \in Seq(S)
OBVIOUS

LEMMA SeqsOf ==
    ASSUME NEW S
    PROVE  /\ <<>> \in Seq(S)
           /\ \A a \in S : <<a>> \in Seq(S)
           /\ \A a, b \in S : <<a, b>> \in Seq(S)
           /\ \A a, b, c \in S : <<a, b, c>> \in Seq(S)
           /\ \A a, b, c, d \in S : <<a, b, c, d>> \in Seq(S)
OBVIOUS

LEMMA PartsAreSound ==
    ASSUME NEW E
    PROVE  Seq(Free(E)) \subseteq Seq(Sound(E)) /\ Seq(Harmless(E)) \subseteq Seq(Sound(E))
BY DEF Free, Harmless

LEMMA HeadOrdered ==
    ASSUME NEW E, NEW S, S \subseteq E, S \subseteq Mistakes
    PROVE  <<Check(S)>> \in Ordered(E)
<1>1. <<Check(S)>> \in Seq(Free(E))
  BY ACheckIsFree, SeqsOf
<1> QED BY <1>1, FreeIsOrdered

LEMMA ThenOne ==
    ASSUME NEW E, NEW a \in Free(E), NEW b \in Harmless(E)
    PROVE  <<a, b>> \in Ordered(E)
<1>1. <<a, b>> \in Seq(Sound(E))
  BY DEF Free, Harmless
<1>2. Splits(<<a, b>>, 1)
  BY DEF Splits, Free, Harmless
<1> QED BY <1>1, <1>2 DEF Ordered

LEMMA ThenTwo ==
    ASSUME NEW E, NEW a \in Free(E), NEW b \in Harmless(E), NEW c \in Harmless(E)
    PROVE  <<a, b, c>> \in Ordered(E)
<1>1. <<a, b, c>> \in Seq(Sound(E))
  BY DEF Free, Harmless
<1>2. Splits(<<a, b, c>>, 1)
  BY DEF Splits, Free, Harmless
<1> QED BY <1>1, <1>2 DEF Ordered

LEMMA ThenThree ==
    ASSUME NEW E, NEW a \in Free(E), NEW b \in Harmless(E), NEW c \in Harmless(E),
           NEW d \in Harmless(E)
    PROVE  <<a, b, c, d>> \in Ordered(E)
<1>1. <<a, b, c, d>> \in Seq(Sound(E))
  BY DEF Free, Harmless
<1>2. Splits(<<a, b, c, d>>, 1)
  BY DEF Splits, Free, Harmless
<1> QED BY <1>1, <1>2 DEF Ordered

LEMMA ThenFour ==
    ASSUME NEW E, NEW a \in Free(E), NEW b \in Harmless(E), NEW c \in Harmless(E),
           NEW d \in Harmless(E), NEW e \in Harmless(E)
    PROVE  <<a, b, c, d, e>> \in Ordered(E)
<1>1. <<a, b, c, d, e>> \in Seq(Sound(E))
  BY DEF Free, Harmless
<1>2. Splits(<<a, b, c, d, e>>, 1)
  BY DEF Splits, Free, Harmless
<1> QED BY <1>1, <1>2 DEF Ordered

LEMMA TwoThenOne ==
    ASSUME NEW E, NEW a \in Free(E), NEW b \in Free(E), NEW c \in Harmless(E)
    PROVE  <<a, b, c>> \in Ordered(E)
<1>1. <<a, b, c>> \in Seq(Sound(E))
  BY DEF Free, Harmless
<1>2. Splits(<<a, b, c>>, 2)
  BY DEF Splits, Free, Harmless
<1> QED BY <1>1, <1>2 DEF Ordered

LEMMA TwoThenTwo ==
    ASSUME NEW E, NEW a \in Free(E), NEW b \in Free(E), NEW c \in Harmless(E),
           NEW d \in Harmless(E)
    PROVE  <<a, b, c, d>> \in Ordered(E)
<1>1. <<a, b, c, d>> \in Seq(Sound(E))
  BY DEF Free, Harmless
<1>2. Splits(<<a, b, c, d>>, 2)
  BY DEF Splits, Free, Harmless
<1> QED BY <1>1, <1>2 DEF Ordered

\* A lookup in order stays so when more errors are allowed
LEMMA MoreErrors ==
    ASSUME NEW E, NEW F, E \subseteq F
    PROVE  Ordered(E) \subseteq Ordered(F)
<1>1. Sound(E) \subseteq Sound(F)
  BY DEF Sound
<1> QED BY <1>1 DEF Ordered

LEMMA OrderedSteps ==
    ASSUME NEW E, NEW s \in Ordered(E)
    PROVE  s \in Seq(Sound(E)) /\ \E n \in 0..Len(s) : Splits(s, n)
BY DEF Ordered

-----------------------------------------------------------------------------
(* The lookups are in order, or blame nobody.                              *)

LEMMA WeatherLookupOrdered ==
    ASSUME NEW E,
           {"missing_location", "invalid_coordinates", "location_not_found", "HTTPError"} \subseteq E
    PROVE  WeatherLookup \in Ordered(E)
<1>1. Check({"missing_location", "invalid_coordinates"}) \in Free(E)
  BY ACheckIsFree DEF Mistakes
<1>2. Ask(<<"geocoder">>, "HTTPError", {"location_not_found"}) \in Harmless(E)
  BY AnAskIsHarmless DEF Mistakes, Strange, Upstreams
<1>3. Ask(<<"forecast">>, "HTTPError", {"malformed"}) \in Harmless(E)
  BY AnAskIsHarmless DEF Mistakes, Strange, Upstreams
<1> QED BY <1>1, <1>2, <1>3, ThenTwo DEF WeatherLookup

LEMMA CryptoLookupOrdered ==
    ASSUME NEW E,
           {"missing_coins", "invalid_coins", "too_many_coins", "invalid_coin", "invalid_vs_currency",
            "rate_limited", "coins_not_found", "HTTPError"} \subseteq E
    PROVE  CryptoLookup \in Ordered(E)
<1>1. Check({"missing_coins", "invalid_coins", "too_many_coins", "invalid_coin", "invalid_vs_currency"}) \in Free(E)
  BY ACheckIsFree DEF Mistakes
<1>2. Ask(<<"prices">>, "HTTPError", {"rate_limited", "coins_not_found", "malformed"}) \in Harmless(E)
  BY AnAskIsHarmless DEF Mistakes, Strange, Upstreams
<1> QED BY <1>1, <1>2, ThenOne DEF CryptoLookup

LEMMA NewsLookupOrdered ==
    ASSUME NEW E,
           {"invalid_limit", "upstream_empty", "HTTPError"} \subseteq E
    PROVE  NewsLookup \in Ordered(E)
<1>1. Check({"invalid_limit"}) \in Free(E)
  BY ACheckIsFree DEF Mistakes
<1>2. Ask(<<"topstories">>, "HTTPError", {"upstream_empty"}) \in Harmless(E)
  BY AnAskIsHarmless DEF Mistakes, Upstreams
<1>3. Ask(<<"items">>, "HTTPError", {"malformed"}) \in Harmless(E)
  BY AnAskIsHarmless DEF Mistakes, Strange, Upstreams
<1> QED BY <1>1, <1>2, <1>3, ThenTwo DEF NewsLookup

LEMMA CanPayLookupOrdered ==
    ASSUME NEW E,
           {"invalid_address", "invalid_amount", "rpc_error", "HTTPError"} \subseteq E
    PROVE  CanPayLookup \in Ordered(E)
<1>1. Check({"invalid_address", "invalid_amount"}) \in Free(E)
  BY ACheckIsFree DEF Mistakes
<1>2. Ask(<<"rpc">>, "HTTPError", {"rpc_error", "malformed"}) \in Harmless(E)
  BY AnAskIsHarmless DEF Mistakes, Strange, Upstreams
<1> QED BY <1>1, <1>2, ThenOne DEF CanPayLookup

LEMMA ProbeLookupOrdered ==
    ASSUME NEW E,
           {"missing_url", "invalid_url", "blocked_host", "dns_failed", "invalid_method", "timeout"} \subseteq E
    PROVE  ProbeLookup \in Ordered(E)
<1>1. Check({"missing_url", "invalid_url", "blocked_host", "dns_failed", "invalid_method"}) \in Free(E)
  BY ACheckIsFree DEF Mistakes
<1>2. Try(<<"target">>) \in Harmless(E)
  BY ATryIsHarmless DEF Upstreams
<1>3. Finds({"timeout"}) \in Harmless(E)
  BY AFindIsHarmless DEF Mistakes
<1> QED BY <1>1, <1>2, <1>3, ThenTwo DEF ProbeLookup

LEMMA AgentHealthLookupOrdered ==
    ASSUME NEW E,
           {"missing_url", "invalid_url", "blocked_host", "dns_failed", "invalid_method", "timeout"} \subseteq E
    PROVE  AgentHealthLookup \in Ordered(E)
<1>1. ProbeLookup \in Ordered(E)
  BY ProbeLookupOrdered
<1>2. Try(<<"discovery">>) \in Harmless(E)
  BY ATryIsHarmless DEF Upstreams
<1> QED BY <1>1, <1>2, SeqsOf, OrderedThenHarmless DEF AgentHealthLookup

LEMMA ProxyLookupOrdered ==
    ASSUME NEW E,
           {"HTTPError"} \subseteq E
    PROVE  ProxyLookup \in Ordered(E)
<1>1. Ask(<<"proxied">>, "HTTPError", {"malformed"}) \in Harmless(E)
  BY AnAskIsHarmless DEF Mistakes, Strange, Upstreams
<1> QED BY <1>1, SeqsOf, HarmlessIsOrdered DEF ProxyLookup

LEMMA GasPriceLookupOrdered ==
    ASSUME NEW E,
           {"unsupported_network", "rpc_unavailable"} \subseteq E
    PROVE  GasPriceLookup \in Ordered(E)
<1>1. Check({"unsupported_network"}) \in Free(E)
  BY ACheckIsFree DEF Mistakes
<1>2. Ask(<<"rpc">>, "rpc_unavailable", {"malformed"}) \in Harmless(E)
  BY AnAskIsHarmless DEF Mistakes, Strange, Upstreams
<1> QED BY <1>1, <1>2, ThenOne DEF GasPriceLookup

LEMMA WalletBalanceLookupOrdered ==
    ASSUME NEW E,
           {"invalid_address", "unsupported_network", "rpc_unavailable"} \subseteq E
    PROVE  WalletBalanceLookup \in Ordered(E)
<1>1. Check({"invalid_address", "unsupported_network"}) \in Free(E)
  BY ACheckIsFree DEF Mistakes
<1>2. Ask(<<"rpc">>, "rpc_unavailable", {"malformed"}) \in Harmless(E)
  BY AnAskIsHarmless DEF Mistakes, Strange, Upstreams
<1> QED BY <1>1, <1>2, ThenOne DEF WalletBalanceLookup

LEMMA TokenSignalsOrdered ==
    ASSUME NEW E,
           {"invalid_address", "bytecode_unavailable", "not_a_contract"} \subseteq E
    PROVE  TokenSignals \in Ordered(E)
<1>1. Check({"invalid_address"}) \in Free(E)
  BY ACheckIsFree DEF Mistakes
<1>2. Ask(<<"rpc">>, "bytecode_unavailable", {"not_a_contract"}) \in Harmless(E)
  BY AnAskIsHarmless DEF Mistakes, Strange, Upstreams
<1>3. Try(<<"rpc">>) \in Harmless(E)
  BY ATryIsHarmless DEF Upstreams
<1> QED BY <1>1, <1>2, <1>3, ThenTwo DEF TokenSignals

LEMMA TokenRiskLookupOrdered ==
    ASSUME NEW E,
           {"invalid_address", "bytecode_unavailable", "not_a_contract"} \subseteq E
    PROVE  TokenRiskLookup \in Ordered(E)
<1>1. TokenSignals \in Ordered(E)
  BY TokenSignalsOrdered
<1>2. Lean(<<"jev">>) \in Harmless(E)
  BY ALeanIsHarmless DEF Upstreams
<1> QED BY <1>1, <1>2, SeqsOf, OrderedThenHarmless DEF TokenRiskLookup

LEMMA ComputeCardOrdered ==
    ASSUME NEW E,
           {"invalid_address", "bytecode_unavailable", "not_a_contract", "TimeoutError"} \subseteq E
    PROVE  ComputeCard \in Ordered(E)
<1>1. TokenRiskLookup \in Ordered(E)
  BY TokenRiskLookupOrdered
<1>2. Try(<<"claude">>) \in Harmless(E)
  BY ATryIsHarmless DEF Upstreams
<1>3. Finds({"TimeoutError"}) \in Harmless(E)
  BY AFindIsHarmless DEF Mistakes
<1> QED BY <1>1, <1>2, <1>3, SeqsOf, OrderedThenHarmless DEF ComputeCard

LEMMA DueDiligenceLookupOrdered ==
    ASSUME NEW E,
           {"invalid_address"} \subseteq E
    PROVE  DueDiligenceLookup \in Ordered(E)
<1>1. Check({"invalid_address"}) \in Free(E)
  BY ACheckIsFree DEF Mistakes
<1>2. Try(<<"rpc">>) \in Harmless(E)
  BY ATryIsHarmless DEF Upstreams
<1>3. Lean(<<"jev">>) \in Harmless(E)
  BY ALeanIsHarmless DEF Upstreams
<1>4. Try(<<"target">>) \in Harmless(E)
  BY ATryIsHarmless DEF Upstreams
<1> QED BY <1>1, <1>2, <1>3, <1>4, ThenThree DEF DueDiligenceLookup

LEMMA DecideLookupOrdered ==
    ASSUME NEW E,
           {"missing_state", "missing_questions", "too_many_questions", "invalid_question",
            "state_too_large", "JevError"} \subseteq E
    PROVE  DecideLookup \in Ordered(E)
<1>1. Check({"missing_state", "missing_questions", "too_many_questions", "invalid_question",
             "state_too_large"}) \in Free(E)
  BY ACheckIsFree DEF Mistakes
<1>2. Llm(<<"jev">>, "JevError", {}) \in Harmless(E)
  BY AModelIsHarmless DEF Mistakes, Upstreams
<1> QED BY <1>1, <1>2, ThenOne DEF DecideLookup

LEMMA GuardLookupOrdered ==
    ASSUME NEW E,
           {"missing_user_request", "missing_tool_call", "JevError"} \subseteq E
    PROVE  GuardLookup \in Ordered(E)
<1>1. <<Check({"missing_user_request", "missing_tool_call"})>> \in Ordered(E)
  BY HeadOrdered DEF Mistakes
<1>2. Llm(<<"jev">>, "JevError", {}) \in Harmless(E)
  BY AModelIsHarmless DEF Mistakes, Upstreams
<1> QED BY <1>1, <1>2, SeqsOf, OrderedThenHarmless DEF GuardLookup, Judged

LEMMA VerifyLookupOrdered ==
    ASSUME NEW E,
           {"missing_claim", "missing_source", "JevError"} \subseteq E
    PROVE  VerifyLookup \in Ordered(E)
<1>1. <<Check({"missing_claim", "missing_source"})>> \in Ordered(E)
  BY HeadOrdered DEF Mistakes
<1>2. Llm(<<"jev">>, "JevError", {}) \in Harmless(E)
  BY AModelIsHarmless DEF Mistakes, Upstreams
<1> QED BY <1>1, <1>2, SeqsOf, OrderedThenHarmless DEF VerifyLookup, Judged

LEMMA RankLookupOrdered ==
    ASSUME NEW E,
           {"missing_query", "invalid_documents", "JevError"} \subseteq E
    PROVE  RankLookup \in Ordered(E)
<1>1. <<Check({"missing_query", "invalid_documents"})>> \in Ordered(E)
  BY HeadOrdered DEF Mistakes
<1>2. Llm(<<"jev">>, "JevError", {}) \in Harmless(E)
  BY AModelIsHarmless DEF Mistakes, Upstreams
<1> QED BY <1>1, <1>2, SeqsOf, OrderedThenHarmless DEF RankLookup, Judged

LEMMA SummarizeContentOrdered ==
    ASSUME NEW E,
           {"provide_exactly_one", "fetch_failed", "no_extractable_content"} \subseteq E
    PROVE  SummarizeContent \in Ordered(E)
<1>1. Check({"provide_exactly_one"}) \in Free(E)
  BY ACheckIsFree DEF Mistakes
<1>2. Ask(<<"web">>, "fetch_failed", {"no_extractable_content"}) \in Harmless(E)
  BY AnAskIsHarmless DEF Mistakes, Strange, Upstreams
<1> QED BY <1>1, <1>2, ThenOne DEF SummarizeContent

LEMMA SummarizeStepsOrdered ==
    ASSUME NEW E,
           {"provide_exactly_one", "fetch_failed", "no_extractable_content", "upstream_error"} \subseteq E
    PROVE  SummarizeSteps \in Ordered(E)
<1>1. SummarizeContent \in Ordered(E)
  BY SummarizeContentOrdered
<1>2. Llm(<<"openrouter", "lastresort">>, "upstream_error", {}) \in Harmless(E)
  <2>1. "openrouter" \in Upstreams /\ "lastresort" \in Upstreams
    BY DEF Upstreams
  <2> QED BY <2>1, AModelOfTwoIsHarmless
<1> QED BY <1>1, <1>2, SeqsOf, OrderedThenHarmless DEF SummarizeSteps

LEMMA PdfBytesOrdered ==
    ASSUME NEW E,
           {"both_url_and_base64_provided", "missing_url_or_base64", "invalid_base64", "FetchError"} \subseteq E
    PROVE  PdfBytes \in Ordered(E)
<1>1. Check({"both_url_and_base64_provided", "missing_url_or_base64", "invalid_base64"}) \in Free(E)
  BY ACheckIsFree DEF Mistakes
<1>2. Ask(<<"web">>, "FetchError", {}) \in Harmless(E)
  BY AnAskIsHarmless DEF Mistakes, Strange, Upstreams
<1> QED BY <1>1, <1>2, ThenOne DEF PdfBytes

LEMMA ReadUrlOrdered ==
    ASSUME NEW E,
           {"missing_url", "FetchError", "no_extractable_content"} \subseteq E
    PROVE  ReadUrl \in Ordered(E)
<1>1. Check({"missing_url"}) \in Free(E)
  BY ACheckIsFree DEF Mistakes
<1>2. Ask(<<"web">>, "FetchError", {"no_extractable_content"}) \in Harmless(E)
  BY AnAskIsHarmless DEF Mistakes, Strange, Upstreams
<1> QED BY <1>1, <1>2, ThenOne DEF ReadUrl

LEMMA ComputeStepsOrdered ==
    ASSUME NEW E,
           {"invalid_input", "ComputeError", "exception"} \subseteq E
    PROVE  ComputeSteps \in Ordered(E)
<1>1. Check({"invalid_input"}) \in Free(E)
  BY ACheckIsFree DEF Mistakes
<1>2. Finds({"ComputeError", "exception"}) \in Harmless(E)
  BY AFindIsHarmless DEF Mistakes
<1> QED BY <1>1, <1>2, ThenOne DEF ComputeSteps

LEMMA WebSearchHarmless ==
    ASSUME NEW E, NEW w, w \notin Mistakes, {w} \subseteq E
    PROVE  WebSearch(w) \in Seq(Harmless(E))
<1>1. Ask(<<"sources", "searxng">>, w, {w}) \in Harmless(E)
  <2>1. "sources" \in Upstreams /\ "searxng" \in Upstreams
    BY DEF Upstreams
  <2> QED BY <2>1, AnAskOfTwoIsHarmless
<1>2. Lean(<<"jev">>) \in Harmless(E)
  BY ALeanIsHarmless DEF Upstreams
<1> QED BY <1>1, <1>2, SeqsOf DEF WebSearch

LEMMA WebSearchesHarmless ==
    ASSUME NEW E, NEW w, w \notin Mistakes, {w} \subseteq E
    PROVE  WebSearches(w) \in Seq(Harmless(E))
<1>1. Ask(<<"sources", "searxng">>, w, {w}) \in Harmless(E)
  <2>1. "sources" \in Upstreams /\ "searxng" \in Upstreams
    BY DEF Upstreams
  <2> QED BY <2>1, AnAskOfTwoIsHarmless
<1>2. Try(<<"jev">>) \in Harmless(E)
  BY ATryIsHarmless DEF Upstreams
<1> QED BY <1>1, <1>2, SeqsOf DEF WebSearches

LEMMA EnrichHarmless ==
    ASSUME NEW E
    PROVE  Enrich \in Seq(Harmless(E))
BY ATryIsHarmless, SeqsOf DEF Enrich, Upstreams

LEMMA TranslateOneHarmless ==
    ASSUME NEW E,
           {"OpenRouterError"} \subseteq E
    PROVE  TranslateOne \in Seq(Harmless(E))
<1>1. Llm(<<"openrouter", "lastresort">>, "OpenRouterError", {}) \in Harmless(E)
  <2>1. "openrouter" \in Upstreams /\ "lastresort" \in Upstreams
    BY DEF Upstreams
  <2> QED BY <2>1, AModelOfTwoIsHarmless
<1> QED BY <1>1, SeqsOf DEF TranslateOne

LEMMA TranslateBatchHarmless ==
    ASSUME NEW E,
           {"OpenRouterError"} \subseteq E
    PROVE  TranslateBatch \in Seq(Harmless(E))
<1>1. Llm(<<"openrouter", "lastresort">>, "OpenRouterError", {"BatchMisaligned"}) \in Harmless(E)
  <2>1. "openrouter" \in Upstreams /\ "lastresort" \in Upstreams
    BY DEF Upstreams
  <2>2. {"BatchMisaligned"} \subseteq E \cup Strange /\ {"BatchMisaligned"} \cap Mistakes = {}
    BY DEF Strange, Mistakes
  <2> QED BY <2>1, <2>2, AModelOfTwoIsHarmless
<1> QED BY <1>1, SeqsOf DEF TranslateBatch

LEMMA ParsePdfHarmless ==
    ASSUME NEW E,
           {"invalid_pdf", "encrypted_pdf", "no_extractable_text"} \subseteq E
    PROVE  ParsePdf \in Seq(Harmless(E))
<1>1. Finds({"invalid_pdf", "encrypted_pdf", "no_extractable_text"}) \in Harmless(E)
  BY AFindIsHarmless DEF Mistakes
<1> QED BY <1>1, SeqsOf DEF ParsePdf

LEMMA PlanSearchQueriesHarmless ==
    ASSUME NEW E
    PROVE  PlanSearchQueries \in Seq(Harmless(E))
BY ATryOfTwoIsHarmless, SeqsOf DEF PlanSearchQueries, Upstreams

LEMMA MultiSearchHarmless ==
    ASSUME NEW E,
           {"no_sources_found"} \subseteq E
    PROVE  MultiSearch \in Seq(Harmless(E))
BY WebSearchesHarmless DEF MultiSearch, Mistakes

LEMMA RequestVerdictHarmless ==
    ASSUME NEW E,
           {"upstream_error", "verification_failed"} \subseteq E
    PROVE  RequestVerdict \in Seq(Harmless(E))
<1>1. Ask(<<"claude", "ollama">>, "upstream_error", {"verification_failed"}) \in Harmless(E)
  <2>1. "claude" \in Upstreams /\ "ollama" \in Upstreams
    BY DEF Upstreams
  <2>2. {"verification_failed"} \subseteq E \cup Strange /\ {"verification_failed"} \cap Mistakes = {}
    BY DEF Strange, Mistakes
  <2> QED BY <2>1, <2>2, AnAskOfTwoIsHarmless
<1> QED BY <1>1, SeqsOf DEF RequestVerdict

LEMMA CheckClaimHarmless ==
    ASSUME NEW E,
           {"no_sources_found", "upstream_error", "verification_failed"} \subseteq E
    PROVE  CheckClaim \in Seq(Harmless(E))
BY PlanSearchQueriesHarmless, MultiSearchHarmless, RequestVerdictHarmless, Join DEF CheckClaim

LEMMA DiscoverLookupHarmless ==
    ASSUME NEW E,
           {"OllamaError"} \subseteq E
    PROVE  DiscoverLookup \in Seq(Harmless(E))
<1>1. Ask(<<"embedder">>, "OllamaError", {}) \in Harmless(E)
  BY AnAskIsHarmless DEF Mistakes, Strange, Upstreams
<1> QED BY <1>1, SeqsOf DEF DiscoverLookup

LEMMA ClassifyHarmless ==
    ASSUME NEW E,
           {"engine_unavailable"} \subseteq E
    PROVE  Classify \in Seq(Harmless(E))
<1>1. Llm(<<"jev", "openrouter">>, "engine_unavailable", {}) \in Harmless(E)
  <2>1. "jev" \in Upstreams /\ "openrouter" \in Upstreams
    BY DEF Upstreams
  <2> QED BY <2>1, AModelOfTwoIsHarmless
<1> QED BY <1>1, SeqsOf DEF Classify

LEMMA CompletionHarmless ==
    ASSUME NEW E,
           {"OpenRouterError", "TimeoutError"} \subseteq E
    PROVE  Completion \in Seq(Harmless(E))
<1>1. Llm(<<"openrouter">>, "OpenRouterError", {"TimeoutError"}) \in Harmless(E)
  BY AModelIsHarmless DEF Mistakes, Upstreams
<1> QED BY <1>1, SeqsOf DEF Completion

LEMMA ResearchStepsOrdered ==
    ASSUME NEW E,
           {"missing_query", "no_results"} \subseteq E
    PROVE  ResearchSteps \in Ordered(E)
<1>1. <<Check({"missing_query"})>> \in Ordered(E)
  BY HeadOrdered DEF Mistakes
<1>2. WebSearch("no_results") \in Seq(Harmless(E))
  BY WebSearchHarmless DEF Mistakes
<1>3. <<Lean(<<"openrouter">>), Lean(<<"jev">>)>> \in Seq(Harmless(E))
  BY ALeanIsHarmless, SeqsOf DEF Upstreams
<1> QED BY <1>1, <1>2, <1>3, OrderedThenHarmless DEF ResearchSteps

-----------------------------------------------------------------------------
(* Handlers, and how the two of a route compare.                           *)

Codes == {0, 200, 400, 402, 404, 422, 429, 500, 502, 504}

\* A step that always fails, with an exception no clause catches
Fatal(except) ==
    {s \in {Raises("TypeError"), Raises("ValueError")} : \A k \in DOMAIN except : ~Catches(except[k], s.error)}

InOrder(h) == \E n \in 0..Len(h.steps) : Splits(h.steps, n)
WellFormed(h) ==
    /\ \E E : h.steps \in Seq(Sound(E) \cup Fatal(h.except))
    /\ \A k \in DOMAIN h.except : h.except[k].code \in Codes /\ h.except[k].row \in {"error", "payment_failed", "none"}
    /\ h.late \subseteq {"unlisted_choice"}

\* Every clause leaves a row; every error of E has a clause
Logs(h) == \A k \in DOMAIN h.except : h.except[k].row \in {"error", "payment_failed"}
Covers(except, E) == \A e \in E : \E k \in DOMAIN except : Catches(except[k], e)

\* Nothing but what is strange gets past the except clauses
Answers(h) == \E E : h.steps \in Seq(Sound(E)) /\ Covers(h.except, E)

\* A step whose outcome depends on the input alone
Plain(s) == s.does \in {"check", "find"} /\ s.of = <<>>

\* What a call may run into behind this door
Meets(h) == {"fine"} \cup UNION {s.may : s \in Image(h.steps)} \cup h.late

\* What stops a call behind door g stops it behind door h: each step of g is one
\* of h, or looks at the input for what a step of h looks for
Follows(g, h) ==
    \A t \in Image(g.steps) :
        \/ t \in Image(h.steps)
        \/ Plain(t) /\ \A m \in t.may \cap Meets(h) : \E s \in Image(h.steps) : Plain(s) /\ m \in s.may

Agree(h, g) == Follows(h, g) /\ Follows(g, h) /\ h.late = g.late
Replying(except) == \A k \in DOMAIN except : except[k].code \in Codes /\ except[k].row \in {"error", "payment_failed"}

\* What the table owes the argument
Fits(r) ==
    /\ DOMAIN Sold[r] \subseteq {"http", "mcp"}
    /\ "http" \in DOMAIN Sold[r]
    /\ \A d \in Doors(r) : WellFormed(Sold[r][d])
    /\ r # "agent_claim" => \A d \in Doors(r) : Logs(Sold[r][d])
    /\ Answers(Sold[r]["http"])
    /\ r \notin {"extract", "wallet_intelligence"} => \A d \in Doors(r) : InOrder(Sold[r][d])
    /\ r \notin Outdated => \A d, e \in Doors(r) : Follows(Sold[r][d], Sold[r][e]) /\ Sold[r][d].late = Sold[r][e].late

\* Sound steps and clauses that reply make a handler
LEMMA Shape ==
    ASSUME NEW h, NEW E, h.steps \in Seq(Sound(E)), Replying(h.except), h.late \subseteq {"unlisted_choice"}
    PROVE  WellFormed(h) /\ Logs(h) /\ (Covers(h.except, E) => Answers(h))
<1>1. h.steps \in Seq(Sound(E) \cup Fatal(h.except))
  OBVIOUS
<1> QED BY <1>1 DEF WellFormed, Logs, Answers, Replying

LEMMA OneClause ==
    ASSUME NEW es
    PROVE  Replying(<<On(200, es)>>)
BY DEF Replying, On, Codes

LEMMA HttpFits ==
    ASSUME NEW E, NEW s \in Ordered(E), NEW x, Replying(x), Covers(x, E)
    PROVE  WellFormed(Http(s, x)) /\ Logs(Http(s, x)) /\ InOrder(Http(s, x)) /\ Answers(Http(s, x))
<1> DEFINE h == Http(s, x)
<1>1. h.steps = s /\ h.except = x /\ h.late = {}
  BY DEF Http
<1> HIDE DEF h
<1> QED BY <1>1, OrderedSteps, Shape DEF InOrder, h

LEMMA ToolFits ==
    ASSUME NEW E, NEW s \in Ordered(E), NEW es
    PROVE  WellFormed(Tool(s, es)) /\ Logs(Tool(s, es)) /\ InOrder(Tool(s, es))
<1> DEFINE h == Tool(s, es)
<1>1. h.steps = s /\ h.except = <<On(200, es)>> /\ h.late = {}
  BY DEF Tool, Http
<1>2. Replying(<<On(200, es)>>)
  BY OneClause
<1> HIDE DEF h
<1> QED BY <1>1, <1>2, OrderedSteps, Shape DEF InOrder, h

\* Two handlers with the same steps agree
LEMMA SameSteps ==
    ASSUME NEW h, NEW g, h.steps = g.steps, h.late = g.late
    PROVE  Agree(h, g)
BY DEF Agree, Follows

LEMMA OneLookupAgrees ==
    ASSUME NEW s, NEW x, NEW es
    PROVE  Agree(Http(s, x), Tool(s, es))
<1>1. Http(s, x).steps = Tool(s, es).steps /\ Http(s, x).late = Tool(s, es).late
  BY DEF Http, Tool
<1> QED BY <1>1, SameSteps

\* A route fits when its handlers do
LEMMA TwoDoors ==
    ASSUME NEW r, NEW h, NEW g, Sold[r] = Two(h, g), WellFormed(h), WellFormed(g), Logs(h), Logs(g), Answers(h),
           r \in {"extract", "wallet_intelligence"} \/ (InOrder(h) /\ InOrder(g)),
           r \in Outdated \/ Agree(h, g)
    PROVE  Fits(r)
<1>1. DOMAIN Sold[r] = {"http", "mcp"} /\ Sold[r]["http"] = h /\ Sold[r]["mcp"] = g
  BY DEF Two
<1>2. Follows(h, h) /\ Follows(g, g)
  BY DEF Follows
<1> QED BY <1>1, <1>2 DEF Fits, Doors, Agree

LEMMA OneDoor ==
    ASSUME NEW r, NEW h, Sold[r] = [http |-> h], WellFormed(h), r = "agent_claim" \/ Logs(h), Answers(h), InOrder(h)
    PROVE  Fits(r)
<1>1. DOMAIN Sold[r] = {"http"} /\ Sold[r]["http"] = h
  OBVIOUS
<1>2. Follows(h, h)
  BY DEF Follows
<1> QED BY <1>1, <1>2 DEF Fits, Doors

\* Both doors run one lookup
LEMMA OneLookup ==
    ASSUME NEW r, NEW E, NEW s \in Ordered(E), NEW x, Replying(x), Covers(x, E), NEW es,
           Sold[r] = Two(Http(s, x), Tool(s, es))
    PROVE  Fits(r)
BY HttpFits, ToolFits, OneLookupAgrees, TwoDoors

\* Both doors run one lookup that is not in order
LEMMA Unordered ==
    ASSUME NEW r \in {"extract", "wallet_intelligence"}, NEW E, NEW s \in Seq(Sound(E)),
           NEW x, Replying(x), Covers(x, E), NEW es, Sold[r] = Two(Http(s, x), Tool(s, es))
    PROVE  Fits(r)
<1> DEFINE h == Http(s, x)
           g == Tool(s, es)
<1>1. /\ h.steps = s /\ h.except = x /\ h.late = {}
      /\ g.steps = s /\ g.except = <<On(200, es)>> /\ g.late = {}
  BY DEF Http, Tool
<1>2. Replying(<<On(200, es)>>)
  BY OneClause
<1>3. Agree(h, g)
  BY OneLookupAgrees
<1> HIDE DEF h, g
<1>4. WellFormed(h) /\ Logs(h) /\ Answers(h) /\ WellFormed(g) /\ Logs(g)
  BY <1>1, <1>2, Shape
<1> QED BY <1>3, <1>4, TwoDoors DEF h, g

\* Both doors run one lookup, and may fail after it
LEMMA BothLate ==
    ASSUME NEW r, NEW E, NEW s \in Ordered(E), NEW x, Replying(x), Covers(x, E), NEW es,
           NEW late \in SUBSET {"unlisted_choice"},
           Sold[r] = Two(Late(Http(s, x), late), Late(Tool(s, es), late))
    PROVE  Fits(r)
<1> DEFINE h == Late(Http(s, x), late)
           g == Late(Tool(s, es), late)
<1>1. /\ h.steps = s /\ h.except = x /\ h.late = late
      /\ g.steps = s /\ g.except = <<On(200, es)>> /\ g.late = late
  BY DEF Http, Tool, Late
<1>2. Replying(<<On(200, es)>>)
  BY OneClause
<1> HIDE DEF h, g
<1>3. /\ WellFormed(h) /\ Logs(h) /\ Answers(h)
      /\ WellFormed(g) /\ Logs(g)
  <2>1. h.steps \in Seq(Sound(E)) /\ g.steps \in Seq(Sound(E))
    BY <1>1, OrderedSteps
  <2> QED BY <1>1, <1>2, <2>1, Shape
<1>5. InOrder(h) /\ InOrder(g)
  BY <1>1, OrderedSteps DEF InOrder
<1>4. Agree(h, g)
  BY <1>1, SameSteps
<1> QED BY <1>3, <1>4, <1>5, TwoDoors DEF h, g

\* A handler whose last step always fails is one all the same
LEMMA RaisesLast ==
    ASSUME NEW E, NEW s \in Ordered(E), NEW e \in {"TypeError", "ValueError"}, NEW es, es # All, e \notin es
    PROVE  LET h == Tool(s \o <<Raises(e)>>, es) IN WellFormed(h) /\ Logs(h) /\ InOrder(h)
<1> DEFINE a == Raises(e)
           t == s \o <<a>>
           x == <<On(200, es)>>
           h == Tool(t, es)
<1>1. h.steps = t /\ h.except = x /\ h.late = {}
  BY DEF Tool, Http
<1>2. a \in Fatal(x) /\ Innocent(a)
  <2>1. a \in {Raises("TypeError"), Raises("ValueError")} /\ a.error = e /\ a.may = {}
    BY DEF Raises
  <2>2. \A k \in DOMAIN x : x[k].es = es
    BY DEF On
  <2> HIDE DEF a, x
  <2>3. \A k \in DOMAIN x : ~Catches(x[k], e)
    BY <2>2 DEF Catches
  <2> QED BY <2>1, <2>3 DEF Fatal, Innocent
<1>3. Replying(x)
  BY OneClause
<1>4. PICK n \in 0..Len(s) : Splits(s, n)
  BY OrderedSteps
<1> HIDE DEF a, x
<1>5. s \in Seq(Sound(E) \cup Fatal(x)) /\ <<a>> \in Seq(Sound(E) \cup Fatal(x))
  BY <1>2, OrderedSteps
<1>6. t \in Seq(Sound(E) \cup Fatal(x)) /\ Len(t) = Len(s) + 1
  BY <1>5
<1>7. ASSUME NEW i \in 1..Len(s) PROVE t[i] = s[i]
  BY <1>5
<1>8. t[Len(s) + 1] = a
  BY <1>5
<1>9. \A i \in (n + 1)..Len(t) : i \in (n + 1)..Len(s) \/ i = Len(s) + 1
  BY <1>5, <1>6
<1> HIDE DEF t
<1>10. Splits(t, n)
  BY <1>2, <1>4, <1>5, <1>6, <1>7, <1>8, <1>9 DEF Splits
<1>11. n \in 0..Len(t)
  BY <1>5, <1>6
<1> HIDE DEF h
<1>12. WellFormed(h) /\ Logs(h) /\ InOrder(h)
  BY <1>1, <1>3, <1>6, <1>10, <1>11 DEF WellFormed, Logs, Replying, InOrder
<1> QED BY <1>12 DEF h, t, a

\* The steps of a sequence
LEMMA ImageOfTwo ==
    ASSUME NEW S, NEW s \in Seq(S), NEW t \in Seq(S)
    PROVE  Image(s \o t) = Image(s) \cup Image(t)
<1>1. s \o t \in Seq(S) /\ Len(s \o t) = Len(s) + Len(t)
  OBVIOUS
<1>2. ASSUME NEW i \in 1..Len(s) PROVE (s \o t)[i] = s[i] /\ i \in DOMAIN (s \o t)
  BY <1>1
<1>3. ASSUME NEW i \in 1..Len(t) PROVE (s \o t)[Len(s) + i] = t[i] /\ Len(s) + i \in DOMAIN (s \o t)
  BY <1>1
<1>4. ASSUME NEW i \in 1..Len(s \o t) PROVE (s \o t)[i] \in Image(s) \cup Image(t)
  <2>1. CASE i <= Len(s)
    BY <1>2, <2>1 DEF Image
  <2>2. CASE i > Len(s)
    <3>1. i - Len(s) \in 1..Len(t) /\ (s \o t)[i] = t[i - Len(s)]
      BY <1>1, <2>2
    <3> QED BY <3>1 DEF Image
  <2> QED BY <2>1, <2>2
<1>5. ASSUME NEW a \in Image(s) \cup Image(t) PROVE a \in Image(s \o t)
  <2>1. CASE a \in Image(s)
    <3>1. PICK i \in 1..Len(s) : a = s[i]
      BY <2>1 DEF Image
    <3> QED BY <1>2, <3>1 DEF Image
  <2>2. CASE a \in Image(t)
    <3>1. PICK i \in 1..Len(t) : a = t[i]
      BY <2>2 DEF Image
    <3> QED BY <1>3, <3>1 DEF Image
  <2> QED BY <2>1, <2>2
<1>6. ASSUME NEW a \in Image(s \o t) PROVE a \in Image(s) \cup Image(t)
  BY <1>1, <1>4 DEF Image
<1> QED BY <1>5, <1>6

LEMMA ImageOfThree ==
    ASSUME NEW S, NEW s \in Seq(S), NEW t \in Seq(S), NEW u \in Seq(S)
    PROVE  Image(s \o t \o u) = Image(s) \cup Image(t) \cup Image(u)
<1> DEFINE st == s \o t
<1>1. st \in Seq(S) /\ Image(st) = Image(s) \cup Image(t)
  BY Join, ImageOfTwo
<1> HIDE DEF st
<1>2. Image(st \o u) = Image(st) \cup Image(u)
  BY <1>1, ImageOfTwo
<1> QED BY <1>1, <1>2 DEF st

LEMMA ImageOfFour ==
    ASSUME NEW S, NEW s \in Seq(S), NEW t \in Seq(S), NEW u \in Seq(S), NEW v \in Seq(S)
    PROVE  Image(s \o t \o u \o v) = Image(s) \cup Image(t) \cup Image(u) \cup Image(v)
<1> DEFINE st == s \o t
<1>1. st \in Seq(S) /\ Image(st) = Image(s) \cup Image(t)
  BY Join, ImageOfTwo
<1> HIDE DEF st
<1>2. Image(st \o u \o v) = Image(st) \cup Image(u) \cup Image(v)
  BY <1>1, ImageOfThree
<1> QED BY <1>1, <1>2 DEF st

LEMMA ImageOfSingle ==
    ASSUME NEW f, NEW a, DOMAIN f = {1}, f[1] = a
    PROVE  Image(f) = {a}
<1>1. \A b : b \in Image(f) <=> b = a
  BY DEF Image
<1> QED BY <1>1

LEMMA ImageOfOne ==
    ASSUME NEW a
    PROVE  Image(<<a>>) = {a}
<1> DEFINE f == <<a>>
<1>1. DOMAIN f = {1} /\ f[1] = a
  OBVIOUS
<1> HIDE DEF f
<1>2. Image(f) = {a}
  BY <1>1, ImageOfSingle
<1> QED BY <1>2 DEF f

LEMMA ImageOfHead ==
    ASSUME NEW S, NEW a, NEW s \in Seq(S)
    PROVE  Image(<<a>> \o s) = {a} \cup Image(s)
<1> DEFINE T == S \cup {a}
           one == <<a>>
<1>1. one \in Seq(T) /\ s \in Seq(T)
  OBVIOUS
<1>2. Image(one) = {a}
  BY ImageOfOne
<1> HIDE DEF T, one
<1>3. Image(one \o s) = Image(one) \cup Image(s)
  BY <1>1, ImageOfTwo
<1> QED BY <1>2, <1>3 DEF one

\* The doors share their lookup, and check different things before it
LEMMA TwoHeads ==
    ASSUME NEW r, NEW E, NEW s \in Ordered(E), NEW P \in SUBSET Mistakes, NEW Q \in SUBSET Mistakes,
           \A m \in (P \ Q) \cup (Q \ P) : m \notin E \cup Strange \cup {"fine"},
           NEW x, Replying(x), Covers(x, E \cup P), NEW es,
           Sold[r] = Two(Http(<<Check(P)>> \o s, x), Tool(<<Check(Q)>> \o s, es))
    PROVE  Fits(r)
<1> DEFINE h == Http(<<Check(P)>> \o s, x)
           g == Tool(<<Check(Q)>> \o s, es)
<1>1. <<Check(P)>> \in Seq(Free(E \cup P)) /\ <<Check(Q)>> \in Seq(Free(E \cup Q))
  BY ACheckIsFree, SeqsOf
<1>2. s \in Ordered(E \cup P) /\ s \in Ordered(E \cup Q)
  BY MoreErrors
<1>3. <<Check(P)>> \o s \in Ordered(E \cup P) /\ <<Check(Q)>> \o s \in Ordered(E \cup Q)
  BY <1>1, <1>2, FreeThenOrdered
<1>4. WellFormed(h) /\ Logs(h) /\ InOrder(h) /\ Answers(h) /\ WellFormed(g) /\ Logs(g) /\ InOrder(g)
  BY <1>3, HttpFits, ToolFits
<1>5. Image(<<Check(P)>> \o s) = {Check(P)} \cup Image(s) /\ Image(<<Check(Q)>> \o s) = {Check(Q)} \cup Image(s)
  BY ImageOfHead, OrderedSteps
<1>6. \A t \in Image(s) : t.may \subseteq E \cup Strange
  <2>1. \A t \in Image(s) : t \in Sound(E)
    BY OrderedSteps DEF Image
  <2> QED BY <2>1 DEF Sound
<1>7. /\ Plain(Check(P)) /\ Check(P).may = P
      /\ Plain(Check(Q)) /\ Check(Q).may = Q
  BY DEF Check, Plain
<1>8. /\ h.steps = <<Check(P)>> \o s /\ h.late = {}
      /\ g.steps = <<Check(Q)>> \o s /\ g.late = {}
  BY DEF Http, Tool
<1> HIDE DEF h, g
<1>9. /\ Meets(h) \subseteq {"fine"} \cup P \cup E \cup Strange
      /\ Meets(g) \subseteq {"fine"} \cup Q \cup E \cup Strange
  <2>1. ASSUME NEW t \in Image(h.steps) PROVE t.may \subseteq P \cup E \cup Strange
    BY <1>5, <1>6, <1>7, <1>8
  <2>2. ASSUME NEW t \in Image(g.steps) PROVE t.may \subseteq Q \cup E \cup Strange
    BY <1>5, <1>6, <1>7, <1>8
  <2> QED BY <2>1, <2>2, <1>8 DEF Meets
<1>10. Follows(h, g)
  <2> SUFFICES ASSUME NEW t \in Image(h.steps), t \notin Image(g.steps)
               PROVE  Plain(t) /\ \A m \in t.may \cap Meets(g) : \E u \in Image(g.steps) : Plain(u) /\ m \in u.may
    BY DEF Follows
  <2>1. t = Check(P)
    BY <1>5, <1>8
  <2>2. \A m \in P \cap Meets(g) : m \in Q
    BY <1>9
  <2> QED BY <2>1, <2>2, <1>5, <1>7, <1>8
<1>11. Follows(g, h)
  <2> SUFFICES ASSUME NEW t \in Image(g.steps), t \notin Image(h.steps)
               PROVE  Plain(t) /\ \A m \in t.may \cap Meets(h) : \E u \in Image(h.steps) : Plain(u) /\ m \in u.may
    BY DEF Follows
  <2>1. t = Check(Q)
    BY <1>5, <1>8
  <2>2. \A m \in Q \cap Meets(h) : m \in P
    BY <1>9
  <2> QED BY <2>1, <2>2, <1>5, <1>7, <1>8
<1> QED BY <1>4, <1>8, <1>10, <1>11, TwoDoors DEF Agree, h, g

\* The HTTP door asks for a payer, the tool does not
LEMMA NamedFits ==
    ASSUME NEW r, NEW E, NEW s \in Ordered(E), NoPayer \notin E, NEW x, Replying(x), Covers(x, E \cup {NoPayer}),
           NEW es, Sold[r] = Two(Http(Named(s), x), Tool(s, es))
    PROVE  Fits(r)
<1> DEFINE P == {NoPayer}
           h == Http(Named(s), x)
           g == Tool(s, es)
<1>1. P \subseteq Mistakes /\ NoPayer \notin Strange /\ NoPayer # "fine"
  BY DEF Mistakes, Strange, NoPayer
<1>2. <<Check(P)>> \in Seq(Free(E \cup P))
  BY <1>1, ACheckIsFree, SeqsOf
<1>3. s \in Ordered(E \cup P)
  BY MoreErrors
<1>4. Named(s) \in Ordered(E \cup P)
  BY <1>2, <1>3, FreeThenOrdered DEF Named
<1>5. WellFormed(h) /\ Logs(h) /\ InOrder(h) /\ Answers(h) /\ WellFormed(g) /\ Logs(g) /\ InOrder(g)
  BY <1>4, HttpFits, ToolFits
<1>6. Image(Named(s)) = {Check(P)} \cup Image(s)
  <2>1. s \in Seq(Sound(E))
    BY OrderedSteps
  <2> HIDE DEF P
  <2>2. Image(<<Check(P)>> \o s) = {Check(P)} \cup Image(s)
    BY <2>1, ImageOfHead
  <2> QED BY <2>2 DEF Named, P
<1>7. Plain(Check(P)) /\ Check(P).may = P
  BY DEF Check, Plain
<1>8. h.steps = Named(s) /\ h.late = {} /\ g.steps = s /\ g.late = {}
  BY DEF Http, Tool
<1>9. \A t \in Image(s) : t.may \subseteq E \cup Strange
  <2>1. \A t \in Image(s) : t \in Sound(E)
    BY OrderedSteps DEF Image
  <2> QED BY <2>1 DEF Sound
<1> HIDE DEF h, g
<1>10. NoPayer \notin Meets(g)
  BY <1>1, <1>8, <1>9 DEF Meets
<1>11. Follows(h, g) /\ Follows(g, h)
  BY <1>6, <1>7, <1>8, <1>10 DEF Follows
<1> QED BY <1>5, <1>8, <1>11, TwoDoors DEF Agree, h, g

-----------------------------------------------------------------------------
(* The routes whose doors run one lookup.                                  *)

LEMMA WeatherFits == Fits("weather")
<1> DEFINE E == {"missing_location", "invalid_coordinates", "location_not_found", "HTTPError"}
           x == <<On(404, {"location_not_found"}), On(400, WeatherErrors), On(502, All)>>
<1>1. WeatherLookup \in Ordered(E)
  BY WeatherLookupOrdered
<1>2. Replying(x)
  BY DEF Replying, On, Codes
<1>3. Covers(x, E)
  BY DEF Covers, Catches, On, WeatherErrors
<1>4. Sold["weather"] = Two(WeatherHttp, WeatherMcp)
  BY DEF Sold, Written
<1> HIDE DEF E, x
<1> QED BY <1>1, <1>2, <1>3, <1>4, OneLookup DEF WeatherHttp, WeatherMcp, x

LEMMA CryptoFits == Fits("crypto")
<1> DEFINE E == {"missing_coins", "invalid_coins", "too_many_coins", "invalid_coin", "invalid_vs_currency",
                 "rate_limited", "coins_not_found", "HTTPError"}
           x == <<On(429, {"rate_limited"}), On(404, {"coins_not_found"}), On(400, CryptoErrors), On(502, All)>>
<1>1. CryptoLookup \in Ordered(E)
  BY CryptoLookupOrdered
<1>2. Replying(x)
  BY DEF Replying, On, Codes
<1>3. Covers(x, E)
  BY DEF Covers, Catches, On, CryptoErrors
<1>4. Sold["crypto"] = Two(CryptoHttp, CryptoMcp)
  BY DEF Sold, Written
<1> HIDE DEF E, x
<1> QED BY <1>1, <1>2, <1>3, <1>4, OneLookup DEF CryptoHttp, CryptoMcp, x

LEMMA NewsFits == Fits("news")
<1> DEFINE E == {"invalid_limit", "upstream_empty", "HTTPError"}
           x == <<On(502, {"upstream_empty"}), On(400, NewsErrors), On(502, All)>>
<1>1. NewsLookup \in Ordered(E)
  BY NewsLookupOrdered
<1>2. Replying(x)
  BY DEF Replying, On, Codes
<1>3. Covers(x, E)
  BY DEF Covers, Catches, On, NewsErrors
<1>4. Sold["news"] = Two(NewsHttp, NewsMcp)
  BY DEF Sold, Written
<1> HIDE DEF E, x
<1> QED BY <1>1, <1>2, <1>3, <1>4, OneLookup DEF NewsHttp, NewsMcp, x

LEMMA CanPayFits == Fits("can_pay")
<1> DEFINE E == {"invalid_address", "invalid_amount", "rpc_error", "HTTPError"}
           x == <<On(400, CanPayErrors), On(502, All)>>
<1>1. CanPayLookup \in Ordered(E)
  BY CanPayLookupOrdered
<1>2. Replying(x)
  BY DEF Replying, On, Codes
<1>3. Covers(x, E)
  BY DEF Covers, Catches, On, CanPayErrors
<1>4. Sold["can_pay"] = Two(CanPayHttp, CanPayMcp)
  BY DEF Sold, Written
<1> HIDE DEF E, x
<1> QED BY <1>1, <1>2, <1>3, <1>4, OneLookup DEF CanPayHttp, CanPayMcp, x

LEMMA ProbeFits == Fits("probe")
<1> DEFINE E == {"missing_url", "invalid_url", "blocked_host", "dns_failed", "invalid_method", "timeout"}
           x == <<On(400, ProbeErrors), On(502, All)>>
<1>1. ProbeLookup \in Ordered(E)
  BY ProbeLookupOrdered
<1>2. Replying(x)
  BY DEF Replying, On, Codes
<1>3. Covers(x, E)
  BY DEF Covers, Catches, On, ProbeErrors
<1>4. Sold["probe"] = Two(ProbeHttp, ProbeMcp)
  BY DEF Sold, Written
<1> HIDE DEF E, x
<1> QED BY <1>1, <1>2, <1>3, <1>4, OneLookup DEF ProbeHttp, ProbeMcp, x

LEMMA AgentHealthFits == Fits("agent_health")
<1> DEFINE E == {"missing_url", "invalid_url", "blocked_host", "dns_failed", "invalid_method", "timeout"}
           x == <<On(400, ProbeErrors), On(502, All)>>
<1>1. AgentHealthLookup \in Ordered(E)
  BY AgentHealthLookupOrdered
<1>2. Replying(x)
  BY DEF Replying, On, Codes
<1>3. Covers(x, E)
  BY DEF Covers, Catches, On, ProbeErrors
<1>4. Sold["agent_health"] = Two(AgentHealthHttp, AgentHealthMcp)
  BY DEF Sold, Written
<1> HIDE DEF E, x
<1> QED BY <1>1, <1>2, <1>3, <1>4, OneLookup DEF AgentHealthHttp, AgentHealthMcp, x

LEMMA GeneratedFits == Fits("generated")
<1> DEFINE E == {"HTTPError"}
           x == <<On(502, All)>>
<1>1. ProxyLookup \in Ordered(E)
  BY ProxyLookupOrdered
<1>2. Replying(x)
  BY DEF Replying, On, Codes
<1>3. Covers(x, E)
  BY DEF Covers, Catches, On
<1>4. Sold["generated"] = Two(ProxyHttp, GeneratedMcp)
  BY DEF Sold, Written
<1> HIDE DEF E, x
<1> QED BY <1>1, <1>2, <1>3, <1>4, OneLookup DEF ProxyHttp, GeneratedMcp, x

LEMMA GasPriceFits == Fits("gas_price")
<1> DEFINE E == {"unsupported_network", "rpc_unavailable"}
           x == <<On(400, {"unsupported_network"}), On(502, GasPriceErrors)>>
<1>1. GasPriceLookup \in Ordered(E)
  BY GasPriceLookupOrdered
<1>2. Replying(x)
  BY DEF Replying, On, Codes
<1>3. Covers(x, E)
  BY DEF Covers, Catches, On, GasPriceErrors
<1>4. Sold["gas_price"] = Two(GasPriceHttp, GasPriceMcp)
  BY DEF Sold, Written
<1> HIDE DEF E, x
<1> QED BY <1>1, <1>2, <1>3, <1>4, OneLookup DEF GasPriceHttp, GasPriceMcp, x

LEMMA WalletBalanceFits == Fits("wallet_balance")
<1> DEFINE E == {"invalid_address", "unsupported_network", "rpc_unavailable"}
           x == <<On(400, {"invalid_address", "unsupported_network"}), On(502, WalletBalanceErrors)>>
<1>1. WalletBalanceLookup \in Ordered(E)
  BY WalletBalanceLookupOrdered
<1>2. Replying(x)
  BY DEF Replying, On, Codes
<1>3. Covers(x, E)
  BY DEF Covers, Catches, On, WalletBalanceErrors, GasPriceErrors
<1>4. Sold["wallet_balance"] = Two(WalletBalanceHttp, WalletBalanceMcp)
  BY DEF Sold, Written
<1> HIDE DEF E, x
<1> QED BY <1>1, <1>2, <1>3, <1>4, OneLookup DEF WalletBalanceHttp, WalletBalanceMcp, x

LEMMA TokenRiskFits == Fits("token_risk")
<1> DEFINE E == {"invalid_address", "bytecode_unavailable", "not_a_contract"}
           x == <<On(400, {"invalid_address", "not_a_contract"}), On(504, {"bytecode_unavailable"}),
                  On(502, {"JevError"} \cup TokenRiskErrors)>>
<1>1. TokenRiskLookup \in Ordered(E)
  BY TokenRiskLookupOrdered
<1>2. Replying(x)
  BY DEF Replying, On, Codes
<1>3. Covers(x, E)
  BY DEF Covers, Catches, On, TokenRiskErrors
<1>4. Sold["token_risk"] = Two(TokenRiskHttp, TokenRiskMcp)
  BY DEF Sold, Written
<1> HIDE DEF E, x
<1> QED BY <1>1, <1>2, <1>3, <1>4, OneLookup DEF TokenRiskHttp, TokenRiskMcp, x

LEMMA DueDiligenceFits == Fits("due_diligence")
<1> DEFINE E == {"invalid_address"}
           x == <<On(400, {"invalid_address"})>>
<1>1. DueDiligenceLookup \in Ordered(E)
  BY DueDiligenceLookupOrdered
<1>2. Replying(x)
  BY DEF Replying, On, Codes
<1>3. Covers(x, E)
  BY DEF Covers, Catches, On
<1>4. Sold["due_diligence"] = Two(DueDiligenceHttp, DueDiligenceMcp)
  BY DEF Sold, Written
<1> HIDE DEF E, x
<1> QED BY <1>1, <1>2, <1>3, <1>4, OneLookup DEF DueDiligenceHttp, DueDiligenceMcp, x

LEMMA DecideFits == Fits("decide")
<1> DEFINE E == {"missing_state", "missing_questions", "too_many_questions", "invalid_question",
                 "state_too_large", "JevError"}
           x == <<On(400, DecideErrors), On(502, {"JevError"})>>
<1>1. DecideLookup \in Ordered(E)
  BY DecideLookupOrdered
<1>2. Replying(x)
  BY DEF Replying, On, Codes
<1>3. Covers(x, E)
  BY DEF Covers, Catches, On, DecideErrors
<1>4. Sold["decide"] = Two(DecideHttp, DecideMcp)
  BY DEF Sold, Written
<1> HIDE DEF E, x
<1> QED BY <1>1, <1>2, <1>3, <1>4, OneLookup DEF DecideHttp, DecideMcp, x

LEMMA RankFits == Fits("rank")
<1> DEFINE E == {"missing_query", "invalid_documents", "JevError"}
           x == <<On(400, RankErrors), On(502, {"JevError"})>>
<1>1. RankLookup \in Ordered(E)
  BY RankLookupOrdered
<1>2. Replying(x)
  BY DEF Replying, On, Codes
<1>3. Covers(x, E)
  BY DEF Covers, Catches, On, RankErrors
<1>4. Sold["rank"] = Two(RankHttp, RankMcp)
  BY DEF Sold, Written
<1> HIDE DEF E, x
<1> QED BY <1>1, <1>2, <1>3, <1>4, OneLookup DEF RankHttp, RankMcp, x

LEMMA SummarizeFits == Fits("summarize")
<1> DEFINE E == {"provide_exactly_one", "fetch_failed", "no_extractable_content", "upstream_error"}
           x == <<On(400, {"provide_exactly_one", "no_extractable_content"}), On(502, SummarizeErrors)>>
<1>1. SummarizeSteps \in Ordered(E)
  BY SummarizeStepsOrdered
<1>2. Replying(x)
  BY DEF Replying, On, Codes
<1>3. Covers(x, E)
  BY DEF Covers, Catches, On, SummarizeErrors
<1>4. Sold["summarize"] = Two(SummarizeHttp, SummarizeMcp)
  BY DEF Sold, Written
<1> HIDE DEF E, x
<1> QED BY <1>1, <1>2, <1>3, <1>4, OneLookup DEF SummarizeHttp, SummarizeMcp, x

LEMMA WebReadFits == Fits("web_read")
<1> DEFINE E == {"missing_url", "FetchError", "no_extractable_content"}
           x == <<On(400, {"missing_url", "no_extractable_content"}), On(502, {"FetchError"})>>
<1>1. ReadUrl \in Ordered(E)
  BY ReadUrlOrdered
<1>2. Replying(x)
  BY DEF Replying, On, Codes
<1>3. Covers(x, E)
  BY DEF Covers, Catches, On
<1>4. Sold["web_read"] = Two(WebReadHttp, ReadWebPageMcp)
  BY DEF Sold, Written
<1> HIDE DEF E, x
<1> QED BY <1>1, <1>2, <1>3, <1>4, OneLookup DEF WebReadHttp, ReadWebPageMcp, x

LEMMA ResearchFits == Fits("research")
<1> DEFINE E == {"missing_query", "no_results"}
           x == <<On(400, {"missing_query"}), On(422, {"no_results"})>>
<1>1. ResearchSteps \in Ordered(E)
  BY ResearchStepsOrdered
<1>2. Replying(x)
  BY DEF Replying, On, Codes
<1>3. Covers(x, E)
  BY DEF Covers, Catches, On
<1>4. Sold["research"] = Two(ResearchHttp, ResearchMcp)
  BY DEF Sold, Written
<1> HIDE DEF E, x
<1> QED BY <1>1, <1>2, <1>3, <1>4, OneLookup DEF ResearchHttp, ResearchMcp, x

LEMMA PdfParseFits == Fits("pdf_parse")
<1> DEFINE E == {"both_url_and_base64_provided", "missing_url_or_base64", "invalid_base64", "FetchError",
                 "invalid_pdf", "encrypted_pdf", "no_extractable_text"}
           x == <<On(400, PdfCaller), On(502, {"FetchError"})>>
<1>1. PdfBytes \o ParsePdf \in Ordered(E)
  BY PdfBytesOrdered, ParsePdfHarmless, OrderedThenHarmless
<1>2. Replying(x)
  BY DEF Replying, On, Codes
<1>3. Covers(x, E)
  BY DEF Covers, Catches, On, PdfCaller
<1>4. Sold["pdf_parse"] = Two(PdfHttp, ReadPdfMcp)
  BY DEF Sold, Written
<1> HIDE DEF E, x
<1> QED BY <1>1, <1>2, <1>3, <1>4, OneLookup DEF PdfHttp, ReadPdfMcp, x

LEMMA TranslateBatchFits == Fits("translate_batch")
<1> DEFINE E == {"invalid_batch_text", "OpenRouterError"}
           x == <<On(400, {"invalid_batch_text"}), On(502, {"OpenRouterError"})>>
<1>1. <<Check({"invalid_batch_text"})>> \o TranslateBatch \in Ordered(E)
  <2>1. <<Check({"invalid_batch_text"})>> \in Ordered(E)
    BY HeadOrdered DEF Mistakes
  <2>2. TranslateBatch \in Seq(Harmless(E))
    BY TranslateBatchHarmless
  <2> QED BY <2>1, <2>2, OrderedThenHarmless
<1>2. Replying(x)
  BY DEF Replying, On, Codes
<1>3. Covers(x, E)
  BY DEF Covers, Catches, On
<1>4. Sold["translate_batch"] = Two(TranslateBatchHttp, TranslateBatchMcp)
  BY DEF Sold, Written
<1> HIDE DEF E, x
<1> QED BY <1>1, <1>2, <1>3, <1>4, OneLookup DEF TranslateBatchHttp, TranslateBatchMcp, x

LEMMA JobsFits == Fits("jobs")
<1> DEFINE E == {"missing_subject"}
           x == <<On(400, {"missing_subject"})>>
<1>1. <<Check({"missing_subject"})>> \in Ordered(E)
  BY HeadOrdered DEF Mistakes
<1>2. Replying(x)
  BY DEF Replying, On, Codes
<1>3. Covers(x, E)
  BY DEF Covers, Catches, On
<1>4. Sold["jobs"] = Two(CreateJobHttp, RunJobs)
  BY DEF Sold, Written
<1> HIDE DEF E, x
<1> QED BY <1>1, <1>2, <1>3, <1>4, OneLookup DEF CreateJobHttp, RunJobs, x

LEMMA CompanyLeadsFits == Fits("company_leads")
<1> DEFINE E == LeadsQuery
           x == <<On(400, LeadsQuery)>>
<1>1. <<Check(LeadsQuery)>> \in Ordered(E)
  BY HeadOrdered DEF Mistakes, LeadsQuery
<1>2. Replying(x)
  BY DEF Replying, On, Codes
<1>3. Covers(x, E)
  BY DEF Covers, Catches, On
<1>4. Sold["company_leads"] = Two(CompanyLeadsHttp, RunCompanyLeads)
  BY DEF Sold, Written
<1> HIDE DEF E, x
<1> QED BY <1>1, <1>2, <1>3, <1>4, OneLookup DEF CompanyLeadsHttp, RunCompanyLeads, x

LEMMA X402EchoFits == Fits("x402_echo")
<1> DEFINE E == {}
           x == <<>>
<1>1. <<>> \in Ordered(E)
  BY SeqsOf, HarmlessIsOrdered
<1>2. Replying(x)
  BY DEF Replying, On, Codes
<1>3. Covers(x, E)
  BY DEF Covers, Catches, On
<1>4. Sold["x402_echo"] = Two(X402EchoHttp, X402EchoMcp)
  BY DEF Sold, Written
<1> HIDE DEF E, x
<1> QED BY <1>1, <1>2, <1>3, <1>4, OneLookup DEF X402EchoHttp, X402EchoMcp, x

\* The classifiers: one lookup for each list of input errors
LEMMA ClassifierFits ==
    ASSUME NEW r, NEW inputs \in SUBSET Mistakes, Sold[r] = Classifier(inputs)
    PROVE  Fits(r)
<1> DEFINE E == ClassifyErrors(inputs)
           x == <<On(422, E)>>
           s == <<Check(inputs)>> \o Classify
<1>1. inputs \subseteq E /\ {"engine_unavailable"} \subseteq E
  BY DEF ClassifyErrors
<1>2. Replying(x)
  BY DEF Replying, On, Codes
<1>3. Covers(x, E)
  BY DEF Covers, Catches, On
<1>4. Sold[r] = Two(Http(s, x), Tool(s, E))
  BY DEF Classifier, Two, RespondHttp, ClassifyRunner
<1> HIDE DEF E, x
<1>5. <<Check(inputs)>> \in Ordered(E) /\ Classify \in Seq(Harmless(E))
  BY <1>1, HeadOrdered, ClassifyHarmless
<1>6. s \in Ordered(E)
  BY <1>5, OrderedThenHarmless
<1> HIDE DEF s
<1> QED BY <1>2, <1>3, <1>4, <1>6, OneLookup

LEMMA ClassifiersFit == \A r \in DOMAIN Classifiers : Fits(r)
<1>1. ASSUME NEW r \in DOMAIN Classifiers PROVE Sold[r] = Classifiers[r]
  BY DEF Sold, Written, Classifiers
<1>2. \A r \in DOMAIN Classifiers : \E inputs \in SUBSET Mistakes : Classifiers[r] = Classifier(inputs)
  <2>1. DOMAIN Classifiers = {"sentiment", "classify", "intent", "spam_check", "toxicity", "language", "pii_check"}
    BY DEF Classifiers
  <2>2. {"empty_text"} \in SUBSET Mistakes /\ {"empty_text", "invalid_labels", "duplicate_labels"} \in SUBSET Mistakes
    BY DEF Mistakes
  <2>3. /\ Classifiers["classify"] = Classifier({"empty_text", "invalid_labels", "duplicate_labels"})
        /\ \A r \in DOMAIN Classifiers \ {"classify"} : Classifiers[r] = Classifier({"empty_text"})
    BY <2>1 DEF Classifiers, Sentiment, ClassifyText, Intent, SpamCheck, Toxicity, Language, PiiCheck
  <2> QED BY <2>2, <2>3
<1> QED BY <1>1, <1>2, ClassifierFits

-----------------------------------------------------------------------------
(* The routes whose doors differ.                                          *)

LEMMA TranslateFits == Fits("translate")
<1> DEFINE E == {"OpenRouterError"}
           P == {"missing_fields", "invalid_text_type"}
           Q == {"missing_fields"}
           x == <<On(400, {"missing_fields", "invalid_text_type"}), On(502, {"OpenRouterError"})>>
<1>1. TranslateOne \in Ordered(E)
  BY TranslateOneHarmless, HarmlessIsOrdered
<1>2. Replying(x)
  BY DEF Replying, On, Codes
<1>3. Covers(x, E \cup P)
  BY DEF Covers, Catches, On
<1>4. Sold["translate"] = Two(TranslateHttp, TranslateMcp)
  BY DEF Sold, Written
<1>5. P \in SUBSET Mistakes /\ Q \in SUBSET Mistakes
  BY DEF Mistakes
<1>6. \A m \in (P \ Q) \cup (Q \ P) : m \notin E \cup Strange \cup {"fine"}
  BY DEF Strange
<1>7. Sold["translate"] =
         Two(Http(<<Check(P)>> \o TranslateOne, x), Tool(<<Check(Q)>> \o TranslateOne, {"missing_fields", "OpenRouterError"}))
  BY <1>4 DEF TranslateHttp, TranslateMcp
<1> HIDE DEF E, P, Q, x
<1> QED BY <1>1, <1>2, <1>3, <1>5, <1>6, <1>7, TwoHeads

LEMMA DiscoverFits == Fits("discover")
<1> DEFINE E == {"OllamaError"}
           P == {"invalid_json", "missing_q"}
           Q == {"missing_q"}
           x == <<On(400, {"invalid_json", "missing_q"}), On(502, {"OllamaError"})>>
<1>1. DiscoverLookup \in Ordered(E)
  BY DiscoverLookupHarmless, HarmlessIsOrdered
<1>2. Replying(x)
  BY DEF Replying, On, Codes
<1>3. Covers(x, E \cup P)
  BY DEF Covers, Catches, On
<1>4. Sold["discover"] = Two(DiscoverPaidHttp, DiscoverMcp)
  BY DEF Sold, Written
<1>5. P \in SUBSET Mistakes /\ Q \in SUBSET Mistakes
  BY DEF Mistakes
<1>6. \A m \in (P \ Q) \cup (Q \ P) : m \notin E \cup Strange \cup {"fine"}
  BY DEF Strange
<1>7. Sold["discover"] =
         Two(Http(<<Check(P)>> \o DiscoverLookup, x), Tool(<<Check(Q)>> \o DiscoverLookup, {"missing_q", "OllamaError"}))
  BY <1>4 DEF DiscoverPaidHttp, DiscoverMcp
<1> HIDE DEF E, P, Q, x
<1> QED BY <1>1, <1>2, <1>3, <1>5, <1>6, <1>7, TwoHeads

\* The three tools that do not keep up with their handlers
LEMMA SearchFits == Fits("search")
<1> DEFINE E == {"missing_query", "invalid_query_type", "no_results", "OpenRouterError"}
           a == <<Check({"missing_query", "invalid_query_type"})>>
           b == <<Check({"missing_query"})>>
           c == <<Lean(Summary)>>
           l == <<Llm(Summary, "OpenRouterError", {})>>
           x == <<On(400, {"missing_query", "invalid_query_type"}), On(422, {"no_results"})>>
           F == {"missing_query", "invalid_query_type", "no_results"}
<1>1. a \in Ordered(F) /\ b \in Ordered(E)
  BY HeadOrdered DEF Mistakes
<1>2. /\ WebSearch("no_results") \in Seq(Harmless(E))
      /\ WebSearch("no_results") \in Seq(Harmless(F))
  BY WebSearchHarmless DEF Mistakes
<1>3. Enrich \in Seq(Harmless(E)) /\ Enrich \in Seq(Harmless(F))
  BY EnrichHarmless
<1>4. "openrouter" \in Upstreams /\ "lastresort" \in Upstreams
  BY DEF Upstreams
<1>5. c \in Seq(Harmless(F))
  BY <1>4, ALeanOfTwoIsHarmless, SeqsOf DEF Summary
<1>6. l \in Seq(Harmless(E))
  BY <1>4, AModelOfTwoIsHarmless, SeqsOf DEF Summary
<1>7. Replying(x)
  BY DEF Replying, On, Codes
<1>8. Covers(x, F)
  BY DEF Covers, Catches, On
<1>9. Sold["search"] = Two(SearchHttp, SearchMcp)
  BY DEF Sold, Written
<1> HIDE DEF E, F, a, b, c, l, x
<1>10. a \o WebSearch("no_results") \o Enrich \o c \in Ordered(F)
  BY <1>1, <1>2, <1>3, <1>5, OrderedThenHarmless
<1>11. b \o WebSearch("no_results") \o Enrich \o l \in Ordered(E)
  BY <1>1, <1>2, <1>3, <1>6, OrderedThenHarmless
<1>12. WellFormed(SearchHttp) /\ Logs(SearchHttp) /\ InOrder(SearchHttp) /\ Answers(SearchHttp)
  BY <1>7, <1>8, <1>10, HttpFits DEF SearchHttp, a, c, x
<1>13. WellFormed(SearchMcp) /\ Logs(SearchMcp) /\ InOrder(SearchMcp)
  BY <1>11, ToolFits DEF SearchMcp, b, l
<1> QED BY <1>9, <1>12, <1>13, TwoDoors DEF Outdated

LEMMA SearchBatchFits == Fits("search_batch")
<1> DEFINE E == {"invalid_batch_query", "no_results"}
           a == <<Check({"invalid_batch_query"})>>
           c == <<Lean(Summary)>>
           x == <<On(400, {"invalid_batch_query"}), On(422, {"no_results"})>>
           es == {"invalid_batch_query", "OpenRouterError"}
<1>1. a \in Ordered(E)
  BY HeadOrdered DEF Mistakes
<1>2. WebSearches("no_results") \in Seq(Harmless(E)) /\ Enrich \in Seq(Harmless(E))
  BY WebSearchesHarmless, EnrichHarmless DEF Mistakes
<1>3. "openrouter" \in Upstreams /\ "lastresort" \in Upstreams
  BY DEF Upstreams
<1>4. c \in Seq(Harmless(E))
  BY <1>3, ALeanOfTwoIsHarmless, SeqsOf DEF Summary
<1>5. Replying(x)
  BY DEF Replying, On, Codes
<1>6. Covers(x, E)
  BY DEF Covers, Catches, On
<1>7. Sold["search_batch"] = Two(SearchBatchHttp, SearchBatchMcp)
  BY DEF Sold, Written
<1>8. "TypeError" \notin es /\ es # All
  BY DEF All
<1> HIDE DEF E, a, c, x
<1>9. a \o WebSearches("no_results") \o Enrich \o c \in Ordered(E)
  BY <1>1, <1>2, <1>4, OrderedThenHarmless
<1>10. WellFormed(SearchBatchHttp) /\ Logs(SearchBatchHttp) /\ InOrder(SearchBatchHttp) /\ Answers(SearchBatchHttp)
  BY <1>5, <1>6, <1>9, HttpFits DEF SearchBatchHttp, a, c, x
<1>11. WellFormed(SearchBatchMcp) /\ Logs(SearchBatchMcp) /\ InOrder(SearchBatchMcp)
  BY <1>1, <1>8, RaisesLast DEF SearchBatchMcp, a
<1> QED BY <1>7, <1>10, <1>11, TwoDoors DEF Outdated

LEMMA FactCheckFits == Fits("fact_check")
<1> DEFINE E == {"missing_claim", "upstream_error", "no_sources_found", "verification_failed", "TimeoutError"}
           a == <<Check({"missing_claim"})>>
           f == <<Finds({"TimeoutError"})>>
           x == <<On(400, {"missing_claim", "no_sources_found"}), On(504, {"TimeoutError"}), On(502, FactCheckErrors)>>
           es == {"missing_claim"} \cup FactCheckErrors
<1>1. a \in Ordered(E)
  BY HeadOrdered DEF Mistakes
<1>2. CheckClaim \in Seq(Harmless(E))
  BY CheckClaimHarmless
<1>3. f \in Seq(Harmless(E))
  BY AFindIsHarmless, SeqsOf DEF Mistakes
<1>4. Replying(x)
  BY DEF Replying, On, Codes
<1>5. Covers(x, E)
  BY DEF Covers, Catches, On, FactCheckErrors
<1>6. Sold["fact_check"] = Two(FactCheckHttp, FactCheckMcp)
  BY DEF Sold, Written
<1>7. "ValueError" \notin es /\ es # All
  BY DEF FactCheckErrors, All
<1> HIDE DEF E, a, f, x
<1>8. a \o CheckClaim \in Ordered(E) /\ a \o CheckClaim \o f \in Ordered(E)
  BY <1>1, <1>2, <1>3, OrderedThenHarmless
<1>9. WellFormed(FactCheckHttp) /\ Logs(FactCheckHttp) /\ InOrder(FactCheckHttp) /\ Answers(FactCheckHttp)
  BY <1>4, <1>5, <1>8, HttpFits DEF FactCheckHttp, a, f, x
<1>10. WellFormed(FactCheckMcp) /\ Logs(FactCheckMcp) /\ InOrder(FactCheckMcp)
  BY <1>7, <1>8, RaisesLast DEF FactCheckMcp, a
<1> QED BY <1>6, <1>9, <1>10, TwoDoors DEF Outdated

\* The two lookups that are not in order
LEMMA ExtractFits == Fits("extract")
<1> DEFINE upstream == {"fetch_failed", "upstream_error", "extraction_failed"}
           E == ExtractCaller \cup upstream
           x == <<On(400, ExtractCaller), On(502, upstream)>>
<1>1. Check({"missing_schema"}) \in Sound(E) /\ Check({"invalid_schema"}) \in Sound(E)
  BY ACheckIsFree DEF Free, Mistakes, ExtractCaller
<1>2. Check({"both_url_and_text_provided", "missing_url_or_text"}) \in Sound(E)
  BY ACheckIsFree DEF Free, Mistakes, ExtractCaller
<1>3. Ask(<<"web">>, "fetch_failed", {"no_extractable_content"}) \in Sound(E)
  <2>1. "web" \in Upstreams /\ "fetch_failed" \in E
    BY DEF Upstreams
  <2>2. {"no_extractable_content"} \subseteq E /\ {"no_extractable_content"} \cap Mistakes = {}
    BY DEF Mistakes, ExtractCaller
  <2> HIDE DEF E
  <2> QED BY <2>1, <2>2, AnAskIsHarmless DEF Harmless
<1>4. Llm(<<"openrouter", "lastresort">>, "upstream_error", {"extraction_failed"}) \in Sound(E)
  <2>1. "openrouter" \in Upstreams /\ "lastresort" \in Upstreams
    BY DEF Upstreams
  <2>2. {"extraction_failed"} \subseteq E /\ "upstream_error" \in E /\ {"extraction_failed"} \cap Mistakes = {}
    BY DEF Mistakes
  <2> HIDE DEF E
  <2> QED BY <2>1, <2>2, AModelOfTwoIsHarmless DEF Harmless
<1>5. Replying(x)
  BY DEF Replying, On, Codes
<1>6. Covers(x, E)
  BY DEF Covers, Catches, On
<1>7. Sold["extract"] = Two(ExtractHttp, ExtractMcp)
  BY DEF Sold, Written
<1>8. ExtractHttp = Http(ExtractSteps, x) /\ ExtractMcp = Tool(ExtractSteps, E)
  BY DEF ExtractHttp, ExtractMcp
<1> HIDE DEF E, x
<1>9. /\ <<Check({"missing_schema"})>> \in Seq(Sound(E))
      /\ ExtractContent \in Seq(Sound(E))
      /\ RunExtract \in Seq(Sound(E))
  BY <1>1, <1>2, <1>3, <1>4, SeqsOf DEF ExtractContent, RunExtract
<1>10. ExtractSteps \in Seq(Sound(E))
  BY <1>9, Join DEF ExtractSteps
<1> QED BY <1>5, <1>6, <1>7, <1>8, <1>10, Unordered

LEMMA WalletIntelligenceFits == Fits("wallet_intelligence")
<1> DEFINE E == WalletIntelligenceErrors
           x == <<On(400, WalletIntelligenceErrors \ {"rpc_unavailable"}), On(502, WalletIntelligenceErrors)>>
<1>1. Check({"invalid_networks", "unsupported_network", "invalid_amount"}) \in Sound(E)
  BY ACheckIsFree DEF Free, Mistakes, WalletIntelligenceErrors
<1>2. "rpc" \in Upstreams /\ "rpc2" \in Upstreams /\ "rpc_unavailable" \in E /\ {"invalid_address"} \subseteq E
  BY DEF Upstreams, WalletIntelligenceErrors
<1>3. Replying(x)
  BY DEF Replying, On, Codes
<1>4. Covers(x, E)
  BY DEF Covers, Catches, On
<1>5. Sold["wallet_intelligence"] = Two(WalletIntelligenceHttp, WalletIntelligenceMcp)
  BY DEF Sold, Written
<1>6. /\ WalletIntelligenceHttp = Http(WalletIntelligenceLookup, x)
      /\ WalletIntelligenceMcp = Tool(WalletIntelligenceLookup, E)
  BY DEF WalletIntelligenceHttp, WalletIntelligenceMcp
<1> HIDE DEF E, x
<1>7. Try(<<"rpc", "rpc2">>) \in Sound(E) /\ Finds({"invalid_address"}) \in Sound(E)
  BY <1>2, ATryOfTwoIsHarmless, AFindIsFree DEF Harmless, Free
<1>8. Ask(<<"rpc", "rpc2">>, "rpc_unavailable", {}) \in Sound(E)
  BY <1>2, AnAskOfTwoIsHarmless DEF Harmless
<1>9. WalletIntelligenceLookup \in Seq(Sound(E))
  BY <1>1, <1>7, <1>8, SeqsOf DEF WalletIntelligenceLookup
<1> QED BY <1>3, <1>4, <1>5, <1>6, <1>9, Unordered

\* What is found after the row was written
LEMMA GuardFits == Fits("guard")
<1> DEFINE E == GuardErrors \cup {"JevError"}
           x == <<On(400, GuardErrors), On(502, {"JevError"})>>
           late == {"unlisted_choice"}
<1>1. GuardLookup \in Ordered(E)
  BY GuardLookupOrdered DEF GuardErrors
<1>2. Replying(x)
  BY DEF Replying, On, Codes
<1>3. Covers(x, E)
  BY DEF Covers, Catches, On
<1>4. Sold["guard"] = Two(GuardHttp, GuardMcp)
  BY DEF Sold, Written
<1>5. late \in SUBSET {"unlisted_choice"}
  OBVIOUS
<1> HIDE DEF E, x, late
<1>6. Sold["guard"] = Two(Late(Http(GuardLookup, x), late), Late(Tool(GuardLookup, E), late))
  BY <1>4 DEF GuardHttp, GuardMcp, E, x, late
<1> QED BY <1>1, <1>2, <1>3, <1>5, <1>6, BothLate

LEMMA VerifyFits == Fits("verify")
<1> DEFINE E == VerifyErrors \cup {"JevError"}
           x == <<On(400, VerifyErrors), On(502, {"JevError"})>>
           late == {"unlisted_choice"}
<1>1. VerifyLookup \in Ordered(E)
  BY VerifyLookupOrdered DEF VerifyErrors
<1>2. Replying(x)
  BY DEF Replying, On, Codes
<1>3. Covers(x, E)
  BY DEF Covers, Catches, On
<1>4. Sold["verify"] = Two(VerifyHttp, VerifyMcp)
  BY DEF Sold, Written
<1>5. late \in SUBSET {"unlisted_choice"}
  OBVIOUS
<1> HIDE DEF E, x, late
<1>6. Sold["verify"] = Two(Late(Http(VerifyLookup, x), late), Late(Tool(VerifyLookup, E), late))
  BY <1>4 DEF VerifyHttp, VerifyMcp, E, x, late
<1> QED BY <1>1, <1>2, <1>3, <1>5, <1>6, BothLate

\* The two routes that have no tool
LEMMA TokenCardFits == Fits("token_card")
<1> DEFINE E == {"invalid_address", "bytecode_unavailable", "not_a_contract", "TimeoutError"}
           x == <<On(504, {"TimeoutError", "bytecode_unavailable"}), On(400, {"invalid_address", "not_a_contract"}),
                  On(502, TokenRiskErrors)>>
<1>1. ComputeCard \in Ordered(E)
  BY ComputeCardOrdered
<1>2. Replying(x)
  BY DEF Replying, On, Codes
<1>3. Covers(x, E)
  BY DEF Covers, Catches, On
<1>4. Sold["token_card"] = [http |-> TokenCardHttp]
  BY DEF Sold, Written
<1> HIDE DEF E, x
<1>5. LET h == TokenCardHttp IN WellFormed(h) /\ Logs(h) /\ InOrder(h) /\ Answers(h)
  BY <1>1, <1>2, <1>3, HttpFits DEF TokenCardHttp, x
<1> QED BY <1>4, <1>5, OneDoor

LEMMA AgentClaimFits == Fits("agent_claim")
<1> DEFINE P == {"url_required"}
           probed == {"missing_url", "invalid_url", "blocked_host", "dns_failed", "invalid_method", "timeout"}
           E == P \cup probed
           h == AgentClaimHttp
<1>1. <<Check(P)>> \in Seq(Free(E))
  BY ACheckIsFree, SeqsOf DEF Mistakes
<1>2. AgentHealthLookup \in Ordered(E)
  BY AgentHealthLookupOrdered
<1>3. <<Check(P)>> \o AgentHealthLookup \in Ordered(E)
  BY <1>1, <1>2, FreeThenOrdered
<1>4. Sold["agent_claim"] = [http |-> h]
  BY DEF Sold, Written
<1>5. /\ h.steps = <<Check(P)>> \o AgentHealthLookup
      /\ h.except = <<Unlogged(400, {"url_required"}), Unlogged(422, All)>>
      /\ h.late = {}
  BY DEF Http, AgentClaimHttp
<1>6. \A k \in DOMAIN h.except : h.except[k].code \in Codes /\ h.except[k].row \in {"error", "payment_failed", "none"}
  BY <1>5 DEF Unlogged, Codes
<1>7. Covers(h.except, E)
  BY <1>5 DEF Covers, Catches, Unlogged
<1> HIDE DEF E, P, h
<1>8. h.steps \in Seq(Sound(E)) /\ InOrder(h)
  <2>1. h.steps \in Ordered(E)
    BY <1>3, <1>5
  <2> QED BY <2>1, OrderedSteps DEF InOrder
<1>9. h.steps \in Seq(Sound(E) \cup Fatal(h.except))
  BY <1>8
<1>10. WellFormed(h) /\ Answers(h)
  BY <1>5, <1>6, <1>7, <1>8, <1>9 DEF WellFormed, Answers
<1> QED BY <1>4, <1>8, <1>10, OneDoor

\* The models: the HTTP door looks at the body, the tool at its arguments only
\* after the price list
LEMMA ChatCompletionsFits == Fits("chat_completions")
<1> DEFINE E == GatewayBody \cup GatewayErrors \cup {"TimeoutError", "OpenRouterError"}
           x == <<On(400, GatewayBody \cup GatewayErrors), On(504, {"TimeoutError"}), On(502, {"OpenRouterError"})>>
           es == GatewayErrors \cup {"TimeoutError", "OpenRouterError"}
           a == <<Check(GatewayBody)>>
           f == <<Finds(GatewayErrors)>>
           h == GatewayHttp
           g == AskModelMcp
<1>1. a \in Seq(Free(E))
  BY ACheckIsFree, SeqsOf DEF GatewayBody, Mistakes
<1>2. f \in Seq(Free(E)) /\ f \in Seq(Sound(E))
  BY AFindIsFree, SeqsOf, PartsAreSound
<1>3. PriceList \in Seq(Free(E)) /\ PriceList \in Seq(Sound(E))
  BY ThePriceListIsBoth, PartsAreSound
<1>4. Completion \in Seq(Harmless(E)) /\ Completion \in Seq(Sound(E))
  BY CompletionHarmless, PartsAreSound
<1>5. Sold["chat_completions"] = Two(h, g)
  BY DEF Sold, Written
<1>6. /\ h.steps = a \o PriceList \o f \o Completion /\ h.except = x /\ h.late = {}
      /\ g.steps = PriceList \o f \o Completion /\ g.except = <<On(200, es)>> /\ g.late = {}
  BY DEF Http, Tool, GatewayHttp, AskModelMcp, SettlesFirst
<1>7. Replying(x) /\ Replying(<<On(200, es)>>)
  BY OneClause DEF Replying, On, Codes
<1>8. Covers(x, E)
  BY DEF Covers, Catches, On
<1>9. Plain(Check(GatewayBody)) /\ Check(GatewayBody).may = GatewayBody
  BY DEF Check, Plain
<1>10. \A t \in Image(PriceList) \cup Image(f) \cup Image(Completion) : t.may \cap GatewayBody = {}
  <2>1. \A t \in Image(PriceList) : t.may = {}
    BY ImageOfOne DEF PriceList, Ask
  <2>2. \A t \in Image(f) : t.may = GatewayErrors
    BY ImageOfOne DEF Finds
  <2>3. \A t \in Image(Completion) : t.may = {"TimeoutError", "foreign"}
    BY ImageOfOne DEF Completion, Llm, Ask
  <2> QED BY <2>1, <2>2, <2>3 DEF GatewayBody, GatewayErrors
<1>11. Image(a) = {Check(GatewayBody)}
  BY ImageOfOne
<1> HIDE DEF E, x, a, f, h, g
<1>12. PriceList \o f \in Seq(Free(E)) /\ a \o PriceList \in Seq(Free(E)) /\ a \o PriceList \o f \in Seq(Free(E))
  BY <1>1, <1>2, <1>3, Join
<1>13. h.steps \in Ordered(E) /\ g.steps \in Ordered(E)
  <2>1. a \o PriceList \o f \in Ordered(E) /\ PriceList \o f \in Ordered(E)
    BY <1>12, FreeIsOrdered
  <2> QED BY <1>4, <1>6, <2>1, OrderedThenHarmless
<1>14. WellFormed(h) /\ Logs(h) /\ Answers(h) /\ WellFormed(g) /\ Logs(g)
  <2>1. h.steps \in Seq(Sound(E)) /\ g.steps \in Seq(Sound(E))
    BY <1>13, OrderedSteps
  <2> QED BY <1>6, <1>7, <1>8, <2>1, Shape
<1>15. InOrder(h) /\ InOrder(g)
  BY <1>13, OrderedSteps DEF InOrder
<1>16. Image(g.steps) = Image(PriceList) \cup Image(f) \cup Image(Completion)
  BY <1>2, <1>3, <1>4, <1>6, ImageOfThree
<1>17. Image(h.steps) = Image(a) \cup Image(g.steps)
  <2>1. a \in Seq(Sound(E))
    BY <1>1, PartsAreSound
  <2>2. Image(h.steps) = Image(a) \cup Image(PriceList) \cup Image(f) \cup Image(Completion)
    BY <1>2, <1>3, <1>4, <1>6, <2>1, ImageOfFour
  <2> QED BY <1>16, <2>2
<1>18. Check(GatewayBody).may \cap Meets(g) = {}
  BY <1>6, <1>9, <1>10, <1>16 DEF Meets, GatewayBody
<1>19. Follows(h, g) /\ Follows(g, h)
  BY <1>9, <1>11, <1>17, <1>18 DEF Follows
<1> QED BY <1>5, <1>6, <1>14, <1>15, <1>19, TwoDoors DEF Agree

LEMMA PinnedModelFits == Fits("pinned_model")
<1> DEFINE B == GatewayBody \cup {"invalid_request"}
           I == {"invalid_request"}
           E == B \cup {"TimeoutError", "OpenRouterError"}
           x == <<On(400, B), On(504, {"TimeoutError"}), On(502, {"OpenRouterError"})>>
           es == {"invalid_request", "TimeoutError", "OpenRouterError"}
           a == <<Check(B)>>
           f == <<Finds(I)>>
           h == PinnedHttp
           g == PinnedMcp
<1>1. a \in Seq(Free(E)) /\ a \in Seq(Sound(E))
  <2>1. B \subseteq Mistakes /\ B \subseteq E
    BY DEF GatewayBody, Mistakes
  <2> HIDE DEF B, E
  <2> QED BY <2>1, ACheckIsFree, SeqsOf, PartsAreSound
<1>2. f \in Seq(Free(E)) /\ f \in Seq(Sound(E))
  BY AFindIsFree, SeqsOf, PartsAreSound
<1>3. PriceList \in Seq(Free(E)) /\ PriceList \in Seq(Sound(E))
  BY ThePriceListIsBoth, PartsAreSound
<1>4. Completion \in Seq(Harmless(E)) /\ Completion \in Seq(Sound(E))
  BY CompletionHarmless, PartsAreSound
<1>5. Sold["pinned_model"] = Two(h, g)
  BY DEF Sold, Written
<1>6. /\ h.steps = a \o PriceList \o Completion /\ h.except = x /\ h.late = {}
      /\ g.steps = PriceList \o f \o Completion /\ g.except = <<On(200, es)>> /\ g.late = {}
  BY DEF Http, Tool, PinnedHttp, PinnedMcp, SettlesFirst
<1>7. Replying(x) /\ Replying(<<On(200, es)>>)
  BY OneClause DEF Replying, On, Codes
<1>8. Covers(x, E)
  BY DEF Covers, Catches, On
<1>9. /\ Plain(Check(B)) /\ Check(B).may = B
      /\ Plain(Finds(I)) /\ Finds(I).may = I
  BY DEF Check, Finds, Plain
<1>10. Image(a) = {Check(B)} /\ Image(f) = {Finds(I)}
  BY ImageOfOne
<1>11. \A t \in Image(PriceList) \cup Image(f) \cup Image(Completion) : t.may \cap B \subseteq I
  <2>1. \A t \in Image(PriceList) : t.may = {}
    BY ImageOfOne DEF PriceList, Ask
  <2>2. \A t \in Image(f) : t.may = I
    BY <1>9, <1>10
  <2>3. \A t \in Image(Completion) : t.may = {"TimeoutError", "foreign"}
    BY ImageOfOne DEF Completion, Llm, Ask
  <2> QED BY <2>1, <2>2, <2>3 DEF GatewayBody
<1>12. "fine" \notin B /\ I \subseteq B
  BY DEF GatewayBody
<1> HIDE DEF E, x, a, f, h, g, B, I
<1>13. PriceList \o f \in Seq(Free(E)) /\ a \o PriceList \in Seq(Free(E))
  BY <1>1, <1>2, <1>3, Join
<1>14. h.steps \in Ordered(E) /\ g.steps \in Ordered(E)
  <2>1. a \o PriceList \in Ordered(E) /\ PriceList \o f \in Ordered(E)
    BY <1>13, FreeIsOrdered
  <2> QED BY <1>4, <1>6, <2>1, OrderedThenHarmless
<1>15. WellFormed(h) /\ Logs(h) /\ Answers(h) /\ WellFormed(g) /\ Logs(g)
  <2>1. h.steps \in Seq(Sound(E)) /\ g.steps \in Seq(Sound(E))
    BY <1>14, OrderedSteps
  <2> QED BY <1>6, <1>7, <1>8, <2>1, Shape
<1>16. InOrder(h) /\ InOrder(g)
  BY <1>14, OrderedSteps DEF InOrder
<1>17. Image(g.steps) = Image(PriceList) \cup Image(f) \cup Image(Completion)
  BY <1>2, <1>3, <1>4, <1>6, ImageOfThree
<1>18. Image(h.steps) = Image(a) \cup Image(PriceList) \cup Image(Completion)
  BY <1>1, <1>3, <1>4, <1>6, ImageOfThree
<1>19. B \cap Meets(g) \subseteq I
  BY <1>6, <1>11, <1>12, <1>17 DEF Meets
<1>20. Follows(h, g)
  BY <1>9, <1>10, <1>17, <1>18, <1>19 DEF Follows
<1>21. Follows(g, h)
  BY <1>9, <1>10, <1>12, <1>17, <1>18 DEF Follows
<1> QED BY <1>5, <1>6, <1>15, <1>16, <1>20, <1>21, TwoDoors DEF Agree

-----------------------------------------------------------------------------
(* The engines.                                                            *)

LEMMA PurecalcFits == Fits("purecalc")
<1> DEFINE E == {"invalid_input", "ComputeError", "exception"}
           x == <<NoPayerReply, On(422, All)>>
<1>1. ComputeSteps \in Ordered(E)
  BY ComputeStepsOrdered
<1>2. Replying(x)
  BY DEF Replying, On, NoPayerReply, Codes
<1>3. Covers(x, E \cup {NoPayer})
  BY DEF Covers, Catches, On
<1>4. NoPayer \notin E
  BY DEF NoPayer
<1>5. Sold["purecalc"] = Two(Http(Named(ComputeSteps), x), Tool(ComputeSteps, All))
  BY DEF Sold, Written, ComputeHttp, RunCompute
<1> HIDE DEF E, x
<1> QED BY <1>1, <1>2, <1>3, <1>4, <1>5, NamedFits

\* Every error a base lookup may raise
BaseErrors ==
    {"invalid_input", "invalid_block_range", "range_too_wide", "invalid_block_number", "RpcTimeout", "reverted",
     "not_an_erc721_token", "not_enumerable", "token_not_found", "tx_not_found", "no_total_supply", "no_liquidity",
     "not_an_erc20_token", "receipt_not_found", "resolver_call_failed", "name_not_found",
     "not_an_erc1155_token", "block_not_found", "pending_unavailable"}

LEMMA BaseSteps ==
    /\ ValidInput \in Free(BaseErrors) /\ BlockRange \in Free(BaseErrors)
    /\ Check({"invalid_block_number"}) \in Free(BaseErrors)
    /\ Call \in Harmless(BaseErrors) /\ CallsNoRevert \in Harmless(BaseErrors)
    /\ Ask(<<"rpc", "rpc2">>, "RpcTimeout", {"reverted"}) \in Harmless(BaseErrors)
    /\ \A S \in SUBSET BaseErrors : S \cap Mistakes = {} => Finds(S) \in Harmless(BaseErrors)
<1>1. ValidInput \in Free(BaseErrors)
  BY ACheckIsFree DEF ValidInput, BaseErrors, Mistakes
<1>2. BlockRange \in Free(BaseErrors)
  BY ACheckIsFree DEF BlockRange, BaseErrors, Mistakes
<1>3. Check({"invalid_block_number"}) \in Free(BaseErrors)
  BY ACheckIsFree DEF BaseErrors, Mistakes
<1>4. "rpc" \in Upstreams /\ "rpc2" \in Upstreams /\ "RpcTimeout" \in BaseErrors
  BY DEF Upstreams, BaseErrors
<1>5. \A S \in SUBSET {"reverted", "malformed"} : S \subseteq BaseErrors \cup Strange /\ S \cap Mistakes = {}
  BY DEF BaseErrors, Strange, Mistakes
<1>6. \A S \in SUBSET {"reverted", "malformed"} : Ask(<<"rpc", "rpc2">>, "RpcTimeout", S) \in Harmless(BaseErrors)
  BY <1>4, <1>5, AnAskOfTwoIsHarmless
<1>7. \A S \in SUBSET BaseErrors : S \cap Mistakes = {} => Finds(S) \in Harmless(BaseErrors)
  BY AFindIsHarmless
<1> QED BY <1>1, <1>2, <1>3, <1>6, <1>7 DEF Call, CallsNoRevert

LEMMA BaseFinds ==
    /\ Finds({"no_liquidity"}) \in Harmless(BaseErrors)
    /\ Finds({"resolver_call_failed", "name_not_found"}) \in Harmless(BaseErrors)
    /\ Finds({"not_an_erc721_token"}) \in Harmless(BaseErrors)
    /\ Finds({"not_enumerable"}) \in Harmless(BaseErrors)
    /\ Finds({"token_not_found"}) \in Harmless(BaseErrors)
    /\ Finds({"not_an_erc20_token"}) \in Harmless(BaseErrors)
    /\ Finds({"no_total_supply"}) \in Harmless(BaseErrors)
    /\ Finds({"not_an_erc1155_token"}) \in Harmless(BaseErrors)
    /\ Finds({"tx_not_found"}) \in Harmless(BaseErrors)
    /\ Finds({"receipt_not_found"}) \in Harmless(BaseErrors)
    /\ Finds({"block_not_found"}) \in Harmless(BaseErrors)
    /\ Finds({"pending_unavailable"}) \in Harmless(BaseErrors)
<1>1. /\ {"no_liquidity"} \subseteq BaseErrors \ Mistakes
      /\ {"resolver_call_failed", "name_not_found"} \subseteq BaseErrors \ Mistakes
      /\ {"not_an_erc721_token"} \subseteq BaseErrors \ Mistakes
      /\ {"not_enumerable"} \subseteq BaseErrors \ Mistakes
      /\ {"token_not_found"} \subseteq BaseErrors \ Mistakes
      /\ {"not_an_erc20_token"} \subseteq BaseErrors \ Mistakes
      /\ {"no_total_supply"} \subseteq BaseErrors \ Mistakes
      /\ {"not_an_erc1155_token"} \subseteq BaseErrors \ Mistakes
      /\ {"tx_not_found"} \subseteq BaseErrors \ Mistakes
      /\ {"receipt_not_found"} \subseteq BaseErrors \ Mistakes
      /\ {"block_not_found"} \subseteq BaseErrors \ Mistakes
      /\ {"pending_unavailable"} \subseteq BaseErrors \ Mistakes
  BY DEF BaseErrors, Mistakes
<1>2. \A S : S \subseteq BaseErrors \ Mistakes => Finds(S) \in Harmless(BaseErrors)
  BY BaseSteps
<1> QED BY <1>1, <1>2

LEMMA BaseOrdered == \A r \in DOMAIN BASE_RPC_SPECS : BASE_RPC_SPECS[r] \in Ordered(BaseErrors)
<1> DEFINE F == Free(BaseErrors)
           H == Harmless(BaseErrors)
           S == Ordered(BaseErrors)
           v == ValidInput
           c == Call
<1>1. v \in F /\ c \in H
  BY BaseSteps
<1>2. <<v, c>> \in S
  BY <1>1, ThenOne
<1>3. Nonce \in S /\ Storage \in S /\ EthCall \in S /\ EstimateGas \in S /\ Contract \in S /\ Proxy \in S
  BY <1>2 DEF Nonce, Storage, EthCall, EstimateGas, Contract, Proxy
<1>4. Code \in S
  BY BaseSteps, ThenOne DEF Code
<1>5. \A f \in H : <<v, c, f>> \in S /\ <<v, c, f, c>> \in S
  BY <1>1, ThenTwo, ThenThree
<1>6. Quote \in S /\ CanSell \in S /\ Basename \in S
  BY <1>5, BaseFinds DEF Quote, CanSell, Basename
<1>7. NftMetadata \in S /\ NftOwner \in S /\ Erc20Balance \in S /\ LiveBalance \in S /\ TotalSupply \in S
  BY <1>5, BaseFinds DEF NftMetadata, NftOwner, Erc20Balance, LiveBalance, TotalSupply
<1>8. Allowance \in S /\ Erc1155Balance \in S /\ Tx \in S /\ Receipt \in S
  BY <1>5, BaseFinds DEF Allowance, Erc1155Balance, Tx, Receipt
<1>9. Erc721Tokens \in S
  BY <1>1, BaseFinds, ThenFour DEF Erc721Tokens
<1>10. Erc20Transfers \in S /\ Events \in S
  BY <1>1, BaseSteps, TwoThenOne DEF Erc20Transfers, Events
<1>11. Block \in S
  BY <1>1, BaseSteps, BaseFinds, TwoThenTwo DEF Block
<1>12. Simulate \in S
  BY <1>1, BaseSteps, ThenTwo DEF Simulate
<1>13. <<c>> \in S /\ \A f \in H : <<c, f>> \in S
  BY <1>1, SeqsOf, HarmlessIsOrdered
<1>14. BlockNumber \in S /\ ChainId \in S /\ NetworkInfo \in S /\ Pending \in S
  BY <1>13, BaseFinds DEF BlockNumber, ChainId, NetworkInfo, Pending
<1> HIDE DEF S
<1>15. \A r \in DOMAIN BASE_RPC_SPECS : BASE_RPC_SPECS[r] \in S
  BY <1>3, <1>4, <1>6, <1>7, <1>8, <1>9, <1>10, <1>11, <1>12, <1>14 DEF BASE_RPC_SPECS
<1> QED BY <1>15 DEF S

LEMMA BaseFit == \A r \in DOMAIN BASE_RPC_SPECS : Fits(r)
<1> DEFINE x == <<NoPayerReply, On(504, {"RpcTimeout"}), On(422, All)>>
<1>1. ASSUME NEW r \in DOMAIN BASE_RPC_SPECS PROVE r \notin DOMAIN Classifiers \cup DOMAIN Written
  BY DEF BASE_RPC_SPECS, Classifiers, Written
<1>2. ASSUME NEW r \in DOMAIN BASE_RPC_SPECS
      PROVE  Sold[r] = Two(Http(Named(BASE_RPC_SPECS[r]), x), Tool(BASE_RPC_SPECS[r], All))
  BY <1>1 DEF Sold, RpcHttp, RunRpc
<1>3. Replying(x)
  BY DEF Replying, On, NoPayerReply, Codes
<1>4. Covers(x, BaseErrors \cup {NoPayer})
  BY DEF Covers, Catches, On
<1>5. NoPayer \notin BaseErrors
  BY DEF NoPayer, BaseErrors
<1> HIDE DEF x
<1> QED BY <1>2, <1>3, <1>4, <1>5, BaseOrdered, NamedFits

\* So the whole table fits
LEMMA WrittenFit == \A r \in DOMAIN Written : Fits(r)
<1>1. DOMAIN Written =
        {"search", "search_batch", "translate", "translate_batch", "summarize", "extract", "pdf_parse", "web_read",
         "fact_check", "research", "weather", "crypto", "news", "can_pay", "probe", "agent_health", "x402_echo",
         "generated", "discover", "gas_price", "wallet_balance", "wallet_intelligence", "token_risk", "due_diligence",
         "decide", "guard", "verify", "rank", "chat_completions", "pinned_model", "jobs", "company_leads", "purecalc",
         "token_card", "agent_claim"}
  BY DEF Written
<1>2. /\ Fits("search") /\ Fits("search_batch") /\ Fits("translate") /\ Fits("translate_batch")
      /\ Fits("summarize") /\ Fits("extract") /\ Fits("pdf_parse") /\ Fits("web_read")
      /\ Fits("fact_check") /\ Fits("research")
  BY SearchFits, SearchBatchFits, TranslateFits, TranslateBatchFits, SummarizeFits,
     ExtractFits, PdfParseFits, WebReadFits, FactCheckFits, ResearchFits
<1>3. /\ Fits("weather") /\ Fits("crypto") /\ Fits("news") /\ Fits("can_pay") /\ Fits("probe")
      /\ Fits("agent_health") /\ Fits("x402_echo") /\ Fits("generated") /\ Fits("discover")
  BY WeatherFits, CryptoFits, NewsFits, CanPayFits, ProbeFits, AgentHealthFits,
     X402EchoFits, GeneratedFits, DiscoverFits
<1>4. /\ Fits("gas_price") /\ Fits("wallet_balance") /\ Fits("wallet_intelligence") /\ Fits("token_risk")
      /\ Fits("due_diligence") /\ Fits("token_card") /\ Fits("agent_claim")
  BY GasPriceFits, WalletBalanceFits, WalletIntelligenceFits, TokenRiskFits,
     DueDiligenceFits, TokenCardFits, AgentClaimFits
<1>5. /\ Fits("decide") /\ Fits("guard") /\ Fits("verify") /\ Fits("rank") /\ Fits("chat_completions")
      /\ Fits("pinned_model") /\ Fits("jobs") /\ Fits("company_leads") /\ Fits("purecalc")
  BY DecideFits, GuardFits, VerifyFits, RankFits, ChatCompletionsFits, PinnedModelFits,
     JobsFits, CompanyLeadsFits, PurecalcFits
<1> QED BY <1>1, <1>2, <1>3, <1>4, <1>5

LEMMA EveryRouteFits == \A r \in DOMAIN Sold : Fits(r)
<1>1. DOMAIN Sold = DOMAIN BASE_RPC_SPECS \cup DOMAIN Classifiers \cup DOMAIN Written
  BY DEF Sold
<1> QED BY <1>1, BaseFit, ClassifiersFit, WrittenFit

-----------------------------------------------------------------------------
(* A call.                                                                 *)

Rows == {"none", "paid", "error", "payment_failed"}
Replies == {"none", "delivered", "unsettled", "refused", "crashed"}
Calls(tiers) == [at : Nat, asked : SUBSET tiers, code : Codes, row : Rows, reply : Replies]

\* The operators of Handlers, as functions of the world w and a handler h
UpIn(w, s) == {k \in DOMAIN s.of : s.of[k] \notin w.down}
FaultIn(w, s) ==
    IF s.does = "raise" THEN s.error
    ELSE IF s.of # <<>> /\ UpIn(w, s) = {} THEN IF s.does = "ask" THEN s.error ELSE "none"
    ELSE IF w.says \in s.may THEN w.says
    ELSE "none"
CatchingIn(h, f) == {k \in DOMAIN h.except : Catches(h.except[k], f)}

\* The call c of handler h in the world w: the steps before it found no fault, it
\* asked those of its steps, and its reply and row are those of the step it is at
Played(h, w, c) ==
    /\ c.at \in 1..(Len(h.steps) + 1)
    /\ \A i \in 1..(c.at - 1) : FaultIn(w, h.steps[i]) = "none"
    /\ \A u \in c.asked : \E i \in 1..Len(h.steps) : i <= c.at /\ u \in Image(h.steps[i].of)
    /\ c.code \in Codes /\ c.row \in Rows /\ c.reply \in Replies
    /\ c.reply = "none" => c.row \in {"none", "paid"} /\ (c.row = "paid" => c.at = Len(h.steps) + 1)
    /\ c.reply = "delivered" => c.row = "paid" /\ c.at = Len(h.steps) + 1 /\ w.pays /\ w.says \notin h.late
    /\ c.reply = "unsettled" => ~w.pays
    /\ c.reply = "refused" =>
           /\ c.at <= Len(h.steps)
           /\ FaultIn(w, h.steps[c.at]) # "none"
           /\ \E k \in CatchingIn(h, FaultIn(w, h.steps[c.at])) : c.row = h.except[k].row
    /\ c.reply = "crashed" =>
           \/ w.says \in h.late
           \/ /\ c.row = "none"
              /\ c.at <= Len(h.steps)
              /\ FaultIn(w, h.steps[c.at]) # "none"
              /\ CatchingIn(h, FaultIn(w, h.steps[c.at])) = {}

\* What DoorsAgree and RefusedInputsAskNothing forget: which steps a call has
\* passed, and that they found no fault.  Neither is inductive without it.
CallInv ==
    /\ route \in DOMAIN Sold
    /\ world \in [says : Says(route), down : SUBSET Tiers(route), pays : BOOLEAN]
    /\ call \in [Doors(route) -> Calls(Tiers(route))]
    /\ \A d \in Doors(route) : Played(Handler(d), world, call[d])

LEMMA InWorld ==
    /\ \A s : Fault(s) = FaultIn(world, s)
    /\ \A s : Asked(s) \subseteq Image(s.of)
    /\ \A d, f : Catching(d, f) = CatchingIn(Handler(d), f)
BY DEF Fault, Up, FaultIn, UpIn, Asked, Image, Catching, CatchingIn

LEMMA StepsAreOfTheRoute ==
    ASSUME NEW r \in DOMAIN Sold, Fits(r), NEW d \in Doors(r), NEW i \in 1..Len(Sold[r][d].steps)
    PROVE  /\ Sold[r][d].steps[i] \in StepsOf(r)
           /\ Image(Sold[r][d].steps[i].of) \subseteq Tiers(r)
<1>1. DOMAIN Sold[r][d].steps = 1..Len(Sold[r][d].steps)
  BY DEF Fits, WellFormed
<1>2. Sold[r][d].steps[i] \in StepsOf(r)
  BY <1>1 DEF StepsOf, Image
<1> QED BY <1>2 DEF Tiers

\* A fresh call has passed nothing
LEMMA Initially == Init => CallInv
<1> SUFFICES ASSUME Init PROVE CallInv
  OBVIOUS
<1>1. Fits(route)
  BY EveryRouteFits DEF Init
<1>2. ASSUME NEW d \in Doors(route) PROVE Played(Handler(d), world, call[d])
  <2>1. call[d] = Fresh
    BY DEF Init
  <2>2. WellFormed(Handler(d))
    BY <1>1 DEF Fits, Handler
  <2>3. Len(Handler(d).steps) \in Nat
    BY <2>2 DEF WellFormed
  <2> QED BY <2>1, <2>3 DEF Played, Fresh, Codes, Rows, Replies
<1> QED BY <1>2 DEF Init, CallInv, Fresh, Calls, Codes, Rows, Replies

\* One door moves: its own call must stay as played
LEMMA Moves ==
    ASSUME CallInv, UNCHANGED <<route, world>>, NEW d \in Doors(route), NEW c,
           c \in Calls(Tiers(route)),
           Played(Handler(d), world, c), call' = [call EXCEPT ![d] = c]
    PROVE  CallInv'
<1>1. Doors(route)' = Doors(route) /\ Says(route)' = Says(route) /\ Tiers(route)' = Tiers(route)
  BY DEF Doors, Says, Tiers, StepsOf
<1>2. ASSUME NEW e \in Doors(route) PROVE Played(Handler(e), world, call[e])'
  <2>1. Played(Handler(e), world, call'[e])
    BY DEF CallInv
  <2>2. Handler(e)' = Handler(e)
    BY DEF Handler
  <2> QED BY <2>1, <2>2
<1> QED BY <1>1, <1>2 DEF CallInv

LEMMA BusyStep ==
    ASSUME CallInv, NEW d \in Doors(route), Busy(d)
    PROVE  /\ WellFormed(Handler(d))
           /\ Len(Handler(d).steps) \in Nat
           /\ call[d] \in Calls(Tiers(route))
           /\ call[d].at \in 1..Len(Handler(d).steps)
           /\ Asked(Step(d)) \subseteq Image(Handler(d).steps[call[d].at].of)
           /\ Asked(Step(d)) \subseteq Tiers(route)
           /\ Fault(Step(d)) = FaultIn(world, Handler(d).steps[call[d].at])
           /\ Played(Handler(d), world, call[d])
           /\ call[d].row = "none" /\ call[d].reply = "none"
<1>1. Fits(route)
  BY EveryRouteFits DEF CallInv
<1>2. WellFormed(Handler(d))
  BY <1>1 DEF Fits, Handler
<1>3. Len(Handler(d).steps) \in Nat
  BY <1>2 DEF WellFormed
<1>4. Played(Handler(d), world, call[d]) /\ call[d] \in Calls(Tiers(route))
  BY DEF CallInv
<1>5. call[d].at \in 1..Len(Handler(d).steps) /\ call[d].row = "none" /\ call[d].reply = "none"
  BY <1>3, <1>4 DEF Busy, Running, Played
<1>6. /\ Asked(Step(d)) \subseteq Image(Handler(d).steps[call[d].at].of)
      /\ Fault(Step(d)) = FaultIn(world, Handler(d).steps[call[d].at])
  BY InWorld DEF Step
<1>7. Image(Handler(d).steps[call[d].at].of) \subseteq Tiers(route)
  BY <1>1, <1>5, StepsAreOfTheRoute DEF Handler, CallInv
<1> QED BY <1>2, <1>3, <1>4, <1>5, <1>6, <1>7

\* What an action makes of a call is a call.  (Literals in an EXCEPT of several
\* fields are beyond the provers: the updates are stated for any value.)
LEMMA RecordUpdates ==
    ASSUME NEW At, NEW Sets, NEW C, NEW W, NEW R, NEW c \in [at : At, asked : Sets, code : C, row : W, reply : R],
           NEW at \in At, NEW asked \in Sets, NEW code \in C, NEW row \in W, NEW reply \in R
    PROVE  LET S == [at : At, asked : Sets, code : C, row : W, reply : R]
           IN  /\ [c EXCEPT !.at = at, !.asked = asked] \in S
               /\ [c EXCEPT !.asked = asked, !.reply = reply, !.row = row, !.code = code] \in S
               /\ [c EXCEPT !.asked = asked, !.reply = reply, !.code = code] \in S
               /\ [c EXCEPT !.row = row] \in S
               /\ [c EXCEPT !.reply = reply, !.code = code] \in S
               /\ [c EXCEPT !.row = row, !.code = code, !.reply = reply] \in S
OBVIOUS

LEMMA CallUpdates ==
    ASSUME NEW T, NEW c \in Calls(T)
    PROVE  /\ \A at \in Nat, asked \in SUBSET T : [c EXCEPT !.at = at, !.asked = asked] \in Calls(T)
           /\ \A asked \in SUBSET T, reply \in Replies, row \in Rows, code \in Codes :
                  [c EXCEPT !.asked = asked, !.reply = reply, !.row = row, !.code = code] \in Calls(T)
           /\ \A asked \in SUBSET T, reply \in Replies, code \in Codes :
                  [c EXCEPT !.asked = asked, !.reply = reply, !.code = code] \in Calls(T)
           /\ \A row \in Rows : [c EXCEPT !.row = row] \in Calls(T)
           /\ \A reply \in Replies, code \in Codes : [c EXCEPT !.reply = reply, !.code = code] \in Calls(T)
           /\ \A row \in Rows, code \in Codes, reply \in Replies :
                  [c EXCEPT !.row = row, !.code = code, !.reply = reply] \in Calls(T)
BY RecordUpdates DEF Calls

\* Each action keeps the invariant
LEMMA PassMoves ==
    ASSUME CallInv, UNCHANGED <<route, world>>, NEW d \in Doors(route), Pass(d)
    PROVE  CallInv'
<1> DEFINE c == [call[d] EXCEPT !.at = @ + 1, !.asked = @ \cup Asked(Step(d))]
<1>1. Busy(d) /\ Fault(Step(d)) = "none" /\ call' = [call EXCEPT ![d] = c]
  BY DEF Pass
<1>2. /\ call[d].at + 1 \in Nat
      /\ call[d].asked \cup Asked(Step(d)) \in SUBSET Tiers(route)
      /\ call[d].code \in Codes /\ call[d].row \in Rows /\ call[d].reply \in Replies
      /\ call[d] \in Calls(Tiers(route))
  BY <1>1, BusyStep DEF Calls
<1>3. \A at \in Nat, asked \in SUBSET Tiers(route) :
          [call[d] EXCEPT !.at = at, !.asked = asked] \in Calls(Tiers(route))
  BY <1>2, CallUpdates
<1>4. c \in Calls(Tiers(route))
  BY <1>2, <1>3
<1>5. /\ c.at = call[d].at + 1
      /\ c.asked = call[d].asked \cup Asked(Step(d))
      /\ c.code = call[d].code /\ c.row = call[d].row /\ c.reply = call[d].reply
  BY <1>2 DEF Calls
<1> HIDE DEF c
<1>6. Played(Handler(d), world, c)
  <2>1. \A i \in 1..(c.at - 1) : FaultIn(world, Handler(d).steps[i]) = "none"
    BY <1>1, <1>5, BusyStep DEF Played
  <2>2. \A u \in c.asked : \E i \in 1..Len(Handler(d).steps) : i <= c.at /\ u \in Image(Handler(d).steps[i].of)
    BY <1>1, <1>5, BusyStep DEF Played
  <2> QED BY <1>1, <1>2, <1>5, <2>1, <2>2, BusyStep DEF Played
<1> QED BY <1>1, <1>4, <1>6, Moves

LEMMA RefuseMoves ==
    ASSUME CallInv, UNCHANGED <<route, world>>, NEW d \in Doors(route), Refuse(d)
    PROVE  CallInv'
<1> DEFINE asked == call[d].asked \cup Asked(Step(d))
<1>1. Busy(d) /\ Fault(Step(d)) # "none"
  BY DEF Refuse
<1>2. PICK k \in Catching(d, Fault(Step(d))) :
          call' = [call EXCEPT ![d].asked = asked, ![d].reply = "refused",
                               ![d].row = Handler(d).except[k].row, ![d].code = Handler(d).except[k].code]
  BY DEF Refuse
<1>3. k \in DOMAIN Handler(d).except /\ k \in CatchingIn(Handler(d), FaultIn(world, Handler(d).steps[call[d].at]))
  BY <1>1, InWorld, BusyStep DEF CatchingIn
<1>4. asked \in SUBSET Tiers(route) /\ call[d] \in Calls(Tiers(route))
  BY <1>1, BusyStep DEF Calls
<1>5. PICK reply \in Replies, row \in Rows, code \in Codes :
          reply = "refused" /\ row = Handler(d).except[k].row /\ code = Handler(d).except[k].code
  BY <1>1, <1>3, BusyStep DEF WellFormed, Rows, Replies
<1> DEFINE c == [call[d] EXCEPT !.asked = asked, !.reply = reply, !.row = row, !.code = code]
<1> HIDE DEF asked
<1>6. call' = [call EXCEPT ![d].asked = asked, ![d].reply = reply, ![d].row = row, ![d].code = code]
  BY <1>2, <1>5
<1>7. call' = [call EXCEPT ![d] = c]
  BY <1>6 DEF CallInv, Calls
<1>8. c \in Calls(Tiers(route))
  BY <1>4, CallUpdates
<1>9. c.at = call[d].at /\ c.asked = asked /\ c.row = row /\ c.code = code /\ c.reply = reply
  BY <1>4 DEF Calls
<1> HIDE DEF c
<1>10. Played(Handler(d), world, c)
  <2>1. \A i \in 1..(c.at - 1) : FaultIn(world, Handler(d).steps[i]) = "none"
    BY <1>1, <1>9, BusyStep DEF Played
  <2>2. \A u \in c.asked : \E i \in 1..Len(Handler(d).steps) : i <= c.at /\ u \in Image(Handler(d).steps[i].of)
    BY <1>1, <1>9, BusyStep DEF Played, asked
  <2> QED BY <1>1, <1>3, <1>5, <1>9, <2>1, <2>2, BusyStep DEF Played
<1> QED BY <1>7, <1>8, <1>10, Moves

LEMMA CrashMoves ==
    ASSUME CallInv, UNCHANGED <<route, world>>, NEW d \in Doors(route), Crash(d)
    PROVE  CallInv'
<1>1. Busy(d) /\ Fault(Step(d)) # "none" /\ Catching(d, Fault(Step(d))) = {}
  BY DEF Crash
<1>2. call[d].asked \cup Asked(Step(d)) \in SUBSET Tiers(route) /\ call[d] \in Calls(Tiers(route))
  BY <1>1, BusyStep DEF Calls
<1>3. PICK reply \in Replies, code \in Codes : reply = "crashed" /\ code = 500
  BY DEF Codes, Replies
<1> DEFINE asked == call[d].asked \cup Asked(Step(d))
           c == [call[d] EXCEPT !.asked = asked, !.reply = reply, !.code = code]
<1>4. call' = [call EXCEPT ![d].asked = asked, ![d].reply = reply, ![d].code = code]
  BY <1>3 DEF Crash
<1> HIDE DEF asked
<1>5. call' = [call EXCEPT ![d] = c]
  BY <1>4 DEF CallInv, Calls
<1>6. c \in Calls(Tiers(route))
  BY <1>2, CallUpdates DEF asked
<1>7. c.at = call[d].at /\ c.asked = asked /\ c.row = call[d].row /\ c.code = code /\ c.reply = reply
  BY <1>2 DEF Calls
<1> HIDE DEF c
<1>8. CatchingIn(Handler(d), FaultIn(world, Handler(d).steps[call[d].at])) = {}
  BY <1>1, InWorld, BusyStep
<1>9. Played(Handler(d), world, c)
  <2>1. \A i \in 1..(c.at - 1) : FaultIn(world, Handler(d).steps[i]) = "none"
    BY <1>1, <1>7, BusyStep DEF Played
  <2>2. \A u \in c.asked : \E i \in 1..Len(Handler(d).steps) : i <= c.at /\ u \in Image(Handler(d).steps[i].of)
    BY <1>1, <1>7, BusyStep DEF Played, asked
  <2>3. c.row \in Rows
    BY <1>2, <1>7 DEF Calls
  <2> QED BY <1>1, <1>3, <1>7, <1>8, <2>1, <2>2, <2>3, BusyStep DEF Played
<1> QED BY <1>5, <1>6, <1>9, Moves

LEMMA DoneSteps ==
    ASSUME CallInv, NEW d \in Doors(route), Done(d)
    PROVE  /\ Len(Handler(d).steps) \in Nat
           /\ call[d] \in Calls(Tiers(route))
           /\ call[d].at = Len(Handler(d).steps) + 1
           /\ Played(Handler(d), world, call[d])
           /\ call[d].reply = "none" /\ call[d].row \in {"none", "paid"}
<1>1. WellFormed(Handler(d))
  BY EveryRouteFits DEF Fits, Handler, CallInv
<1>2. Len(Handler(d).steps) \in Nat
  BY <1>1 DEF WellFormed
<1>3. Played(Handler(d), world, call[d]) /\ call[d] \in Calls(Tiers(route))
  BY DEF CallInv
<1> QED BY <1>2, <1>3 DEF Done, Running, Played

LEMMA RecordMoves ==
    ASSUME CallInv, UNCHANGED <<route, world>>, NEW d \in Doors(route), Record(d)
    PROVE  CallInv'
<1> DEFINE c == [call[d] EXCEPT !.row = "paid"]
<1>1. Done(d) /\ call' = [call EXCEPT ![d] = c]
  BY DEF Record
<1>2. "paid" \in Rows /\ call[d] \in Calls(Tiers(route))
  BY <1>1, DoneSteps DEF Rows
<1>3. c \in Calls(Tiers(route))
  BY <1>2, CallUpdates
<1>4. /\ c.at = call[d].at /\ c.asked = call[d].asked
      /\ c.code = call[d].code /\ c.row = "paid" /\ c.reply = call[d].reply
  BY <1>2 DEF Calls
<1> HIDE DEF c
<1>5. Played(Handler(d), world, c)
  BY <1>1, <1>2, <1>4, DoneSteps DEF Played
<1> QED BY <1>1, <1>3, <1>5, Moves

LEMMA CrashLateMoves ==
    ASSUME CallInv, UNCHANGED <<route, world>>, NEW d \in Doors(route), CrashLate(d)
    PROVE  CallInv'
<1>1. Done(d) /\ world.says \in Handler(d).late
  BY DEF CrashLate
<1>2. PICK reply \in Replies, code \in Codes : reply = "crashed" /\ code = 500
  BY DEF Codes, Replies
<1> DEFINE c == [call[d] EXCEPT !.reply = reply, !.code = code]
<1>3. call' = [call EXCEPT ![d].reply = reply, ![d].code = code]
  BY <1>2 DEF CrashLate
<1>4. call' = [call EXCEPT ![d] = c]
  BY <1>3 DEF CallInv, Calls
<1>5. c \in Calls(Tiers(route))
  BY <1>1, DoneSteps, CallUpdates
<1>6. c.at = call[d].at /\ c.asked = call[d].asked /\ c.row = call[d].row /\ c.code = code /\ c.reply = reply
  BY <1>1, DoneSteps DEF Calls
<1> HIDE DEF c
<1>7. Played(Handler(d), world, c)
  BY <1>1, <1>2, <1>6, DoneSteps DEF Played
<1> QED BY <1>4, <1>5, <1>7, Moves

LEMMA SettleMoves ==
    ASSUME CallInv, UNCHANGED <<route, world>>, NEW d \in Doors(route), Settle(d)
    PROVE  CallInv'
<1>1. Done(d) /\ world.says \notin Handler(d).late
  BY DEF Settle
<1>2. PICK row \in Rows, code \in Codes, reply \in Replies :
          /\ row = IF world.pays THEN "paid" ELSE call[d].row
          /\ code = IF world.pays THEN 200 ELSE 402
          /\ reply = IF world.pays THEN "delivered" ELSE "unsettled"
  BY <1>1, DoneSteps DEF Rows, Codes, Replies
<1> DEFINE c == [call[d] EXCEPT !.row = row, !.code = code, !.reply = reply]
<1>3. call' = [call EXCEPT ![d].row = row, ![d].code = code, ![d].reply = reply]
  BY <1>2 DEF Settle
<1>4. call' = [call EXCEPT ![d] = c]
  BY <1>3 DEF CallInv, Calls
<1>5. c \in Calls(Tiers(route))
  BY <1>1, DoneSteps, CallUpdates
<1>6. c.at = call[d].at /\ c.asked = call[d].asked /\ c.row = row /\ c.code = code /\ c.reply = reply
  BY <1>1, DoneSteps DEF Calls
<1> HIDE DEF c
<1>7. Played(Handler(d), world, c)
  BY <1>1, <1>2, <1>6, DoneSteps DEF Played
<1> QED BY <1>4, <1>5, <1>7, Moves

LEMMA Inductive == CallInv /\ [Next]_vars => CallInv'
<1> SUFFICES ASSUME CallInv, [Next]_vars PROVE CallInv'
  OBVIOUS
<1>1. CASE Next
  <2>1. UNCHANGED <<route, world>>
    BY <1>1 DEF Next
  <2>2. PICK d \in Doors(route) : Pass(d) \/ Refuse(d) \/ Crash(d) \/ Record(d) \/ CrashLate(d) \/ Settle(d)
    BY <1>1 DEF Next
  <2> QED BY <2>1, <2>2, PassMoves, RefuseMoves, CrashMoves, RecordMoves, CrashLateMoves, SettleMoves
<1>2. CASE UNCHANGED vars
  <2>1. ASSUME NEW d \in Doors(route) PROVE Played(Handler(d), world, call[d])'
    BY <1>2 DEF CallInv, vars, Handler, Doors
  <2> QED BY <1>2, <2>1 DEF CallInv, vars, Doors, Says, Tiers, StepsOf
<1> QED BY <1>1, <1>2

LEMMA AlwaysCallInv == Spec => []CallInv
BY Initially, Inductive, PTL DEF Spec

-----------------------------------------------------------------------------
(* The properties.                                                         *)

\* What the checks of the table may find is in Mistakes
LEMMA MistakesAreKnown == CallersMistakes \subseteq Mistakes
<1>1. ASSUME NEW r \in DOMAIN Sold, NEW s \in StepsOf(r), s.does = "check" PROVE s.may \subseteq Mistakes
  <2>1. PICK d \in Doors(r) : s \in Image(Sold[r][d].steps)
    BY <1>1 DEF StepsOf
  <2>2. WellFormed(Sold[r][d])
    BY EveryRouteFits DEF Fits
  <2>3. PICK E : Sold[r][d].steps \in Seq(Sound(E) \cup Fatal(Sold[r][d].except))
    BY <2>2 DEF WellFormed
  <2>4. s \in Sound(E) \cup Fatal(Sold[r][d].except)
    BY <2>1, <2>3 DEF Image
  <2> QED BY <1>1, <2>4 DEF Sound, Fatal, Raises
<1> QED BY <1>1 DEF CallersMistakes

\* A handler that lets an error past its clauses would not Answer
LEMMA RowsFollow == CallInv => RowsTellWhatHappened
<1> SUFFICES ASSUME CallInv PROVE RowsTellWhatHappened
  OBVIOUS
<1>1. TypeOK
  BY DEF CallInv, TypeOK, Calls, Codes, Rows, Replies
<1>2. Fits(route)
  BY EveryRouteFits DEF CallInv
<1>3. ASSUME NEW d \in Doors(route)
      PROVE  /\ Played(Handler(d), world, call[d])
             /\ WellFormed(Handler(d))
             /\ route # "agent_claim" => Logs(Handler(d))
  BY <1>2 DEF CallInv, Fits, Handler
<1>4. ASSUME NEW d \in Doors(route)
      PROVE  call[d].reply = "refused" => call[d].row \in {"error", "payment_failed"} \/ route = "agent_claim"
  BY <1>3 DEF Played, CatchingIn, Logs
<1>5. ASSUME NEW d \in Doors(route)
      PROVE  call[d].reply = "crashed" => call[d].row = "none" \/ world.says = "unlisted_choice"
  BY <1>3 DEF Played, WellFormed
<1>6. ASSUME call["http"].reply = "crashed"
      PROVE  \/ world.says \in {"foreign", "malformed", "BatchMisaligned", "unlisted_choice"}
             \/ "pricelist" \in world.down
  <2> DEFINE h == Handler("http")
             at == call["http"].at
             s == h.steps[at]
             f == FaultIn(world, s)
  <2>1. "http" \in Doors(route) /\ Answers(h)
    BY <1>2 DEF Fits, Doors, Handler
  <2>2. CASE world.says \in h.late
    BY <1>3, <2>1, <2>2 DEF WellFormed
  <2>3. CASE at <= Len(h.steps) /\ f # "none" /\ CatchingIn(h, f) = {}
    <3>1. PICK E : h.steps \in Seq(Sound(E)) /\ Covers(h.except, E)
      BY <2>1 DEF Answers
    <3>2. f \notin E
      BY <2>3, <3>1 DEF CatchingIn, Covers
    <3>3. at \in 1..Len(h.steps)
      BY <1>3, <2>1, <2>3, <3>1 DEF Played
    <3>4. s \in Sound(E)
      BY <3>1, <3>3
    <3> HIDE DEF h, at, s
    <3>5. CASE s.of # <<>> /\ UpIn(world, s) = {} /\ s.does = "ask"
      <4>1. f = s.error
        BY <3>5 DEF FaultIn
      <4>2. s.of = <<"pricelist">>
        BY <4>1, <3>2, <3>4, <3>5 DEF Sound
      <4>3. 1 \notin UpIn(world, s) /\ 1 \in DOMAIN s.of /\ s.of[1] = "pricelist"
        BY <4>2, <3>5
      <4> QED BY <4>3 DEF UpIn
    <3>6. CASE ~(s.of # <<>> /\ UpIn(world, s) = {} /\ s.does = "ask")
      <4>1. f = world.says /\ world.says \in s.may
        BY <2>3, <3>6, <3>4 DEF FaultIn, Sound
      <4> QED BY <4>1, <3>2, <3>4 DEF Sound, Strange
    <3> QED BY <3>5, <3>6
  <2> QED BY <1>3, <1>6, <2>1, <2>2, <2>3 DEF Played
<1>7. ASSUME NEW d \in Doors(route) PROVE call[d].reply = "delivered" => call[d].row = "paid"
  BY <1>3 DEF Played
<1> QED BY <1>1, <1>4, <1>5, <1>6, <1>7 DEF RowsTellWhatHappened

\* A step that blames the caller is one before which nobody was asked
LEMMA AsksFollow == CallInv => RefusedInputsAskNothing
<1> SUFFICES ASSUME CallInv, NEW d \in Doors(route), call[d].reply = "refused", world.says \in CallersMistakes,
                    world.down = {}, route \notin {"extract", "wallet_intelligence"}
             PROVE  call[d].asked \subseteq {"pricelist"}
  BY DEF RefusedInputsAskNothing
<1> DEFINE h == Handler(d)
           at == call[d].at
           s == h.steps[at]
           f == FaultIn(world, s)
<1>1. /\ Played(h, world, call[d])
      /\ WellFormed(h)
      /\ InOrder(h)
  BY EveryRouteFits DEF CallInv, Fits, Handler
<1>2. PICK E : h.steps \in Seq(Sound(E) \cup Fatal(h.except))
  BY <1>1 DEF WellFormed
<1>3. PICK n \in 0..Len(h.steps) : Splits(h.steps, n)
  BY <1>1 DEF InOrder
<1>4. at \in 1..Len(h.steps) /\ f # "none" /\ CatchingIn(h, f) # {}
  BY <1>1, <1>2 DEF Played
<1>5. s \in Sound(E) \cup Fatal(h.except)
  BY <1>2, <1>4
<1>6. Len(h.steps) \in Nat
  BY <1>2
<1> HIDE DEF h, at, s
<1>7. s \notin Fatal(h.except)
  BY <1>4 DEF Fatal, Raises, FaultIn, CatchingIn
<1>8. s \in Sound(E)
  BY <1>5, <1>7
<1>9. s.of # <<>> => UpIn(world, s) # {}
  <2>1. s.of \in Seq(Upstreams)
    BY <1>8 DEF Sound
  <2>2. s.of # <<>> => 1 \in DOMAIN s.of
    BY <2>1
  <2> QED BY <2>2 DEF UpIn
<1>10. world.says \in s.may
  BY <1>4, <1>8, <1>9 DEF FaultIn, Sound
<1>11. at <= n
  <2>1. ~Innocent(s)
    BY <1>10, MistakesAreKnown DEF Innocent
  <2> QED BY <2>1, <1>3, <1>4, <1>6 DEF Splits, s
<1>12. ASSUME NEW u \in call[d].asked PROVE u = "pricelist"
  <2>1. PICK i \in 1..Len(h.steps) : i <= at /\ u \in Image(h.steps[i].of)
    BY <1>1 DEF Played, at
  <2>2. Quiet(h.steps[i])
    BY <2>1, <1>3, <1>4, <1>6, <1>11 DEF Splits
  <2> QED BY <2>1, <2>2 DEF Quiet, Image
<1> QED BY <1>12

\* A step that stops one door is one the other passed
LEMMA DoorsFollow == CallInv => DoorsAgree
<1> SUFFICES ASSUME CallInv, BothMeet, route \notin Outdated, \A d \in Doors(route) : call[d].reply # "none",
                    NEW d \in Doors(route), NEW e \in Doors(route), call[d].reply = "delivered"
             PROVE  call[e].reply = "delivered"
  BY DEF DoorsAgree
<1> DEFINE g == Handler(e)
           h == Handler(d)
           t == g.steps[call[e].at]
<1>1. Fits(route) /\ Played(h, world, call[d]) /\ Played(g, world, call[e])
  BY EveryRouteFits DEF CallInv
<1>2. Follows(g, h) /\ g.late = h.late /\ WellFormed(g) /\ WellFormed(h)
  BY <1>1 DEF Fits, Handler
<1>3. PICK E : h.steps \in Seq(Sound(E) \cup Fatal(h.except))
  BY <1>2 DEF WellFormed
<1>4. PICK F : g.steps \in Seq(Sound(F) \cup Fatal(g.except))
  BY <1>2 DEF WellFormed
<1>5. \A s \in Image(h.steps) : FaultIn(world, s) = "none"
  <2>1. call[d].at = Len(h.steps) + 1 /\ Len(h.steps) \in Nat /\ DOMAIN h.steps = 1..Len(h.steps)
    BY <1>1, <1>3 DEF Played
  <2>2. \A i \in 1..Len(h.steps) : FaultIn(world, h.steps[i]) = "none"
    BY <1>1, <2>1 DEF Played
  <2> QED BY <2>1, <2>2 DEF Image
<1>6. world.says \in Meets(h)
  BY DEF BothMeet, Meets
<1>7. ASSUME call[e].at \in 1..Len(g.steps), FaultIn(world, t) # "none" PROVE FALSE
  <2>1. t \in Image(g.steps)
    BY <1>4, <1>7 DEF Image
  <2>2. CASE t \in Image(h.steps)
    BY <1>5, <1>7, <2>2
  <2>3. CASE Plain(t) /\ \A m \in t.may \cap Meets(h) : \E s \in Image(h.steps) : Plain(s) /\ m \in s.may
    <3> HIDE DEF t, h, g
    <3>1. world.says \in t.may /\ FaultIn(world, t) = world.says
      BY <1>7, <2>3 DEF FaultIn, Plain
    <3>2. PICK s \in Image(h.steps) : Plain(s) /\ world.says \in s.may
      BY <1>6, <2>3, <3>1
    <3>3. FaultIn(world, s) = world.says
      BY <3>2 DEF FaultIn, Plain
    <3> QED BY <1>5, <1>7, <3>1, <3>2, <3>3
  <2> QED BY <1>2, <2>1, <2>2, <2>3 DEF Follows
<1>8. call[e].reply \in Replies /\ call[e].reply # "none" /\ world.pays /\ world.says \notin g.late
  BY <1>1, <1>2 DEF Played
<1>9. Len(g.steps) \in Nat
  BY <1>4
<1> HIDE DEF g, t, h
<1> QED BY <1>1, <1>7, <1>8, <1>9 DEF Played, Replies, t

\* DoorsAgree (Handlers.tla): what one door of a route delivers, the other
\* delivers in the same world, for every route but the three whose tools do not
\* keep up (mcp_server.py's runners repeat the HTTP handlers by hand).
THEOREM BothDoorsAgree == Spec => []DoorsAgree
BY AlwaysCallInv, DoorsFollow, PTL

\* RowsTellWhatHappened (Handlers.tla): whatever fails, a delivery leaves a
\* 'paid' row and a refusal an 'error' row (but for agent_claim), and an HTTP
\* handler answers a bare 500 only when a client let something strange through,
\* or the price list cannot be read (db.log_request in each handler).
THEOREM RowsAreTrue == Spec => []RowsTellWhatHappened
BY AlwaysCallInv, RowsFollow, PTL

\* RefusedInputsAskNothing (Handlers.tla): a call refused for a mistake of its
\* own has asked no upstream but the price list, on every route but extract and
\* wallet_intelligence (the order of checks and calls in each handler).
THEOREM MistakesCostNothing == Spec => []RefusedInputsAskNothing
BY AlwaysCallInv, AsksFollow, PTL
=============================================================================
