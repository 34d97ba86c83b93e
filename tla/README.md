# A verification of the Kairos x402 service

TLA+ models of this repository, TLC runs that check them on small instances, and
TLAPS proofs of what should hold for every value of their constants. Paths are
relative to the repository root.

| Module | What it is | Runs | Proofs |
| --- | --- | --- | --- |
| `PaidRoute` | one paid HTTP route, its three rails, its tables, the chain | `x402`, `rails`, `mpp_charge` | `PaidRouteProofs` |
| `Sale` | what a paid call promises, without any mechanism | `x402` (as `SellsAsPromised`) | `PaidRouteProofs` |
| `JobQueue` | `POST /jobs`, its worker loops, the blue-green deploy | `jobs` | `JobQueueProofs` |
| `BalanceBreaker` | the shared balance check and its circuit breakers | `breaker` | `BalanceBreakerProofs` |
| `CompanyLeads` | `POST /company-leads`, its worker, the runs at Apify | `leads` | `CompanyLeadsProofs` |
| `Handlers` | every priced handler, as route and as MCP tool | `handlers`, `doors` | `HandlersProofs` |
| `Checksums` | the nine routes that check an identifier | `algorithms` | `ChecksumProofs` |
| `Purecalc` | the other computations of `app/purecalc` | `algorithms` | |
| `Catalogue` | what one version of the code sells, serves and publishes | (used by `Deploy`) | `OfficeProofs` |
| `Deploy` | versions, slots, `deploy.sh` and the Fossoyeur's rebuilds | `office`, `digger` | `OfficeProofs` |
| `ManualRuns` | the Usine's mechanical roles | `office` | `OfficeProofs` |
| `Usine` | requests to the operator's PC, the state of its loop | `office` | `OfficeProofs` |
| `Proposals` | proposals that may cost money, repair attempts | `office` | `OfficeProofs` |
| `Office` | `Deploy` and the three modules above, side by side | `office` | `OfficeProofs` |
| `Market` | the marketplace worker and its state file | `errands` | `ErrandsProofs` |
| `Ledger` | the copy of the seller's USDC transfers | `errands` | `ErrandsProofs` |
| `Limiter` | the rate limiter of OpenRouter | `errands` | `ErrandsProofs` |
| `ClaudeBudget` | the monthly budget and the breaker of Claude | `errands` | `ErrandsProofs` |
| `Board` | the mesh and the letters, written by two containers | `errands` | `ErrandsProofs` |
| `Registers` | the two registers kept in JSON files | `errands` | `ErrandsProofs` |
| `Errands` | the six modules above, side by side | `errands` | `ErrandsProofs` |

The `MC*` modules hold the values of the constants for TLC. `Office` and
`Errands` each put several independent modules side by side: their parts share
no variable, so a behaviour chooses one part at the start (`part`) and the others
stay in their initial state. A property of such a run is a conjunction of the
parts' properties; it says of each part what a run of its own would say.

## 1. Inventory

The service is one FastAPI process per container. Two containers (blue, green)
share one SQLite file; nginx sends requests to one of them, a deploy runs both
for a while. A process is single-threaded (asyncio), so what happens between
two `await`s is atomic inside a container and each SQL statement is atomic
across containers. Everything else interleaves.

**Paid route stack** (`app/main.py`, `capacity.py`, `intent_logging.py`,
`receipts.py`, the engines). State: tables `requests`, `seen_wallets`,
`mpp_nonces`. Operations: gate by the day's paid calls, log every refusal, quote
a price, run the handler, write the `paid` row. Interacts with the x402 SDK
(verify before, settle after the handler), the facilitator and, through it, the
token contract. Hard: the gate reads a count whose rows are written much later;
the price is quoted before the hook that decides it; a crash between row and
settlement; a settlement whose answer is lost. Correct when a result is only
handed over against its own transfer or the one call given away, a failure costs
nothing, every sale has its row, and the gate's overshoot is bounded.

**x402 setup** (`app/x402_setup.py`). State: the route table, the cached
documents made of it, the copy the SDK takes at startup, the keys the gate knows.
Operations: register routes, rebuild the cache, the first-call-free hook. Hard:
a route registered after the copy is unprotected (the incident of 2026-10-02);
two first calls of a wallet race. Correct when a wallet is given one call, an
unprotected route sells nothing.

**MPP rail** (`app/mpp.py`, `mpp_middleware.py`). State: `mpp_nonces`.
Operations: check the credential, look up the nonce, broadcast, mark the nonce,
run the handler. Hard: it charges first; three awaits between lookup and mark;
the transfer is not awaited. Correct when a nonce is burnt only for an
authorisation that was sent, and nobody pays for an error.

**Priced handlers and the MCP server** (`app/handlers/`, `app/base_chain/`,
`app/purecalc/`, `app/mcp_server.py`). No state of their own. Each priced
function has two doors, an HTTP route and an MCP tool, with the same helpers and
two hand-written lists of `except` clauses. Hard: a helper's new signature or
exception reaches one door only; an exception nobody maps becomes a 500 without
a row; an upstream is asked before the input is refused. Correct when the doors
deliver the same, every outcome has its row, and a mistake of the caller costs
no upstream call.

**Pure computations** (`app/purecalc/routes/`). Stateless. Hard: checksums,
carries, rounding, float shares, inverse conversions. Correct when they catch the
errors they are made for, lose nothing and agree with one another.

**Jobs queue and worker** (`app/jobs_worker.py`, `handlers/jobs.py`). State:
table `jobs`. Operations: create, pick the oldest, mark running, finish, fail,
report the position. Hard: the pick reserves nothing and the mark is
unconditional; the row is visible before its payment settles; a container dies
in the middle of a run. Correct when jobs start in order, once per container at
most, results stay, positions only fall, and the queue never stops.

**Blue-green deploy** (`scripts/deploy.sh`, `docker-compose.yml`, the four
checks it runs before the cutover). State: which containers run which version,
where nginx points. Operations: build, start the target, check it, cut over,
watch, roll back, stop. Hard: a target runs its worker loops on the shared
tables before any check has passed; the script has six exits; the checks import
the module they judge; the Fossoyeur rebuilds behind its back. Correct when what
was sold answers 402 or 410 for ever, and a deploy adds nothing false to what is
published.

**Catalogue and documents** (`app/x402_setup.py`, `retired_routes.py`,
`generated/`, `discovery.py`, `openapi_custom.py`, `accueil.py`,
`agent_trust_kit.py`, `capabilities.py`). State: the registry of generated
routes, the retired list. Hard: nine documents list routes, most by hand.

**Company leads** (`app/company_leads_worker.py`, `handlers/company_leads.py`,
`upstream/apify.py`). State: table `company_leads_jobs`; at Apify, paid runs.
Operations: create, start a run, record it, poll, give up after 280 s, fetch.
Hard: a start whose answer is lost, a run that ends after the deadline, errors
the job's own handler does not catch. Correct when leads come from the job's
own successful run, a recorded run is never repeated, and orders end.

**OpenRouter client and breakers** (`app/upstream/openrouter.py`,
`capacity.py`). State, in each process: the cached balance, the last good one,
a lock, one counter of bad readings, the limiter's window and its lock.
Operations: read, judge against a floor, admit or answer 503; wait for a turn.
Hard: many calls find the value expired at once; the counter is shared by routes
with different floors; a waiter sleeps inside the limiter's lock. Correct when one
call reads at a time, flaky readings of a funded account do not close the shop,
a balance that stays low does, and the upstream's rate is respected.

**Claude's budget and breaker** (`app/upstream/anthropic.py`,
`handlers/token_card.py`, `fact_check.py`). State: the tripped flag; the month's
cost is a SUM over `requests`. Hard: the SUM is read when a call starts, its row
is written when it ends. Correct when the overshoot is bounded by the calls in
flight.

**Usine and admin control** (`app/admin.py`, `scripts/fossoyeur.py`). State:
`agent_manual_runs`, `pc_requests`, `usine_loop_state`, `proposals`,
`route_repair_attempts`, the registry file. Hard: a row says what a task of a
container does and the container may stop; a late report of the PC; two cron
processes. Correct when no work is started twice, a retired route is not
served, nothing that costs money is approved without a click, and whatever stops
is taken up again.

**Marketplace worker** (`app/marketplace_worker.py`): a state file read at the
start of a cycle and written at its end; posts in between, whose answers may be
lost. **Chain payments sync** (`chain_payments.py`): `chain_payments` and
`chain_sync_state`; windows that shrink and grow, several RPC providers, two
processes at once. **Mesh and contact** (`handlers/agent_mesh.py`,
`contact.py`): three tables, hourly limits, SELECTs outside the transaction
that writes. **File registers** (`agent_claim.py`, `agent_salut.py`): two JSON
files, two containers, one written by rename and one in place.

Not modelled (section 7): the trust-kit validators, the dashboards, and the
compatibility layers other than the retired routes.

## 2. Plan

1. `PaidRoute` with `Sale`, the promise it refines: money is the system's
   reason to exist, and all routes share this stack. *Done, proved.*
2. `JobQueue` with the deploy, because both share the containers. *Done, proved.*
3. `BalanceBreaker`, `CompanyLeads`. *Done, proved.*
4. `Handlers`: every priced function through both doors. *Done, proved.*
5. `Checksums` and `Purecalc`. *Done; the checksums are proved.*
6. `Catalogue` and `Deploy`. *Done, proved.*
7. The operator's side: `ManualRuns`, `Usine`, `Proposals`, composed in `Office`.
   *Done, proved.*
8. Beside the routes: `Market`, `Ledger`, `Limiter`, `ClaudeBudget`, `Board`,
   `Registers`, composed in `Errands`. *Done, proved.*

Left: a definition without recursion of `money/allocate`, to prove that no cent is
lost below a float's significand; for `CompanyLeads`, what two containers still keep.

## 3. From the code to the models

**A step** is what one call, worker or script does between two suspension points.
Two writes without an `await` between them in one process are one step, unless
they touch tables that another container reads between the two. Merged on
purpose: the price preview and the `paid` row (adjacent statements; a gift in
between only makes the quote pessimistic); `created_at` and the insert of a
job; in `CompanyLeads`, a crash and the restart that follows it.

**Data** is reduced to what the properties distinguish. An authorisation is a
model value with a signer; verification, validation, upstream results and
health checks are nondeterministic verdicts; times are places in an order
(`created`), a date that changes (`Midnight`) or the three ages of the cached
balance.

**`PaidRoute`**

| State | Code |
| --- | --- |
| `pc`, `rail`, `auth` | where a request stands in the middleware stack, how it came, the payment it carries |
| `resp`, `quoted` | the answer and the price in its receipt |
| `log`, `today`, `seen`, `nonces` | `requests`, its rows of the current day, `seen_wallets`, `mpp_nonces` |
| `tx`, `spentBy` | the transfer and the contract's used authorisations |
| `granted` | settlements the first-call hook skipped |
| `protected` | whether the SDK's copy of the table has the route |

`Admit`/`RejectAtCapacity` are `CapacityGateMiddleware`; `CredentialAccepted`,
`Broadcast`, `MarkNonce` the MPP rail; `VerifySucceeds`, `HandlerSucceeds`,
`HookGrants`/`HookDeclines`, `Submit`, `Settled`, `SettlementFails` the x402
and MCP rails; `Mine`, `Revert`, `LoseAnswer`, `Abandon`, `Midnight` the
environment.

**`JobQueue`**: `status`, `created` are columns of `jobs`; `settled` is the
payment of the creating call; `worker`, `task` are the loop and its local
variable in each slot; `up`, `live`, `deploy` belong to `deploy.sh`, each of
whose exits is an action (`AbortDeploy`, `NginxRefuses`, `RollBack`,
`CompleteDeploy`). `runs` and `lost` are history variables.

**`BalanceBreaker`**: `value`, `age`, `bad`, `lock` are the module globals of
`openrouter.py` (the cache and the last good value are always set together, so
one value with an age stands for both); `pc`, `route`, `verdict` are the calls;
`failures`, `lowChecks`, `covered` are history variables. One process is
modelled: its globals are not shared with the other container. `asyncio.Lock`
is served in any order, which includes its FIFO order.

**`CompanyLeads`**: `status`, `created`, `rowRun` are columns; `worker`,
`task`, `held` the loop; `runJob`, `runState` the runs at Apify; `lost` a history variable.

**`Handlers`** is a table rather than one module per handler. `Sold` gives for
each of the seventy routes the steps of its lookup (a check of the input, an ask of
an upstream's tiers, an enrichment whose failure is tolerated) and, for each door,
what becomes of each exception. A helper both doors call is written once; where
the code repeats it, each door has its own. `world` is chosen once: what the
input or an upstream's answer makes a step raise, which tiers are down, whether
the payment settles. `call` plays both doors in that world, one step at a time.

**`Purecalc`** computes: one operator per route, digits as numbers, text as a
sequence of characters, floats as rationals (with a significand of `Mantissa`
bits where `money/allocate` divides floats; the crossing of `geo/point-in-polygon` is an exact
fraction, and the statement about tiles is about whole degrees only). `call` is any of the inputs of
`MCPurecalc`, `answer` the result. **`Checksums`** holds the routes that check an
identifier, apart because it declares no recursive operator and can be proved about:
the sums, spellings and remainders of its loops are recursive functions on the number of
characters read. `Codes` is what a route's input model accepts. `Purecalc` extends it,
and its `Handle` is one way of taking the step that `Checksums` calls `Elsewhere`.

**`Catalogue`** and **`Deploy`**. A version (`Builds`) is what differs between two
checkouts: for each edited route whether it works, is switched off by its flag,
moved to the retired list or deleted (`work`), and the status of each generated
route in the registry (`slugs`). Everything else is an operator of the version,
with the operations written out as the code's lists are: the tables
(`_build_route_configs_uncached`, `live_routes`, `RETIRED_ROUTES`), the handlers, what an
operation answers (`Answer`) and the links of each document, those the code publishes
in vain included. `Generated` documents follow the table, `llms.txt` and the tools follow
some of the flags, `Handwritten` ones follow nothing. `slot` is a process (starting,
ready) and the version it runs; the copies of the table a process takes while it starts
are not told apart, since one start-up reads them in the one order that `main.py` has. `step`
is where `deploy.sh` stands, `fossoyeur` where the Fossoyeur does. The sets `Checked`,
`check_catalog_completeness`, `Kept`, `Delivers` and `Truthful` evaluate a check or a
property once per version or pair of versions; TLC computes them at startup.
`Edit` leaves alone what is permanently in the retired registry.

**`ManualRuns`**: `row` is `agent_manual_runs`, `tasks` the asyncio tasks of the
container, `digger` the processes of `fossoyeur.py`, `registry` and `served` what
they change. **`Usine`**: `requests` in the order of their ids, `atWork` the PC,
`loop` the one row of `usine_loop_state`. **`Proposals`**: one row each; the click
and the creation are two commits.

**`Market`**: `file` is `marketplace_state.json`, `memo` what a cycle has in
memory, `posts` what reached the marketplace; `excused` collects what a lost
answer or a cut cycle lets the worker repeat. **`Ledger`**: `sync` is where each
process stands in its window, `rows` the table; `unseen` the blocks a provider
answered for without having them, which the code cannot know. **`Limiter`**: `calls`
is the deque, `waiter` the queue at the lock. **`ClaudeBudget`**: `call` is each
caller's place among the three generators, `logged` the SUM the gate reads.
**`Board`**: `desk` is a container between its SELECT and its write.
**`Registers`**: `clerk` is a container with a file in hand, `Torn` a file that does
not parse.

## 4. Runs

`CHECK_DEADLOCK FALSE` appears where a finite set of calls, jobs or edits is used
up and the system rightly stops.

| Run | Instance | Shows |
| --- | --- | --- |
| `x402` | 3 calls, 3 authorisations of 2 wallets, limit 1, 2 in flight, crashes | `ServedIsPaidFor`, `OneGrantPerWallet`, `FailureIsFree`, `OvershootBounded`, and the refinement `SellsAsPromised` |
| `rails` | 2 calls on any mix of x402, MPP, MCP, crashes and lost answers | `IncomeIsLogged`, `BurntNonceWasSent` across rails; `EveryCallAnswered` |
| `jobs` | 2 jobs, 2 slots, any sequence of deploys, crashes, failing writes | `StartsBounded`, `StartsInOrder`, `EndsStay`, `PositionOnlyFalls`, `EveryJobEnds` |
| `breaker` | 3 calls, 2 floors, an unchecked way in, the dashboard, 3 balances | `OneReader`, `FlakyReadsDoNotTrip`, `LowestIsEnforced`, `EveryCallIsJudged` |
| `leads` | 2 orders, 3 Apify runs, 1 worker, all faults | `ResultIsOwn`, `RecordedRunIsLast`, `EndsStay`, `EveryOrderEnds` |
| `handlers` | 70 routes, both doors, every exception, every set of failing tiers, both outcomes of the payment | `DoorsAgree`, `RowsTellWhatHappened`, `RefusedInputsAskNothing` |
| `algorithms` | published samples, small numbers, texts and documents | `ErrorsAreCaught`, `SamplesAreTrue`, `NothingIsLost`, `AnswersReadBack`, `RoutesAgree` |
| `office` | 3 edits of the checkout, 1 generated route, 2 slots; 2 runs of a role, 2 processes on the host; 2 requests to the PC, 2 proposals | `SoldIsPaidOrGone`, `DocumentsTellTheTruth`, `WorkIsDoneOnce`, `RecordsAreTrue`, `WorkComesBack` |
| `errands` | the instances of `Errands_errands.cfg` | `SaidOnce`, `NothingIsForgotten`, `LimitsHold` |
| `mpp_charge`, `doors` | the instances of `PaidRoute_mpp_charge.cfg`, `Handlers_doors.cfg` | violated: section 6 |
| `digger` | `Deploy`, one edited route, 2 edits | violated: section 6 |

**Bounds.** Three calls with two authorisations of one wallet and one of
another give each race at hand: two calls with one authorisation, two first
calls of one wallet, an unrelated one. A limit of 1 with two in flight makes the
gate overshoot; `MaxInFlight` bounds a number the program does not bound and
appears in the property. Two jobs give every race of two slots for one job and
for two. In `breaker` the threshold is 2, not the program's 3, so that three calls
reach it; the theorems hold for any threshold. Three Apify runs for two orders let
one start be repeated; `Runs` is a bound of the model only.

In `handlers` nothing is cut: the worlds are finite, and the only input that is
left out is the value of the data. In `office`, `Touched` is two of the routes sold by
hand. `research` has a paid upstream, a flag that `llms.txt` reads and a GET that lives by
the twins' list; `discover` has no flag and is what the checks overlook: no paid upstream,
and the one sample they do not fetch. Each property also
holds with one other route in `Touched`, for every kind of route there is, and the theorems
are for any set of them. Three edits make retire, change of mind
and deletion possible, one after another and each with or without a deploy
between. One generated route is enough, since the registry treats each by itself.
`UncheckedEdits` says whether the Fossoyeur may rebuild a checkout with an edit no
deploy has accepted; `office` assumes it does not, `digger` shows why that matters.
Two processes on the host are cron's daily run and a poll. Two PC requests show a
late report on the one before. In `errands`, `MaxPosts`, `MaxBlock`, `EndOfTime`,
`MaxSales`, `MaxRows`, `MaxVisits` bound counters: two posts of a thing are already
one too many, three blocks with windows of one or two give every overlap, six
ticks hold three periods of the limiter, five sales fill a budget of two twice,
three rows repeat a text in each container with one left.

**Fairness.** `PaidRoute`: weak fairness of each admitted call, since every
await ends by a client's timeout, and of the chain, which mines or drops what it
is sent. `JobQueue` and `CompanyLeads`: the loops poll for ever and every
upstream call has a timeout; strong fairness where a fault may interrupt, that
is, a container is not killed at the same point each time and a statement does
not fail each time. Nothing is assumed of Apify's runs: only the deadline ends
a wait. `BalanceBreaker`: strong fairness of a waiting call, since the lock is
handed on in order and a read ends within its 10 s timeout. `Office`: a script
that runs ends; cron starts the poller again and again and not every one of its
processes is killed (strong); five and twenty minutes pass; somebody opens the
dashboard again, without which nothing expires a request. The other runs check
safety only and have no fairness.

## 5. Proofs

All are safety properties, proved by an inductive invariant that TLC had found
to hold first, under the `ASSUME` of the module alone.

- `PaidRouteProofs`: `TypeOK`, then `SalesInv`. `ServedIsPaidFor` is not
  inductive: a step knows where the call stands, not what happened before, so
  `SalesInv` says for each place which rail leads there (`RailFitsPlace`),
  whether a transfer was submitted (`TransferFitsPlace`), whether the row exists
  (`RowFitsPlace`) and what an answer rests on (`AnswerFitsPlace`).
  `PreviewAgesOneWay` carries `GrantWasQuotedFree`: `seen_wallets` only grows,
  so a wallet the hook still favours was free when it was quoted.
  Result: `DeliveryIsPaid`, `GiftsAreSingle`, `IncomeHasARow`, `NonceIsBurntLast`.
  `GateInv` counts the day's paid calls together with the calls past the gate
  that may still write a row. Result: `OvershootIsBounded`, for any limit and any
  number of calls.
  Under `Rails` without `"mpp"` and `Faults` without `"lostAnswer"`, each step is
  a step of `Sale` or a stutter (`RouteKeepsItsPromise`), and failures are free
  (`FailureCostsNothing`). Both assumptions are needed: `mpp_charge` refutes the
  first, and a lost answer to a settlement that went through refutes the second.
- `JobQueueProofs`: `QueueInv`. `StartsBounded` needs `StartsCounted`, which
  adds to a job's starts the slots that have picked it and may still start it;
  `StartsInOrder` needs `PickIsOldest`: what a slot has picked stays the oldest
  queued job while its SELECT grows old, because rows arrive in order.
  `EndsStay` and `PositionOnlyFalls` except a job that was started twice, and a
  state alone does not say so: `RunsCounted` gives each slot that runs a job, and
  the end of an earlier run, a start of its own, so that whoever disturbs an end or
  gives a place back makes at least two (`ResultsStay`, `PositionsOnlyFall`).
- `BalanceBreakerProofs`: `BreakerInv`. `LockHeld` gives `OneReaderAtATime`;
  `BadAreFailures` (while the account covers every floor, the counter counts
  failures only) gives `FlakyReadsAreForgiven`; `LowIsCounted` (whoever resets
  the counter has seen a balance that covers the lowest floor) gives
  `LowestFloorIsEnforced`.
- `CompanyLeadsProofs`: `LeadsInv` for any number of containers gives
  `LeadsTypeCorrect` and `LeadsAreTheBuyersOwn`; with one container,
  `OneContainerInv` gives `RunsAreNotRepeated` and `EndedJobsStay`.
- `ErrandsProofs`, the limits: `LimitsAreKept`, that is, `LimitsHold` of the four parts that have
  a limit. None of them is inductive: a limit is checked, and what was let through
  is written later. `BazaarInv`: what the worker posted is remembered by the file
  or the cycle in hand, or excused, and the bids made and the bids left fit the
  day's limit. `QueueInv`: the deque remembers every call that is still in the
  window (`Remembered`: those since any recent moment are no more than the
  entries behind it), and the caller that sleeps inside the lock has its place
  (`SleeperHasItsPlace`). `PurseInv`: what is logged behind the gate and what the calls in
  flight have spent or may still spend without asking again stays below the
  budget plus two for each caller. `BoardsInv`: claims, repeated texts
  and writes of an hour, each together with the containers that have read and will
  write, are at most what is allowed and one per container.
- `ErrandsProofs`, the records: `NothingIsSaidTwice` (`SaidOnce`) and `NothingIsLost`
  (`NothingIsForgotten`), and `NoHoles` of `Ledger` by itself.
  `LedgerHasNoHoles` speaks of `lastBlock` only; `BooksInv` has `Swept`, which
  says the same of each process's cursor (`CoveredTo`), and of the window it is
  writing that each transfer is still in its hand or has its row (`Holds`);
  `Behind` keeps every cursor below the head, so that a new block disturbs nothing;
  `BooksAreTrue` adds that every row is a transfer of the chain. `FilesInv` says
  what a container with a file in hand still has in its copy (`ListingsAreCopied`,
  `VisitsAreCopied`): it writes the whole copy back.
- `OfficeProofs`, for `Office`: `NoWorkTwice` and `TablesTellTheTruth`. `RunsInv`:
  each task in the container is the run its row tells of, and the row says `running`
  (`TasksAreRows`). `RetiredIsNotServed`, `OnlyTheNewestWaits` of the PC's requests
  and `PaidSourcesNeedAHand` are inductive with the types of their parts. The assumption is that the fossoyeur is not
  one of the container's roles. `SlotsAreDeployed`: `Office` implements `Deploy`, so
  that what is proved of `Deploy` holds of `Office`.
- `OfficeProofs`, for `Deploy`: `SoldStaysSold` (`SoldIsPaidOrGone`) and `DocumentsStayTrue`
  (`DocumentsTellTheTruth`), by induction over deploys, edits and rebuilds in any
  number. What the live slot answers follows from what is known of the versions:
  `SlotsInv` says that every version that gets traffic works (`AllWork`), that the registry
  only grows from version to version (`Grows`) and that no retirement is forgotten
  (`RegistryKept`). A version works (`Working`) when each edited route is sold or withdrawn,
  or broken where no check looks (`Unseen`): a GET without a paid upstream, the
  sample of `discover`. Two lemmas about the code's checks carry the step: a version
  that passes them works if the one before did (`ChecksSuffice`), and what a working version
  listed, a later one sells or has retired (`StillSold`). For the documents, each list of
  links is shown to be `Sound`: honest, or among the links that are `Wrong` from the first
  version on (`WrongFirst`), or about an edited route; and where a list follows the
  table or a flag, it has no link about the edited routes that do (`FlagIsOff`,
  `LlmsDocument`, `ToolsDocument`).
  The hypothesis is `~UncheckedEdits`, and it is needed: `digger` refutes the first
  without it. What the two properties except, named in their statements (`Overlooked`, `LeftBehind`,
  and what the first version publishes in vain), is what the code does (section 6): a GET outside the paid modules may be given away, some links were never true, and
  lines written by hand about an edited route stay.
- `HandlersProofs`: `BothDoorsAgree` (`DoorsAgree`), `RowsAreTrue`
  (`RowsTellWhatHappened`) and `MistakesCostNothing` (`RefusedInputsAskNothing`). The
  table of handlers and the call are proved about apart. *The table*: every route
  `Fits`. Its steps are `Sound` (what a check finds is one of `Mistakes`, what a step
  raises is one of its route's errors or something `Strange`); the steps that may find a
  mistake come before those that ask anybody (`InOrder`: `Splits` names the place); the
  except clauses cover the route's errors (`Answers`) and leave a row (`Logs`); and each
  step of one door is a step of the other, or looks at the input for what a step of
  the other looks for (`Follows`). Most routes run one lookup behind both doors, so one
  lemma (`OneLookup`) takes them from the order of its steps to `Fits`; the thirty base
  routes and the seven classifiers are instances of one argument each; a tool that always
  fails (`RaisesLast`) or that checks other things than its handler (`TwoHeads`,
  `NamedFits`) has a lemma of its own. *The call*: `CallInv` says of each door that the
  steps it has passed found no fault in this world, that it has asked the upstreams of
  these steps only, and that its reply and row are those of the step it stands at
  (`Played`). No property is inductive without it: what a door may still do depends on
  what it has passed, and `DoorsAgree` compares two doors that stand at different steps.
  TLC checks `CallInv` too on the instance of the `handlers` run.
- `ChecksumProofs`: `TypingErrorsAreCaught` (`ErrorsAreCaught`), of `CheckSpec`, for
  identifiers of every length the routes accept. A recursive function is known to TLAPS
  as the choice of one that satisfies its equation: `StepwiseExists` constructs it by
  induction on the characters read (over a set of numbers, by a minimal counterexample:
  `Climb`), and `SumsAre`, `RemaindersAre` and `SpellingsAre` give the equations back.
  *Sums*: two that differ in one term differ by that term (`OneTermOff`), and the weights
  are units modulo 10 or 11, or the doubled digits a permutation (`LuhnCatches`).
  *Spellings*: one digit of an identifier is one digit of what it is spelled with
  (`SpelledTypo`), which gives ISINs. *Remainders*: multiplying by ten and adding the same
  digit keeps two remainders modulo 97 apart (`StayApart`), which gives IBANs and the swap
  of neighbours. The fourth and fifth characters of an IBAN are the last and the first
  once the number is turned round: exchanging them goes unnoticed only if a power of ten
  is 1 modulo 97, and none up to the 68 digits an IBAN can be spelled with is
  (`PowersAre`, `Mod97TellsEnds`).

Only model-checked: everything that must eventually happen (`EveryCallAnswered`,
`EveryJobEnds`, `EveryCallIsJudged`, `EveryOrderEnds`, `WorkComesBack`), since
liveness under fairness is out of the prover's reach; and the other properties of
`Purecalc` (`AnswersReadBack`, `NothingIsLost`, `RoutesAgree`), whose computations are
recursive, or speak of published samples (`SamplesAreTrue`).

## 6. Where the code and its documents disagree

Three are runs whose single property states what a comment, docstring or
signature says and which TLC refutes; `PROJECT.json` quotes the lines.

- `mpp_charge`: the MPP rail settles before the handler runs, so its 422 or 504
  is paid for; the engines promise a free error.
- `doors`: the MCP tool `search` calls its batch helper with two arguments and
  unpacks two results, the helper takes three and returns four: a list of queries,
  which the tool's signature declares, is always an error.
- `digger`: the Fossoyeur rebuilds the whole checkout, so an edit that a deploy
  refused goes live, and a route that was sold is lost without being retired.

The others have no run. Where one of them touches a property of a passing run, the
property excepts that case, and it alone, in its statement; the comment above it says so.
Those of the documents and the computations are these.

- From `SoldIsPaidOrGone` (`Overlooked`): a route that leaves the twins' list keeps its GET
  handler. If its module calls no paid upstream (`jobs`, `pdf`, `company-leads`, `discover` and
  others) every check of `deploy.sh` passes and the handler answers unpaid, while
  `check_payment_enforcement.py:97` reports that nothing is delivered unpaid.
- From `DocumentsTellTheTruth` (what the first version publishes in vain): `accueil.py:312` and
  `docs/CARTOGRAPHIE.md:106` call `GET /discover` free, the twin loop prices it (the OpenAPI
  document prices it rightly; the docstring at `openapi_custom.py:310` is wrong).
  `main.py:250-252` mounts an application that shadows `/mcp/relationship-memory` and
  `/mcp/coordination-thread`, which the discovery documents, the trust kit and the reception
  hall publish. `discovery.py:1148` and `agent_trust_kit.py:42` link to pages without a
  handler. `openapi_custom.py` has no schema for `token-card`, so its two operations are
  published without a price.
- From the same (`LeftBehind`): `llms.txt` reads three of the flags, so that a classifier that
  has been switched off and withdrawn is still listed as a paid URL, which answers 410; and the
  documents written by hand keep their lines about a route that is gone.
- From `AnswersReadBack`: `geo/dms` may answer 60.0 seconds, which its own input model refuses
  (`geo.py:250`); camel, pascal and constant case do not keep where the words begin.
- From `RoutesAgree`: `json/schema-infer` reads the first element of an array only, so that a
  document with a mixed array does not fit the schema inferred from it; of a constant y the
  correlation is refused and the regression has r squared 1; the crossing of
  `geo/point-in-polygon` is rounded, so that in parts of a degree a point on a side that two
  tiles share may be in both or in neither.
- From `NothingIsLost`: `money/allocate` divides floats (`units.py:326-330`) and the parts do not
  add up to the amount beyond a float's significand.

Also seen while modelling; where a property excuses one of these, its comment says so too.

*Payments and queues.* The MPP result and its receipt leave once the transfer is
submitted (`mpp.py:294`), though the docstring promises a confirmed receipt. A
job's row is visible to the worker before its payment settles (`handlers/jobs.py:69`).
A deploy aborted before the cutover can leave a job `running` with no worker. A
check of a lower floor resets the counter that a higher floor's checks have raised.
Two first calls of a wallet are both quoted free and one is charged. MCP calls count
towards a route's daily capacity but are not held by it; GET and MCP orders of a job
pass by the breaker; `GET /token-card` and `/fact-check` are not held by the budget's gate.
A start request that times out after Apify has started the run leads to a second
paid run. `chain_payments` has one row per transaction: its second transfer to the
wallet is dropped.

*Handlers.* The `fact_check` tool unpacks four of the five values of its helper;
`agent_health` has no `except` clause in its tool; `agent_claim` logs no failure;
`guard` and `verify` index Jev's answer after the `paid` row is written;
`token_risk.py:453-466` forbids `acceptable` while a signal is
missing, and nothing but the prompt sees to it; an ERC-20
balance at an address without code is 0. A `*_ENABLED` flag that is off takes a
route out of the table but not its handler, which then answers free unless the
path is in `HAND_RETIRED_ROUTES`.

*Computations.* Two neighbouring characters of an IBAN that are spelled alike (`1B` and
`B1`) can be exchanged unnoticed; `json/diff` takes `true` for 1; `json/flatten` loses a key
that holds a dot; `slug` accepts an empty separator; `roman` accepts `IC` and the empty string.

*Catalogue and documents.* `probe_catalog_health.py:56-58`
expects a GET 402 of routes that only take POST. Retiring a generated route
whose slug is the first segment of others (`text`) makes all of them answer 410
(`retired_routes.py:67`), and the gate accepts it. The completeness check
compares paths, not methods, and only with the version being replaced. The Fossoyeur's
`up -d` restarts the live slot. `scripts/controleur.py:3` and
`usine/README.md:9` say that the controleur checks all routes; the process cron
starts has not imported the engines' ones.

*Stores.* A late status revives a request of the PC that had timed out. The mesh
counts the calls of its tools and never stops them. The trust kit does not enforce
two limits of its schemas (`minLength`, the maximum), takes `true` for an integer and
answers 500 to `exchanges: null`.

## 7. What is not modelled, and why

Wording, headers, receipts: no property is about them. Signature checks, prices and
upstream answers: nondeterministic verdicts stand for them. The text pipeline of a
job: one step with two outcomes.

- The trust-kit validators (`coordination_thread.py`, `relationship_memory.py`, `tool_digest.py` and
  their like): stateless
  comparisons of a document with constants, each its own reference.
- The dashboards and statistics of `admin.py` and `db.py`: read-only queries and HTML.
- The schemas, samples and prices of `x402_setup.py` and `openapi_custom.py`: data.
- Ranking and extraction in `search_sources.py`, `websearch.py`, `webfetch.py`, the
  encoding of Base calls: tiers that answer or fail stand for them in `Handlers`.
- `payment_body_compat.py`, `mcp_accept_compat.py`, `client_ip.py`: each rewrites one
  header or body and keeps nothing.
- Purecalc routes that hand their input to a library (hashes, regexes, JSONPath,
  time zones, trigonometry).
- Reorganisations of the chain: `chain_payments.py` does not handle them.
- Two loops of the marketplace worker during a deploy (`marketplace_worker.py:427`):
  both would read one state file; `Market` has one loop.
- A listing of `agent_claim` is written before its settlement (`agent_claim.py:119`).
