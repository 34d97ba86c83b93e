-------------------------------- MODULE Market --------------------------------
(***************************************************************************)
(* app/marketplace_worker.py: every five minutes the loop of a container   *)
(* reads the state file, posts what the file says has not been posted, and *)
(* writes the file at the end of the cycle.  The marketplace is outside    *)
(* the repository: it takes every post, and its answer may be lost.        *)
(***************************************************************************)
EXTENDS Integers, FiniteSetsExt

CONSTANTS
    Offers,         \* jobs of the marketplace that _eligible accepts
    Demands,        \* requests for our listing
    Contracts,      \* contracts whose escrow is locked
    DailyBidLimit,  \* settings.daily_bid_limit
    MaxPosts        \* bound: posts of one kind to one thing

MarketConstants ==
    /\ DailyBidLimit \in Nat /\ MaxPosts \in Nat \ {0}
    /\ IsFiniteSet(Offers)
    /\ {"listing", "intro"} \cap (Offers \cup Demands \cup Contracts) = {}
    /\ Offers \cap Demands = {} /\ Offers \cap Contracts = {} /\ Demands \cap Contracts = {}

Things == {"listing", "intro"} \cup Offers \cup Demands \cup Contracts

VARIABLES
    file,       \* the things marketplace_state.json says are done
    memo,       \* what the running cycle has in memory
    cycle,      \* where it stands
    page,       \* whether its reads of jobs, bids and contracts were answered
    posts,      \* at the marketplace: how often each thing was posted
    today,      \* the offers bid on since midnight, answered or not
    left,       \* bids the running cycle may still place
    tried,      \* contracts it has worked on
    excused     \* history: things that a fault lets the worker repeat

marketVars == <<file, memo, cycle, page, posts, today, left, tried, excused>>

Stages == {"asleep", "listing", "accepting", "intro", "bidding", "contracts"}
Reads == {"none", "jobs", "bids", "contracts"}  \* how far the three reads came

TypeOK ==
    /\ file \subseteq Things
    /\ memo \subseteq Things
    /\ cycle \in Stages
    /\ page \in Reads
    /\ posts \in [Things -> 0..MaxPosts]
    /\ today \subseteq Offers
    /\ left \in 0..DailyBidLimit
    /\ tried \subseteq Contracts
    /\ excused \subseteq Things

Init ==
    /\ file = {}
    /\ memo = {}
    /\ cycle = "asleep"
    /\ page = "none"
    /\ posts = [x \in Things |-> 0]
    /\ today = {}
    /\ left = 0
    /\ tried = {}
    /\ excused = {}

-----------------------------------------------------------------------------
(* The start of a cycle: the file, then what the marketplace says of us.   *)

Placed == {x \in Offers : posts[x] > 0}

\* Mutant of Recalled: the file alone
RecalledFromFile(reads) == file

\* A bid the marketplace shows is remembered though the file has forgotten it
Recalled(reads) == file \cup IF reads \in {"bids", "contracts"} THEN Placed ELSE {}
Allowance(known) == Max({0, DailyBidLimit - Cardinality(known \cap today)})

Wake(reads) ==
    /\ cycle = "asleep"
    /\ page' = reads
    /\ memo' = Recalled(reads)
    /\ left' = Allowance(Recalled(reads))
    /\ tried' = {}
    /\ cycle' = "listing"
    /\ excused' = excused \cup IF reads = "jobs" THEN Placed \ file ELSE {}
    /\ UNCHANGED <<file, posts, today>>

\* A post counts at the marketplace whether or not its answer arrives
Posted(x) ==
    /\ posts[x] < MaxPosts
    /\ posts' = [posts EXCEPT ![x] = @ + 1]

Remember(x) == memo' = memo \cup {x}
Advance(stage) == cycle' = stage

-----------------------------------------------------------------------------
(* The supply side: the first failure skips the rest of it.                *)

\* The marketplace's own list is asked, not the file
EnsureListing ==
    /\ cycle = "listing"
    /\ \/ posts["listing"] > 0 /\ UNCHANGED posts /\ Advance("accepting")
       \/ posts["listing"] = 0 /\ Posted("listing") /\ (Advance("accepting") \/ Advance("bidding"))
    /\ UNCHANGED <<file, memo, page, today, left, tried, excused>>

\* A demand is remembered whatever its answer
AcceptDemand(x) ==
    /\ cycle = "accepting"
    /\ x \in Demands \ memo
    /\ Posted(x) \/ UNCHANGED posts
    /\ Remember(x)
    /\ UNCHANGED <<file, cycle, page, today, left, tried, excused>>

DemandsDone ==
    /\ cycle = "accepting"
    /\ Demands \subseteq memo
    /\ Advance("intro")
    /\ UNCHANGED <<file, memo, page, posts, today, left, tried, excused>>

\* An answer that is lost leaves intro_posted unset
Introduce ==
    /\ cycle = "intro"
    /\ \/ "intro" \in memo /\ UNCHANGED <<posts, memo, excused>>
       \/ "intro" \notin memo /\ Posted("intro") /\ Remember("intro") /\ UNCHANGED excused
       \/ "intro" \notin memo /\ Posted("intro") /\ excused' = excused \cup {"intro"} /\ UNCHANGED memo
    /\ Advance("bidding")
    /\ UNCHANGED <<file, page, today, left, tried>>

SupplyFails ==
    /\ cycle \in {"listing", "accepting", "intro"}
    /\ Advance("bidding")
    /\ UNCHANGED <<file, memo, page, posts, today, left, tried, excused>>

-----------------------------------------------------------------------------
(* Bids, then contracts, then the file.                                    *)

\* An answer that is an error is remembered like a bid, and never tried again
Bid(x) ==
    /\ cycle = "bidding"
    /\ page # "none" /\ x \in Offers \ memo
    /\ left > 0
    /\ Posted(x) \/ UNCHANGED posts
    /\ today' = today \cup {x}
    /\ left' = left - 1
    /\ Remember(x)
    /\ UNCHANGED <<file, cycle, page, tried, excused>>

BidsDone ==
    /\ cycle = "bidding"
    /\ page = "none" \/ Offers \subseteq memo \/ left = 0
    /\ Advance("contracts")
    /\ UNCHANGED <<file, memo, page, posts, today, left, tried, excused>>

\* START_WORK, the reads and the deliverable; then SUBMIT_WORK, which has to
\* be answered for the contract to be remembered.  What fails before the
\* deliverable, or has no key, leaves the contract for another cycle.
Deliver(x, submitted) ==
    /\ cycle = "contracts"
    /\ page = "contracts" /\ x \in Contracts \ (memo \cup tried)
    /\ Posted(x)
    /\ tried' = tried \cup {x}
    /\ IF submitted THEN Remember(x) /\ UNCHANGED excused
                    ELSE excused' = excused \cup {x} /\ UNCHANGED memo
    /\ UNCHANGED <<file, cycle, page, today, left>>

\* What the cycle had in memory is gone
Sleep ==
    /\ Advance("asleep")
    /\ memo' = {} /\ page' = "none" /\ left' = 0 /\ tried' = {}

Save ==
    /\ cycle = "contracts"
    /\ file' = memo
    /\ Sleep
    /\ UNCHANGED <<posts, today, excused>>

\* The container stops, or an exception leaves _collect_and_act: nothing of
\* the cycle reaches the file.  Bids can be read back from the marketplace.
CycleIsCut ==
    /\ cycle # "asleep"
    /\ Sleep
    /\ excused' = excused \cup (memo \ (file \cup Offers))
    /\ UNCHANGED <<file, posts, today>>

Midnight ==
    /\ today # {}
    /\ today' = {}
    /\ UNCHANGED <<file, memo, cycle, page, posts, left, tried, excused>>

Next ==
    \/ \E reads \in Reads : Wake(reads)
    \/ EnsureListing \/ DemandsDone \/ Introduce \/ SupplyFails
    \/ BidsDone \/ Save \/ CycleIsCut
    \/ \E x \in Demands : AcceptDemand(x)
    \/ \E x \in Offers : Bid(x)
    \/ \E x \in Contracts, submitted \in BOOLEAN : Deliver(x, submitted)
    \/ Midnight

-----------------------------------------------------------------------------
\* Nothing is posted twice, unless the answer to a post was lost, a cycle was
\* cut between a post and its Save (a bid needs a failing read of our bids on
\* top of that).
NothingPostedTwice == \A x \in Things : posts[x] > 1 => x \in excused

\* The bids of a day stay within the limit, with the same exceptions.
BidsWithinTheDay ==
    Cardinality({x \in today \ excused : posts[x] > 0}) <= DailyBidLimit
=============================================================================
