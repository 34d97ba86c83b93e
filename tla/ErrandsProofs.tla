---------------------------- MODULE ErrandsProofs ----------------------------
(***************************************************************************)
(* What holds of Errands for every value of its constants.                 *)
(*                                                                         *)
(* The limits: the bids of a day, the calls in a period, the dollars in a  *)
(* month, the writes in an hour.  Each of the four parts keeps a sum: what *)
(* was done and what is in flight with leave to be done, counted together, *)
(* stay within the limit.  The property itself forgets what is in flight,  *)
(* and is not inductive.                                                   *)
(*                                                                         *)
(* The records: the copy of the seller's transfers has no holes and no     *)
(* rows that are not true, and the registers in files lose nothing while   *)
(* the containers take turns.  A sync that is under way has covered every  *)
(* block before its cursor, and of the window it writes it holds what has  *)
(* no row yet; a container that has a file in hand has all of it.  With    *)
(* the invariants of the limits that is what SaidOnce and                  *)
(* NothingIsForgotten need.                                                *)
(***************************************************************************)
EXTENDS Errands, SequenceTheorems, FiniteSetTheorems, TLAPS

-----------------------------------------------------------------------------
(* Counting.                                                               *)

\* One more element
LEMMA Plus == ASSUME NEW S, NEW x, IsFiniteSet(S)
              PROVE  /\ IsFiniteSet(S \cup {x})
                     /\ Cardinality(S) \in Nat /\ Cardinality(S \cup {x}) \in Nat
                     /\ Cardinality(S \cup {x}) <= Cardinality(S) + 1
                     /\ x \notin S => Cardinality(S \cup {x}) = Cardinality(S) + 1
                     /\ x \in S => Cardinality(S \cup {x}) = Cardinality(S)
<1>1. IsFiniteSet(S \cup {x}) /\ Cardinality(S) \in Nat /\ Cardinality(S \cup {x}) \in Nat
  BY FS_AddElement, FS_CardinalityType
<1>2. CASE x \in S
  <2>1. Cardinality(S \cup {x}) = Cardinality(S)
    BY <1>2, FS_AddElement
  <2> QED BY <1>1, <1>2, <2>1
<1>3. CASE x \notin S
  <2>1. Cardinality(S \cup {x}) = Cardinality(S) + 1
    BY <1>3, FS_AddElement
  <2> QED BY <1>1, <1>3, <2>1
<1> QED BY <1>2, <1>3

\* One element less
LEMMA Minus == ASSUME NEW S, NEW x \in S, IsFiniteSet(S)
               PROVE  /\ IsFiniteSet(S \ {x})
                      /\ Cardinality(S) \in Nat /\ Cardinality(S \ {x}) \in Nat
                      /\ Cardinality(S \ {x}) = Cardinality(S) - 1
BY FS_RemoveElement, FS_CardinalityType

\* One element for another
LEMMA Swap == ASSUME NEW S, NEW x \in S, NEW y, y \notin S \ {x}, IsFiniteSet(S)
              PROVE  /\ IsFiniteSet((S \ {x}) \cup {y})
                     /\ Cardinality((S \ {x}) \cup {y}) = Cardinality(S)
<1>1. IsFiniteSet(S \ {x}) /\ Cardinality(S \ {x}) = Cardinality(S) - 1 /\ Cardinality(S) \in Nat
  BY Minus
<1>2. IsFiniteSet((S \ {x}) \cup {y}) /\ Cardinality((S \ {x}) \cup {y}) = Cardinality(S \ {x}) + 1
  BY <1>1, Plus
<1> QED BY <1>1, <1>2

\* A part of a finite set
LEMMA Part == ASSUME NEW S, NEW T, IsFiniteSet(S), T \subseteq S
              PROVE  /\ IsFiniteSet(T) /\ Cardinality(T) \in Nat /\ Cardinality(S) \in Nat
                     /\ Cardinality(T) <= Cardinality(S)
BY FS_Subset, FS_CardinalityType

-----------------------------------------------------------------------------
(* The marketplace worker.                                                 *)

\* What the worker knows when it acts next
Remembers == IF cycle = "asleep" THEN file ELSE memo
\* The bids of the day that count
Bids == {x \in today \ excused : posts[x] > 0}

\* A post has been remembered, or a fault excuses its being repeated
PostsAreKnown ==
    /\ posts["listing"] <= 1
    /\ \A x \in {"intro"} \cup Demands \cup Contracts : posts[x] > 0 => x \in Remembers \cup excused
    /\ page # "none" => \A x \in Offers : posts[x] > 0 => x \in memo \cup excused
BidsAreCounted ==
    /\ Cardinality(Bids) <= DailyBidLimit
    /\ page # "none" => Cardinality(Bids) + left <= DailyBidLimit
BazaarInv == PostsAreKnown /\ Bazaar!NothingPostedTwice /\ BidsAreCounted

\* The worker counts as this module does
LEMMA BazaarCounts == \A S : /\ Bazaar!IsFiniteSet(S) <=> IsFiniteSet(S)
                            /\ Bazaar!Cardinality(S) = Cardinality(S)
BY DEF Bazaar!IsFiniteSet, Bazaar!Cardinality, IsFiniteSet, Cardinality

\* What the worker assumes of its constants
LEMMA BazaarConstants ==
    /\ DailyBidLimit \in Nat /\ MaxPosts \in Nat \ {0}
    /\ IsFiniteSet(Offers)
    /\ "listing" \notin Offers \cup Demands \cup Contracts
    /\ "intro" \notin Offers \cup Demands \cup Contracts
    /\ Offers \cap Demands = {} /\ Offers \cap Contracts = {} /\ Demands \cap Contracts = {}
BY ErrandsConstants, BazaarCounts DEF Bazaar!MarketConstants

\* The bids of a day can be counted
LEMMA BidsAreFinite == ASSUME Bazaar!TypeOK PROVE
    IsFiniteSet(Bids) /\ Cardinality(Bids) \in Nat
<1>1. Bids \subseteq Offers
  BY DEF Bids, Bazaar!TypeOK
<1> QED BY <1>1, Part, BazaarConstants

\* No more bids, and no larger allowance
LEMMA NoMoreBids ==
    ASSUME Bazaar!TypeOK, BidsAreCounted, Bids' \subseteq Bids, left' \in Nat,
           page' = "none" \/ (page' = page /\ left' <= left)
    PROVE  BidsAreCounted'
<1>1. IsFiniteSet(Bids) /\ Cardinality(Bids) \in Nat
  BY BidsAreFinite
<1>2. Cardinality(Bids') <= Cardinality(Bids) /\ Cardinality(Bids') \in Nat
  BY <1>1, Part
<1>3. left \in Nat
  BY BazaarConstants DEF Bazaar!TypeOK
<1> QED BY <1>1, <1>2, <1>3, BazaarConstants DEF BidsAreCounted

\* A post that may not be repeated is not
LEMMA PostKeeps ==
    ASSUME Bazaar!TypeOK, Bazaar!NothingPostedTwice, NEW x \in Bazaar!Things, Bazaar!Posted(x),
           posts[x] > 0 => x \in excused, excused \subseteq excused'
    PROVE  /\ posts' \in [Bazaar!Things -> 0..MaxPosts]
           /\ Bazaar!NothingPostedTwice'
           /\ posts'[x] = posts[x] + 1 /\ posts'[x] > 0
           /\ \A y \in Bazaar!Things : y # x => posts'[y] = posts[y]
<1>1. posts \in [Bazaar!Things -> 0..MaxPosts] /\ posts[x] < MaxPosts /\ posts' = [posts EXCEPT ![x] = @ + 1]
  BY DEF Bazaar!TypeOK, Bazaar!Posted
<1>2. posts[x] \in 0..MaxPosts /\ posts[x] + 1 \in 0..MaxPosts
  BY <1>1, BazaarConstants
<1>3. /\ posts' \in [Bazaar!Things -> 0..MaxPosts]
      /\ posts'[x] = posts[x] + 1 /\ \A y \in Bazaar!Things : y # x => posts'[y] = posts[y]
  BY <1>1, <1>2
<1>4. ASSUME NEW y \in Bazaar!Things, posts'[y] > 1 PROVE y \in excused'
  BY <1>2, <1>3, <1>4 DEF Bazaar!NothingPostedTwice
<1> QED BY <1>2, <1>3, <1>4 DEF Bazaar!NothingPostedTwice

\* Nothing is posted
LEMMA NoPostKeeps ==
    ASSUME Bazaar!NothingPostedTwice, posts' = posts, excused \subseteq excused'
    PROVE  Bazaar!NothingPostedTwice'
BY DEF Bazaar!NothingPostedTwice

\* The start: nothing was posted
LEMMA BazaarStarts == Bazaar!Init => Bazaar!TypeOK /\ BazaarInv
<1> SUFFICES ASSUME Bazaar!Init PROVE Bazaar!TypeOK /\ BazaarInv
  OBVIOUS
<1> USE BazaarConstants
<1>1. \A x \in Bazaar!Things : posts[x] = 0
  BY DEF Bazaar!Init
<1>2. Bazaar!TypeOK
  BY DEF Bazaar!Init, Bazaar!TypeOK, Bazaar!Stages, Bazaar!Reads
<1>3. PostsAreKnown /\ Bazaar!NothingPostedTwice
  <2>1. \A x \in Bazaar!Things : ~(posts[x] > 0) /\ ~(posts[x] > 1) /\ posts[x] <= 1
    BY <1>1
  <2>2. "listing" \in Bazaar!Things /\ {"intro"} \cup Demands \cup Contracts \subseteq Bazaar!Things
        /\ Offers \subseteq Bazaar!Things
    BY DEF Bazaar!Things
  <2> QED BY <2>1, <2>2 DEF PostsAreKnown, Bazaar!NothingPostedTwice
<1>4. Bids = {}
  BY DEF Bazaar!Init, Bids
<1>5. BidsAreCounted
  BY <1>4, FS_EmptySet DEF BidsAreCounted, Bazaar!Init
<1> QED BY <1>2, <1>3, <1>5 DEF BazaarInv

\* A cycle starts with the file and what the marketplace shows
LEMMA WakeKeeps ==
    ASSUME Bazaar!TypeOK, BazaarInv, NEW reads \in Bazaar!Reads, Bazaar!Wake(reads)
    PROVE  Bazaar!TypeOK' /\ BazaarInv'
<1> USE BazaarConstants
<1> DEFINE known == Bazaar!Recalled(reads)
           n == Cardinality(known \cap today)
           forgotten == IF reads = "jobs" THEN Bazaar!Placed \ file ELSE {}
<1>1. /\ cycle = "asleep" /\ page' = reads /\ memo' = known /\ tried' = {} /\ cycle' = "listing"
      /\ excused' = excused \cup forgotten
      /\ UNCHANGED <<file, posts, today>>
      /\ left' = Bazaar!Max({0, DailyBidLimit - n})
  BY BazaarCounts DEF Bazaar!Wake, Bazaar!Allowance
<1>2. Bazaar!Placed \subseteq Offers /\ forgotten \subseteq Offers /\ Offers \subseteq Bazaar!Things
  BY DEF Bazaar!Placed, Bazaar!Things
<1>3. known \subseteq Bazaar!Things /\ file \subseteq known
  BY <1>2 DEF Bazaar!Recalled, Bazaar!TypeOK
<1>4. /\ IsFiniteSet(known \cap today) /\ n \in Nat /\ IsFiniteSet(today)
  <2>1. today \subseteq Offers
    BY DEF Bazaar!TypeOK
  <2> QED BY <2>1, Part
<1> HIDE DEF n
<1>5. left' = IF DailyBidLimit - n >= 0 THEN DailyBidLimit - n ELSE 0
  <2> DEFINE m == IF DailyBidLimit - n >= 0 THEN DailyBidLimit - n ELSE 0
             S == {0, DailyBidLimit - n}
  <2>1. m \in S /\ \A y \in S : m >= y
    BY <1>4
  <2>2. \A x \in S : (\A y \in S : x >= y) => x = m
    BY <1>4
  <2> HIDE DEF m, S
  <2>3. (CHOOSE x \in S : \A y \in S : x >= y) = m
    BY <2>1, <2>2
  <2> QED BY <1>1, <2>3 DEF Bazaar!Max, S, m
<1>6. left' \in 0..DailyBidLimit
  BY <1>4, <1>5
<1> HIDE DEF known, forgotten
<1>7. Bazaar!TypeOK'
  <2>1. excused' \subseteq Bazaar!Things
    BY <1>1, <1>2 DEF Bazaar!TypeOK
  <2> QED BY <1>1, <1>3, <1>6, <2>1 DEF Bazaar!TypeOK, Bazaar!Stages
<1>8. \A x \in Offers : posts[x] > 0 /\ reads # "none" => x \in known \cup excused'
  BY <1>1 DEF known, forgotten, Bazaar!Recalled, Bazaar!Placed, Bazaar!Reads
<1>9. PostsAreKnown'
  BY <1>1, <1>3, <1>8 DEF BazaarInv, PostsAreKnown, Remembers
<1>10. Bazaar!NothingPostedTwice'
  BY <1>1, NoPostKeeps DEF BazaarInv
<1>11. BidsAreCounted'
  <2>1. Bids' \subseteq Bids
    BY <1>1 DEF Bids
  <2>2. CASE reads = "none"
    BY <1>1, <1>6, <2>1, <2>2, NoMoreBids DEF BazaarInv
  <2>3. CASE reads # "none"
    <3>1. Bids' \subseteq known \cap today
      BY <1>1, <1>8, <2>3 DEF Bids, Bazaar!TypeOK
    <3>2. Cardinality(Bids') <= n /\ Cardinality(Bids') \in Nat
      BY <1>4, <3>1, Part DEF n
    <3>3. Cardinality(Bids') <= Cardinality(Bids) /\ Cardinality(Bids) \in Nat
      BY <2>1, BidsAreFinite, Part
    <3>4. Cardinality(Bids) <= DailyBidLimit
      BY DEF BazaarInv, BidsAreCounted
    <3>5. Cardinality(Bids') + left' <= DailyBidLimit
      BY <1>4, <1>5, <3>2, <3>3, <3>4
    <3> QED BY <3>2, <3>3, <3>4, <3>5 DEF BidsAreCounted
  <2> QED BY <2>2, <2>3
<1> QED BY <1>7, <1>9, <1>10, <1>11 DEF BazaarInv

\* Steps that neither post nor touch a bid
LEMMA QuietSteps ==
    ASSUME Bazaar!TypeOK, BazaarInv, UNCHANGED posts, file' \subseteq Bazaar!Things,
           today' \subseteq today, excused \subseteq excused', excused' \subseteq Bazaar!Things,
           cycle' \in Bazaar!Stages, memo' \subseteq Bazaar!Things, tried' \subseteq Contracts,
           Remembers \subseteq Remembers' \cup excused' \cup Offers,
           \/ page' = "none" /\ left' = 0
           \/ page' = page /\ left' = left /\ memo \subseteq memo'
    PROVE  Bazaar!TypeOK' /\ BazaarInv'
<1> USE BazaarConstants
<1>1. Bazaar!TypeOK'
  BY DEF Bazaar!TypeOK, Bazaar!Reads
<1>2. Bids' \subseteq Bids
  BY DEF Bids
<1>3. left' \in Nat /\ (page' = "none" \/ (page' = page /\ left' <= left))
  BY DEF Bazaar!TypeOK
<1>4. BidsAreCounted'
  BY <1>2, <1>3, NoMoreBids DEF BazaarInv
<1>5. Bazaar!NothingPostedTwice'
  BY NoPostKeeps DEF BazaarInv
<1>6. PostsAreKnown'
  <2>1. \A x \in {"intro"} \cup Demands \cup Contracts : posts[x] > 0 => x \in Remembers' \cup excused'
    BY DEF BazaarInv, PostsAreKnown
  <2>2. page' # "none" => \A x \in Offers : posts[x] > 0 => x \in memo' \cup excused'
    BY DEF BazaarInv, PostsAreKnown
  <2> QED BY <2>1, <2>2 DEF BazaarInv, PostsAreKnown
<1> QED BY <1>1, <1>4, <1>5, <1>6 DEF BazaarInv

\* A post of the running cycle, of something it does not remember, is remembered
\* or excused
LEMMA PostSteps ==
    ASSUME Bazaar!TypeOK, BazaarInv, NEW x \in Bazaar!Things, Bazaar!Posted(x),
           cycle # "asleep", cycle' \in Bazaar!Stages \ {"asleep"}, UNCHANGED <<file, page>>,
           \/ x = "listing" /\ posts[x] = 0
           \/ x # "listing" /\ x \notin memo /\ x \in memo' \cup excused',
           x \in Offers => page # "none",
           memo \subseteq memo', memo' \subseteq Bazaar!Things,
           excused \subseteq excused', excused' \subseteq Bazaar!Things,
           tried' \subseteq Contracts, today' \subseteq Offers, left' \in 0..DailyBidLimit,
           BidsAreCounted'
    PROVE  Bazaar!TypeOK' /\ BazaarInv'
<1> USE BazaarConstants
<1>1. posts[x] > 0 => x \in excused
  BY DEF BazaarInv, PostsAreKnown, Remembers, Bazaar!Things
<1>2. /\ posts' \in [Bazaar!Things -> 0..MaxPosts] /\ Bazaar!NothingPostedTwice'
      /\ posts'[x] = posts[x] + 1
      /\ \A y \in Bazaar!Things : y # x => posts'[y] = posts[y]
  BY <1>1, PostKeeps DEF BazaarInv
<1>3. Bazaar!TypeOK'
  BY <1>2 DEF Bazaar!TypeOK
<1>4. posts'["listing"] <= 1
  BY <1>2 DEF BazaarInv, PostsAreKnown, Bazaar!Things
<1>5. \A y \in {"intro"} \cup Demands \cup Contracts : posts'[y] > 0 => y \in Remembers' \cup excused'
  <2> TAKE y \in {"intro"} \cup Demands \cup Contracts
  <2>1. y \in Bazaar!Things /\ y # "listing"
    BY DEF Bazaar!Things
  <2>2. CASE y = x
    BY <2>1, <2>2 DEF Remembers
  <2>3. CASE y # x
    BY <1>2, <2>1, <2>3 DEF BazaarInv, PostsAreKnown, Remembers
  <2> QED BY <2>2, <2>3
<1>6. page' # "none" => \A y \in Offers : posts'[y] > 0 => y \in memo' \cup excused'
  <2> SUFFICES ASSUME page # "none", NEW y \in Offers, posts'[y] > 0 PROVE y \in memo' \cup excused'
    OBVIOUS
  <2>1. y \in Bazaar!Things /\ y # "listing"
    BY DEF Bazaar!Things
  <2>2. CASE y = x
    BY <2>1, <2>2
  <2>3. CASE y # x
    BY <1>2, <2>1, <2>3 DEF BazaarInv, PostsAreKnown
  <2> QED BY <2>2, <2>3
<1> QED BY <1>2, <1>3, <1>4, <1>5, <1>6 DEF BazaarInv, PostsAreKnown

\* What is posted is not a bid
LEMMA NotABid ==
    ASSUME Bazaar!TypeOK, BazaarInv, NEW x \in Bazaar!Things \ Offers, Bazaar!Posted(x),
           UNCHANGED <<page, left, today>>, excused \subseteq excused'
    PROVE  BidsAreCounted'
<1> USE BazaarConstants
<1>1. \A y \in Offers : posts'[y] = posts[y]
  BY DEF Bazaar!Posted, Bazaar!TypeOK, Bazaar!Things
<1>2. Bids' \subseteq Bids
  BY <1>1 DEF Bids, Bazaar!TypeOK
<1> QED BY <1>2, NoMoreBids DEF BazaarInv, Bazaar!TypeOK

\* The marketplace is asked for the listing before it is posted
LEMMA ListingKeeps ==
    ASSUME Bazaar!TypeOK, BazaarInv, Bazaar!EnsureListing PROVE Bazaar!TypeOK' /\ BazaarInv'
<1> USE BazaarConstants
<1>1. /\ cycle = "listing" /\ cycle' \in {"accepting", "bidding"}
      /\ UNCHANGED <<file, memo, page, today, left, tried, excused>>
  BY DEF Bazaar!EnsureListing, Bazaar!Advance
<1>2. "listing" \in Bazaar!Things \ Offers
  BY DEF Bazaar!Things
<1>3. CASE UNCHANGED posts
  BY <1>1, <1>3, QuietSteps DEF Bazaar!TypeOK, Bazaar!Stages, Remembers
<1>4. CASE posts["listing"] = 0 /\ Bazaar!Posted("listing")
  <2>1. BidsAreCounted'
    BY <1>1, <1>2, <1>4, NotABid
  <2> QED BY <1>1, <1>2, <1>4, <2>1, PostSteps DEF Bazaar!TypeOK, Bazaar!Stages
<1> QED BY <1>3, <1>4 DEF Bazaar!EnsureListing

\* A demand is accepted and remembered
LEMMA AcceptKeeps ==
    ASSUME Bazaar!TypeOK, BazaarInv, NEW x \in Demands, Bazaar!AcceptDemand(x)
    PROVE  Bazaar!TypeOK' /\ BazaarInv'
<1> USE BazaarConstants
<1>1. /\ cycle = "accepting" /\ x \notin memo /\ memo' = memo \cup {x}
      /\ UNCHANGED <<file, cycle, page, today, left, tried, excused>>
  BY DEF Bazaar!AcceptDemand, Bazaar!Remember
<1>2. x \in Bazaar!Things \ Offers /\ x # "listing"
  BY DEF Bazaar!Things
<1>3. CASE UNCHANGED posts
  BY <1>1, <1>2, <1>3, QuietSteps DEF Bazaar!TypeOK, Bazaar!Stages, Remembers
<1>4. CASE Bazaar!Posted(x)
  <2>1. BidsAreCounted'
    BY <1>1, <1>2, <1>4, NotABid
  <2> QED BY <1>1, <1>2, <1>4, <2>1, PostSteps DEF Bazaar!TypeOK, Bazaar!Stages
<1> QED BY <1>3, <1>4 DEF Bazaar!AcceptDemand

\* The introduction is posted, and remembered or excused
LEMMA IntroduceKeeps ==
    ASSUME Bazaar!TypeOK, BazaarInv, Bazaar!Introduce PROVE Bazaar!TypeOK' /\ BazaarInv'
<1> USE BazaarConstants
<1>1. /\ cycle = "intro" /\ cycle' = "bidding"
      /\ UNCHANGED <<file, page, today, left, tried>>
  BY DEF Bazaar!Introduce, Bazaar!Advance
<1>2. "intro" \in Bazaar!Things \ Offers
  BY DEF Bazaar!Things
<1>3. CASE UNCHANGED <<posts, memo, excused>>
  BY <1>1, <1>3, QuietSteps DEF Bazaar!TypeOK, Bazaar!Stages, Remembers
<1>4. CASE /\ "intro" \notin memo /\ Bazaar!Posted("intro")
           /\ \/ memo' = memo \cup {"intro"} /\ UNCHANGED excused
              \/ excused' = excused \cup {"intro"} /\ UNCHANGED memo
  <2>1. excused \subseteq excused' /\ memo \subseteq memo' /\ "intro" \in memo' \cup excused'
        /\ excused' \subseteq Bazaar!Things /\ memo' \subseteq Bazaar!Things
    BY <1>2, <1>4 DEF Bazaar!TypeOK
  <2>2. BidsAreCounted'
    BY <1>1, <1>2, <1>4, <2>1, NotABid
  <2> QED BY <1>1, <1>2, <1>4, <2>1, <2>2, PostSteps DEF Bazaar!TypeOK, Bazaar!Stages
<1> QED BY <1>3, <1>4 DEF Bazaar!Introduce, Bazaar!Remember

\* A bid is remembered and taken from the allowance
LEMMA BidKeeps ==
    ASSUME Bazaar!TypeOK, BazaarInv, NEW x \in Offers, Bazaar!Bid(x)
    PROVE  Bazaar!TypeOK' /\ BazaarInv'
<1> USE BazaarConstants
<1>1. /\ cycle = "bidding" /\ page # "none" /\ x \notin memo /\ memo' = memo \cup {x}
      /\ left > 0 /\ left' = left - 1 /\ today' = today \cup {x}
      /\ UNCHANGED <<file, cycle, page, tried, excused>>
  BY DEF Bazaar!Bid, Bazaar!Remember
<1>2. x \in Bazaar!Things /\ x # "listing"
  BY DEF Bazaar!Things
<1>3. left \in 0..DailyBidLimit /\ left' \in 0..DailyBidLimit
  BY <1>1 DEF Bazaar!TypeOK
<1>4. \A y \in Offers : y # x => posts'[y] = posts[y]
  BY <1>2 DEF Bazaar!Bid, Bazaar!Posted, Bazaar!TypeOK, Bazaar!Things
<1>5. Bids' \subseteq Bids \cup {x}
  BY <1>1, <1>4 DEF Bids, Bazaar!TypeOK
<1>6. BidsAreCounted'
  <2>1. /\ IsFiniteSet(Bids) /\ IsFiniteSet(Bids \cup {x}) /\ Cardinality(Bids) \in Nat
        /\ Cardinality(Bids \cup {x}) \in Nat /\ Cardinality(Bids \cup {x}) <= Cardinality(Bids) + 1
    BY BidsAreFinite, Plus
  <2>2. Cardinality(Bids') <= Cardinality(Bids \cup {x}) /\ Cardinality(Bids') \in Nat
    BY <1>5, <2>1, Part
  <2>3. Cardinality(Bids) + left <= DailyBidLimit
    BY <1>1 DEF BazaarInv, BidsAreCounted
  <2>4. Cardinality(Bids') + left' <= DailyBidLimit /\ Cardinality(Bids') <= DailyBidLimit
    BY <1>1, <1>3, <2>1, <2>2, <2>3
  <2> QED BY <2>4 DEF BidsAreCounted
<1>7. CASE Bazaar!Posted(x)
  BY <1>1, <1>2, <1>3, <1>6, <1>7, PostSteps DEF Bazaar!TypeOK, Bazaar!Stages
<1>8. CASE UNCHANGED posts
  <2>1. Bazaar!TypeOK'
    BY <1>1, <1>2, <1>3, <1>8 DEF Bazaar!TypeOK
  <2>2. PostsAreKnown' /\ Bazaar!NothingPostedTwice'
    BY <1>1, <1>8 DEF BazaarInv, PostsAreKnown, Remembers, Bazaar!NothingPostedTwice
  <2> QED BY <1>6, <2>1, <2>2 DEF BazaarInv
<1> QED BY <1>7, <1>8 DEF Bazaar!Bid

\* A contract is delivered, and remembered or excused
LEMMA DeliverKeeps ==
    ASSUME Bazaar!TypeOK, BazaarInv, NEW x \in Contracts, NEW submitted \in BOOLEAN,
           Bazaar!Deliver(x, submitted)
    PROVE  Bazaar!TypeOK' /\ BazaarInv'
<1> USE BazaarConstants
<1>1. /\ cycle = "contracts" /\ x \notin memo /\ Bazaar!Posted(x) /\ tried' = tried \cup {x}
      /\ UNCHANGED <<file, cycle, page, today, left>>
  BY DEF Bazaar!Deliver
<1>2. x \in Bazaar!Things \ Offers /\ x # "listing"
  BY DEF Bazaar!Things
<1>3. /\ excused \subseteq excused' /\ memo \subseteq memo' /\ x \in memo' \cup excused'
      /\ excused' \subseteq Bazaar!Things /\ memo' \subseteq Bazaar!Things
  BY <1>2 DEF Bazaar!Deliver, Bazaar!Remember, Bazaar!TypeOK
<1>4. BidsAreCounted'
  BY <1>1, <1>2, <1>3, NotABid
<1> QED BY <1>1, <1>2, <1>3, <1>4, PostSteps DEF Bazaar!TypeOK, Bazaar!Stages

\* Each step of the worker keeps its invariant
LEMMA BazaarSteps ==
    ASSUME Bazaar!TypeOK, BazaarInv, Bazaar!Next \/ UNCHANGED bazaar
    PROVE  Bazaar!TypeOK' /\ BazaarInv'
<1> USE BazaarConstants
<1>1. CASE \E reads \in Bazaar!Reads : Bazaar!Wake(reads)
  BY <1>1, WakeKeeps
<1>2. CASE Bazaar!EnsureListing
  BY <1>2, ListingKeeps
<1>3. CASE Bazaar!DemandsDone \/ Bazaar!SupplyFails \/ Bazaar!BidsDone
  <2>1. /\ cycle # "asleep" /\ cycle' \in {"intro", "bidding", "contracts"}
        /\ UNCHANGED <<file, memo, page, posts, today, left, tried, excused>>
    BY <1>3 DEF Bazaar!DemandsDone, Bazaar!SupplyFails, Bazaar!BidsDone, Bazaar!Advance
  <2> QED BY <2>1, QuietSteps DEF Bazaar!TypeOK, Bazaar!Stages, Remembers
<1>4. CASE Bazaar!Introduce
  BY <1>4, IntroduceKeeps
<1>5. CASE Bazaar!Save
  <2>1. /\ cycle = "contracts" /\ cycle' = "asleep" /\ file' = memo /\ memo' = {}
        /\ page' = "none" /\ left' = 0 /\ tried' = {} /\ UNCHANGED <<posts, today, excused>>
    BY <1>5 DEF Bazaar!Save, Bazaar!Sleep, Bazaar!Advance
  <2>2. Remembers' = Remembers
    BY <2>1 DEF Remembers
  <2> QED BY <2>1, <2>2, QuietSteps DEF Bazaar!TypeOK, Bazaar!Stages
<1>6. CASE Bazaar!CycleIsCut
  <2>1. /\ cycle # "asleep" /\ cycle' = "asleep" /\ memo' = {} /\ page' = "none" /\ left' = 0
        /\ tried' = {} /\ UNCHANGED <<file, posts, today>>
        /\ excused' = excused \cup (memo \ (file \cup Offers))
    BY <1>6 DEF Bazaar!CycleIsCut, Bazaar!Sleep, Bazaar!Advance
  <2>2. Remembers = memo /\ Remembers' = file
    BY <2>1 DEF Remembers
  <2>3. Remembers \subseteq Remembers' \cup excused' \cup Offers
    BY <2>1, <2>2
  <2>4. excused' \subseteq Bazaar!Things
    BY <2>1 DEF Bazaar!TypeOK
  <2> QED BY <2>1, <2>3, <2>4, QuietSteps DEF Bazaar!TypeOK, Bazaar!Stages
<1>7. CASE \E x \in Demands : Bazaar!AcceptDemand(x)
  BY <1>7, AcceptKeeps
<1>8. CASE \E x \in Offers : Bazaar!Bid(x)
  BY <1>8, BidKeeps
<1>9. CASE \E x \in Contracts, submitted \in BOOLEAN : Bazaar!Deliver(x, submitted)
  BY <1>9, DeliverKeeps
<1>10. CASE Bazaar!Midnight \/ UNCHANGED bazaar
  <2>1. today' \subseteq today /\ UNCHANGED <<file, memo, cycle, page, posts, left, tried, excused>>
    BY <1>10 DEF Bazaar!Midnight, bazaar
  <2> QED BY <2>1, QuietSteps DEF Bazaar!TypeOK, Remembers
<1> QED BY <1>1, <1>2, <1>3, <1>4, <1>5, <1>6, <1>7, <1>8, <1>9, <1>10 DEF Bazaar!Next

\* The invariant of the worker gives the properties
LEMMA BazaarHolds ==
    ASSUME BazaarInv PROVE Bazaar!NothingPostedTwice /\ Bazaar!BidsWithinTheDay
<1>1. Cardinality(Bids) <= DailyBidLimit
  BY DEF BazaarInv, BidsAreCounted
<1>2. Bazaar!Cardinality(Bids) <= DailyBidLimit
  BY <1>1, BazaarCounts
<1> QED BY <1>2 DEF BazaarInv, Bazaar!BidsWithinTheDay, Bids

-----------------------------------------------------------------------------
(* The limiter.                                                            *)

\* Whoever went through after t; the calls of a window
Since(t) == {c \in Waiters : starts[c] > t /\ starts[c] > 0}
Window(t) == {c \in Waiters : starts[c] \in (t - Period)..t /\ starts[c] > 0}
Asleep(c) == waiter[c] = "asleep"

\* The deque has every call that is still in the window, and at most one that
\* is not: the one a sleeper waited for
Remembered ==
    \A i \in 0..Len(calls), t \in Int :
        t >= now - Period - 1 /\ (\A j \in 1..i : calls[j] <= t)
            => Cardinality(Since(t)) <= Len(calls) - i
ShortDeque ==
    Len(calls) <= MaxCalls \/ (Len(calls) = MaxCalls + 1 /\ now - calls[1] > Period)
\* A sleeper has the lock, and its place once the oldest call is out
SleeperHasItsPlace ==
    /\ \A c, d \in Waiters : Asleep(c) /\ Asleep(d) => c = d
    /\ \A c \in Waiters : Asleep(c) =>
          /\ Len(calls) = MaxCalls /\ calls[1] = wakeAt - Period
          /\ Cardinality(Since(calls[1])) < MaxCalls
QueueInv ==
    /\ \A c \in Waiters : starts[c] <= now /\ (starts[c] > 0 => waiter[c] = "through")
    /\ \A i \in 1..Len(calls) : calls[i] <= now
    /\ ShortDeque /\ Remembered /\ SleeperHasItsPlace
    /\ \A t \in Int : Cardinality(Window(t)) <= MaxCalls

\* The limiter counts as this module does
LEMMA QueueCounts == \A S : /\ Queue!IsFiniteSet(S) <=> IsFiniteSet(S)
                           /\ Queue!Cardinality(S) = Cardinality(S)
BY DEF Queue!IsFiniteSet, Queue!Cardinality, IsFiniteSet, Cardinality

\* What the limiter assumes of its constants
LEMMA QueueConstants ==
    /\ IsFiniteSet(Waiters)
    /\ MaxCalls \in Nat \ {0} /\ Period \in Nat /\ EndOfTime \in Nat \ {0}
BY ErrandsConstants, QueueCounts DEF Queue!LimiterConstants

\* The calls since a time can be counted
LEMMA SinceIsFinite == ASSUME NEW t PROVE
    IsFiniteSet(Since(t)) /\ Cardinality(Since(t)) \in Nat
<1>1. Since(t) \in SUBSET Waiters
  BY DEF Since
<1>2. IsFiniteSet(Since(t))
  BY <1>1, QueueConstants, FS_Subset
<1> QED BY <1>2, FS_CardinalityType

\* The start: nobody has called
LEMMA QueueStarts == Queue!Init => Queue!TypeOK /\ QueueInv
<1> SUFFICES ASSUME Queue!Init PROVE Queue!TypeOK /\ QueueInv
  OBVIOUS
<1> USE QueueConstants
<1>1. Queue!TypeOK
  BY EmptySeq DEF Queue!Init, Queue!TypeOK
<1>2. /\ \A t : Since(t) = {}
      /\ \A t : Window(t) = {}
  BY DEF Queue!Init, Since, Window
<1>3. Cardinality({}) = 0
  BY FS_EmptySet
<1>4. \A c \in Waiters : ~Asleep(c) /\ starts[c] = 0
  BY DEF Queue!Init, Asleep
<1>5. Remembered
  <2>1. calls = <<>> /\ Len(calls) = 0
    BY DEF Queue!Init
  <2>2. \A t : Cardinality(Since(t)) = 0
    BY <1>2, <1>3
  <2>3. 0..0 = {0} /\ 0 - 0 = 0 /\ 0 <= 0
    OBVIOUS
  <2> QED BY <2>1, <2>2, <2>3 DEF Remembered
<1>6. ShortDeque
  BY DEF ShortDeque, Queue!Init
<1>7. SleeperHasItsPlace
  BY <1>4 DEF SleeperHasItsPlace
<1>8. \A t \in Int : Cardinality(Window(t)) <= MaxCalls
  <2>1. \A t : Cardinality(Window(t)) = 0
    BY <1>2, <1>3
  <2> QED BY <2>1
<1>9. \A i \in 1..Len(calls) : calls[i] <= now
  BY DEF Queue!Init
<1>10. \A c \in Waiters : starts[c] <= now /\ (starts[c] > 0 => waiter[c] = "through")
  BY <1>4 DEF Queue!Init
<1> QED BY <1>1, <1>5, <1>6, <1>7, <1>8, <1>9, <1>10 DEF QueueInv

\* What a caller adds that goes through
LEMMA OneMore ==
    ASSUME Queue!TypeOK, QueueInv, NEW c \in Waiters, starts[c] = 0,
           starts' = [starts EXCEPT ![c] = now],
           Cardinality(Since(now - Period - 1)) < MaxCalls
    PROVE  /\ \A t \in Int : t < now => Cardinality(Since(t)') <= Cardinality(Since(t)) + 1
           /\ \A t \in Int : t >= now => Cardinality(Since(t)') = 0
           /\ \A t \in Int : Cardinality(Window(t)') <= MaxCalls
<1> USE QueueConstants
<1>0. now \in Int /\ now > 0 /\ starts \in [Waiters -> Int] /\ \A d \in Waiters : starts[d] <= now
  BY DEF Queue!TypeOK, QueueInv
<1>1. ASSUME NEW t \in Int
      PROVE  /\ Since(t)' \subseteq Since(t) \cup {c}
             /\ t >= now => Since(t)' = {}
  BY <1>0 DEF Since
<1>2. ASSUME NEW t \in Int, t < now PROVE Cardinality(Since(t)') <= Cardinality(Since(t)) + 1
  <2>1. IsFiniteSet(Since(t)) /\ Cardinality(Since(t)) \in Nat
    BY SinceIsFinite
  <2>2. IsFiniteSet(Since(t) \cup {c}) /\ Cardinality(Since(t) \cup {c}) <= Cardinality(Since(t)) + 1
    BY <2>1, Plus
  <2>3. /\ Cardinality(Since(t)') <= Cardinality(Since(t) \cup {c})
        /\ IsFiniteSet(Since(t)')
    BY <1>1, <2>2, FS_Subset
  <2>4. Cardinality(Since(t)') \in Nat /\ Cardinality(Since(t) \cup {c}) \in Nat
    BY <2>2, <2>3, FS_CardinalityType
  <2> QED BY <2>1, <2>2, <2>3, <2>4
<1>3. ASSUME NEW t \in Int PROVE Cardinality(Window(t)') <= MaxCalls
  <2> DEFINE S == Since(now - Period - 1)
  <2>1. CASE t < now
    <3>1. Window(t)' \subseteq Window(t)
      BY <1>0, <2>1 DEF Window
    <3>2. Window(t) \in SUBSET Waiters
      BY DEF Window
    <3>3. IsFiniteSet(Window(t))
      BY <3>2, FS_Subset
    <3>4. IsFiniteSet(Window(t)') /\ Cardinality(Window(t)') <= Cardinality(Window(t))
      BY <3>1, <3>3, FS_Subset
    <3>5. Cardinality(Window(t)') \in Nat /\ Cardinality(Window(t)) \in Nat
      BY <3>3, <3>4, FS_CardinalityType
    <3>6. Cardinality(Window(t)) <= MaxCalls
      BY DEF QueueInv
    <3> QED BY <3>4, <3>5, <3>6
  <2>2. CASE t >= now
    <3>1. Window(t)' \subseteq S \cup {c}
      BY <1>0, <2>2 DEF Window, Since
    <3>2. IsFiniteSet(S) /\ Cardinality(S) \in Nat
      BY SinceIsFinite
    <3>3. IsFiniteSet(S \cup {c}) /\ Cardinality(S \cup {c}) <= Cardinality(S) + 1
      BY <3>2, Plus
    <3>4. IsFiniteSet(Window(t)') /\ Cardinality(Window(t)') <= Cardinality(S \cup {c})
      BY <3>1, <3>3, FS_Subset
    <3>5. Cardinality(Window(t)') \in Nat /\ Cardinality(S \cup {c}) \in Nat
      BY <3>3, <3>4, FS_CardinalityType
    <3> QED BY <3>2, <3>3, <3>4, <3>5
  <2> QED BY <1>0, <2>1, <2>2
<1>4. ASSUME NEW t \in Int, t >= now PROVE Cardinality(Since(t)') = 0
  BY <1>1, <1>4, FS_EmptySet
<1> QED BY <1>2, <1>3, <1>4

\* What is left of the deque when k calls are off
LEMMA TheRest ==
    ASSUME Queue!TypeOK, NEW k \in 0..Len(calls)
    PROVE  /\ Queue!Kept(k) \in Seq(1..EndOfTime)
           /\ Len(Queue!Kept(k)) = Len(calls) - k
           /\ \A i \in 1..(Len(calls) - k) : Queue!Kept(k)[i] = calls[k + i]
<1> USE QueueConstants
<1>1. calls \in Seq(1..EndOfTime) /\ Len(calls) \in Nat
  BY LenProperties DEF Queue!TypeOK
<1>2. \A i \in (k + 1)..Len(calls) : calls[i] \in 1..EndOfTime
  BY <1>1, ElementOfSeq
<1>3. /\ SubSeq(calls, k + 1, Len(calls)) \in Seq(1..EndOfTime)
      /\ Len(SubSeq(calls, k + 1, Len(calls))) =
            IF k + 1 <= Len(calls) THEN Len(calls) - (k + 1) + 1 ELSE 0
      /\ \A i \in 1..(Len(calls) - (k + 1) + 1) :
            SubSeq(calls, k + 1, Len(calls))[i] = calls[(k + 1) + i - 1]
  <2>1. k + 1 \in Int /\ Len(calls) \in Int
    BY <1>1
  <2> QED BY <1>2, <2>1, SubSeqProperties
<1>4. Len(SubSeq(calls, k + 1, Len(calls))) = Len(calls) - k
  BY <1>1, <1>3
<1>5. \A i \in 1..(Len(calls) - k) : SubSeq(calls, k + 1, Len(calls))[i] = calls[k + i]
  BY <1>1, <1>3
<1> QED BY <1>3, <1>4, <1>5 DEF Queue!Kept

\* The deque with the call that goes through
LEMMA Appended ==
    ASSUME NEW s \in Seq(1..EndOfTime), NEW t \in 1..EndOfTime
    PROVE  /\ Append(s, t) \in Seq(1..EndOfTime) /\ Len(Append(s, t)) = Len(s) + 1
           /\ \A i \in 1..Len(s) : Append(s, t)[i] = s[i]
           /\ Append(s, t)[Len(s) + 1] = t
BY AppendProperties

\* A caller that goes through: the calls that left the deque are out of the
\* window, and its own is the newest
LEMMA GoesThrough ==
    ASSUME Queue!TypeOK, QueueInv, NEW c \in Waiters, NEW k \in 0..Len(calls),
           \A i \in 1..k : now - calls[i] > Period,
           waiter[c] # "through", \A d \in Waiters : Asleep(d) => d = c,
           Queue!Through(c, Queue!Kept(k)), UNCHANGED <<now, wakeAt>>,
           Cardinality(Since(now - Period - 1)) < MaxCalls,
           \/ Len(calls) - k < MaxCalls
           \/ k = 0 /\ Len(calls) = MaxCalls /\ now - calls[1] > Period
    PROVE  Queue!TypeOK' /\ QueueInv'
<1> USE QueueConstants
<1> DEFINE kept == Queue!Kept(k)
           n == Len(calls) - k
<1>1. /\ now \in 1..EndOfTime /\ calls \in Seq(1..EndOfTime) /\ Len(calls) \in Nat
      /\ starts \in [Waiters -> 0..EndOfTime]
      /\ waiter \in [Waiters -> {"out", "queued", "asleep", "through"}]
      /\ \A i \in 1..Len(calls) : calls[i] \in 1..EndOfTime
  BY LenProperties, ElementOfSeq DEF Queue!TypeOK
<1>2. n \in Nat /\ kept \in Seq(1..EndOfTime) /\ Len(kept) = n /\ \A i \in 1..n : kept[i] = calls[k + i]
  BY <1>1, TheRest
<1>3. /\ calls' = Append(kept, now) /\ now' = now /\ wakeAt' = wakeAt
      /\ waiter' = [waiter EXCEPT ![c] = "through"] /\ starts' = [starts EXCEPT ![c] = now]
  BY DEF Queue!Through
<1> HIDE DEF n, kept
<1>4. /\ calls' \in Seq(1..EndOfTime) /\ Len(calls') = n + 1
      /\ \A i \in 1..n : calls'[i] = calls[k + i]
      /\ calls'[n + 1] = now
  <2>1. /\ Append(kept, now) \in Seq(1..EndOfTime) /\ Len(Append(kept, now)) = Len(kept) + 1
        /\ \A i \in 1..Len(kept) : Append(kept, now)[i] = kept[i]
        /\ Append(kept, now)[Len(kept) + 1] = now
    BY <1>1, <1>2, Appended
  <2> QED BY <1>2, <1>3, <2>1
<1>5. Queue!TypeOK'
  BY <1>1, <1>3, <1>4 DEF Queue!TypeOK
<1>6. starts[c] = 0
  BY <1>1 DEF QueueInv
<1>7. /\ \A t \in Int : t < now => Cardinality(Since(t)') <= Cardinality(Since(t)) + 1
      /\ \A t \in Int : t >= now => Cardinality(Since(t)') = 0
      /\ \A t \in Int : Cardinality(Window(t)') <= MaxCalls
  BY <1>3, <1>6, OneMore
<1>8. \A d \in Waiters : starts'[d] <= now' /\ (starts'[d] > 0 => waiter'[d] = "through")
  BY <1>1, <1>3 DEF QueueInv
<1>9. \A i \in 1..Len(calls') : calls'[i] <= now'
  <2> SUFFICES ASSUME NEW i \in 1..(n + 1) PROVE calls'[i] <= now
    BY <1>3, <1>4
  <2>1. CASE i \in 1..n
    <3>1. k + i \in 1..Len(calls)
      BY <1>1, <1>2, <2>1 DEF n
    <3> QED BY <1>4, <2>1, <3>1 DEF QueueInv
  <2>2. CASE i = n + 1
    BY <1>1, <1>4, <2>2
  <2> QED BY <1>2, <2>1, <2>2
<1>10. ShortDeque'
  <2>1. CASE n < MaxCalls
    BY <1>2, <1>4, <2>1 DEF ShortDeque
  <2>2. CASE k = 0 /\ Len(calls) = MaxCalls /\ now - calls[1] > Period
    <3>1. n = MaxCalls /\ calls'[1] = calls[1]
      BY <1>1, <1>4, <2>2 DEF n
    <3> QED BY <1>3, <1>4, <2>2, <3>1 DEF ShortDeque
  <2> QED BY <2>1, <2>2 DEF n
<1>11. Remembered'
  <2> SUFFICES ASSUME NEW i \in 0..Len(calls'), NEW t \in Int,
                      t >= now - Period - 1, \A j \in 1..i : calls'[j] <= t
               PROVE  Cardinality(Since(t)') <= Len(calls') - i
    BY <1>3 DEF Remembered
  <2>1. CASE t >= now
    BY <1>2, <1>4, <1>7, <2>1
  <2>2. CASE t < now
    <3>1. i \in 0..n
      BY <1>1, <1>2, <1>4, <2>2
    <3>2. k + i \in 0..Len(calls)
      BY <1>1, <3>1 DEF n
    <3>3. \A j \in 1..(k + i) : calls[j] <= t
      <4> SUFFICES ASSUME NEW j \in 1..(k + i) PROVE calls[j] <= t
        OBVIOUS
      <4>0. j \in 1..Len(calls) /\ calls[j] \in Int /\ now \in Int /\ k \in Nat
        <5>1. j \in 1..Len(calls) /\ k \in Nat
          BY <1>1, <3>2
        <5> QED BY <1>1, <5>1
      <4>1. CASE j <= k
        <5>1. j \in 1..k
          BY <4>0, <4>1
        <5>2. now - calls[j] > Period
          BY <5>1
        <5> QED BY <4>0, <5>2
      <4>2. CASE j > k
        <5>1. j - k \in 1..i /\ j - k \in 1..n /\ k + (j - k) = j
          BY <1>1, <1>2, <3>1, <4>0, <4>2
        <5>2. calls'[j - k] = calls[j]
          BY <1>4, <5>1
        <5> QED BY <5>1, <5>2
      <4> QED BY <4>0, <4>1, <4>2
    <3>4. Cardinality(Since(t)) <= Len(calls) - (k + i)
      BY <3>2, <3>3 DEF QueueInv, Remembered
    <3>5. Cardinality(Since(t)') <= Cardinality(Since(t)) + 1
      BY <1>7, <2>2
    <3>6. Cardinality(Since(t)) \in Nat
      BY SinceIsFinite
    <3>7. IsFiniteSet(Since(t)')
      <4>1. Since(t)' \in SUBSET Waiters
        BY DEF Since
      <4> QED BY <4>1, FS_Subset
    <3>8. Cardinality(Since(t)') \in Nat
      BY <3>7, FS_CardinalityType
    <3> QED BY <1>1, <1>4, <3>1, <3>4, <3>5, <3>6, <3>8 DEF n
  <2> QED BY <1>1, <2>1, <2>2
<1>12. SleeperHasItsPlace'
  <2>1. \A d \in Waiters : ~Asleep(d)'
    BY <1>1, <1>3 DEF Asleep
  <2> QED BY <2>1 DEF SleeperHasItsPlace
<1>13. \A t \in Int : Cardinality(Window(t)') <= MaxCalls
  BY <1>7
<1> QED BY <1>5, <1>8, <1>9, <1>10, <1>11, <1>12, <1>13 DEF QueueInv

\* A caller that finds room goes through
LEMMA AcquireKeeps ==
    ASSUME Queue!TypeOK, QueueInv, NEW c \in Waiters, Queue!Acquire(c)
    PROVE  Queue!TypeOK' /\ QueueInv'
<1> USE QueueConstants
<1>1. /\ now \in 1..EndOfTime /\ Len(calls) \in Nat
      /\ \A i \in 1..Len(calls) : calls[i] \in 1..EndOfTime
  BY LenProperties, ElementOfSeq DEF Queue!TypeOK
<1>2. PICK k \in 0..Len(calls) : /\ Queue!Pops(k) /\ Len(calls) - k < MaxCalls
                                  /\ Queue!Through(c, Queue!Kept(k))
  BY DEF Queue!Acquire
<1>3. \A j \in 1..k : now - calls[j] > Period
  BY <1>2 DEF Queue!Pops
<1>4. \A j \in 1..k : calls[j] <= now - Period - 1
  <2> SUFFICES ASSUME NEW j \in 1..k PROVE calls[j] <= now - Period - 1
    OBVIOUS
  <2>1. calls[j] \in Int /\ now \in Int
    BY <1>1, <1>2
  <2> QED BY <1>3, <2>1
<1>5. Cardinality(Since(now - Period - 1)) <= Len(calls) - k
  <2>1. now - Period - 1 \in Int /\ now - Period - 1 >= now - Period - 1
    BY <1>1
  <2> QED BY <1>2, <1>4, <2>1 DEF QueueInv, Remembered
<1>6. Cardinality(Since(now - Period - 1)) < MaxCalls
  BY <1>1, <1>2, <1>5, SinceIsFinite
<1>7. waiter[c] # "through" /\ (\A d \in Waiters : Asleep(d) => d = c) /\ UNCHANGED <<now, wakeAt>>
  BY DEF Queue!Acquire, Queue!LockIsFree, Asleep
<1> QED BY <1>2, <1>3, <1>6, <1>7, GoesThrough

\* A sleeper wakes up when the call it waits for leaves the window
LEMMA WakeUpKeeps ==
    ASSUME Queue!TypeOK, QueueInv, NEW c \in Waiters, Queue!WakeUp(c)
    PROVE  Queue!TypeOK' /\ QueueInv'
<1> USE QueueConstants
<1>1. /\ now \in 1..EndOfTime /\ calls \in Seq(1..EndOfTime) /\ Len(calls) \in Nat
      /\ wakeAt \in Int
      /\ \A i \in 1..Len(calls) : calls[i] \in 1..EndOfTime
  BY LenProperties, ElementOfSeq DEF Queue!TypeOK
<1>2. Asleep(c) /\ now > wakeAt /\ Queue!Through(c, calls) /\ UNCHANGED <<now, wakeAt>>
  BY DEF Queue!WakeUp, Asleep
<1>3. /\ Len(calls) = MaxCalls /\ calls[1] = wakeAt - Period
      /\ Cardinality(Since(calls[1])) < MaxCalls
      /\ \A d \in Waiters : Asleep(d) => d = c
  BY <1>2 DEF QueueInv, SleeperHasItsPlace
<1>4. now - calls[1] > Period /\ calls[1] <= now - Period - 1
  BY <1>1, <1>2, <1>3
<1>5. Cardinality(Since(now - Period - 1)) <= Cardinality(Since(calls[1]))
  <2>1. starts \in [Waiters -> Int] /\ calls[1] \in Int
    BY <1>1, <1>3 DEF Queue!TypeOK
  <2>2. Since(now - Period - 1) \in SUBSET Since(calls[1])
    BY <1>1, <1>4, <2>1 DEF Since
  <2> QED BY <2>2, SinceIsFinite, FS_Subset
<1>6. Cardinality(Since(now - Period - 1)) < MaxCalls
  <2>1. /\ Cardinality(Since(now - Period - 1)) \in Nat
        /\ Cardinality(Since(calls[1])) \in Nat
    BY SinceIsFinite
  <2> QED BY <1>3, <1>5, <2>1
<1>7. Queue!Kept(0) = calls
  BY <1>1, SubSeqFull DEF Queue!Kept
<1>8. 0 \in 0..Len(calls) /\ \A i \in 1..0 : now - calls[i] > Period
  BY <1>1
<1>9. waiter[c] # "through"
  BY <1>2 DEF Asleep
<1>10. Queue!Through(c, Queue!Kept(0))
  BY <1>2, <1>7
<1> QED BY <1>2, <1>3, <1>4, <1>6, <1>8, <1>9, <1>10, GoesThrough

\* A caller that finds no room goes to sleep with the lock
LEMMA AcquireFullKeeps ==
    ASSUME Queue!TypeOK, QueueInv, NEW c \in Waiters, Queue!AcquireFull(c)
    PROVE  Queue!TypeOK' /\ QueueInv'
<1> USE QueueConstants
<1>1. /\ now \in 1..EndOfTime /\ calls \in Seq(1..EndOfTime) /\ Len(calls) \in Nat
      /\ starts \in [Waiters -> 0..EndOfTime]
      /\ waiter \in [Waiters -> {"out", "queued", "asleep", "through"}]
      /\ \A i \in 1..Len(calls) : calls[i] \in 1..EndOfTime
  BY LenProperties, ElementOfSeq DEF Queue!TypeOK
<1>2. PICK k \in 0..Len(calls) : /\ Queue!Pops(k) /\ Len(calls) - k >= MaxCalls
                                  /\ calls' = Queue!Kept(k)
                                  /\ wakeAt' = now + Period - (now - calls[k + 1])
  BY DEF Queue!AcquireFull
<1> DEFINE n == Len(calls) - k
<1>0. k \in Nat /\ k <= Len(calls) /\ n \in Nat /\ n >= MaxCalls
  BY <1>1, <1>2
<1>3. /\ n \in Nat /\ calls' \in Seq(1..EndOfTime) /\ Len(calls') = n
      /\ \A i \in 1..n : calls'[i] = calls[k + i]
  <2>1. /\ Queue!Kept(k) \in Seq(1..EndOfTime)
        /\ Len(Queue!Kept(k)) = n
        /\ \A i \in 1..n : Queue!Kept(k)[i] = calls[k + i]
    BY <1>2, TheRest
  <2>2. calls' = Queue!Kept(k)
    BY <1>2
  <2> QED BY <1>0, <2>1, <2>2
<1>4. /\ waiter[c] = "queued" /\ \A d \in Waiters : ~Asleep(d)
      /\ waiter' = [waiter EXCEPT ![c] = "asleep"] /\ now' = now /\ starts' = starts
  BY DEF Queue!AcquireFull, Queue!LockIsFree, Asleep
<1>5. k + 1 \in 1..Len(calls) /\ 1 \in 1..n /\ calls'[1] = calls[k + 1] /\ calls[k + 1] \in 1..EndOfTime
  <2>1. 1 \in 1..n /\ k + 1 \in 1..Len(calls)
    BY <1>0, <1>1
  <2> QED BY <1>1, <1>3, <2>1
<1>6. now - calls[k + 1] <= Period /\ calls[k + 1] >= now - Period
  <2>1. now - calls[k + 1] <= Period
    BY <1>1, <1>2, <1>5 DEF Queue!Pops
  <2> QED BY <1>1, <1>5, <2>1
<1>7. \A j \in 1..k : calls[j] < now - Period
  <2> SUFFICES ASSUME NEW j \in 1..k PROVE calls[j] < now - Period
    OBVIOUS
  <2>1. calls[j] \in Int /\ now \in Int /\ now - calls[j] > Period
    <3>1. \A i \in 1..k : now - calls[i] > Period
      BY <1>2 DEF Queue!Pops
    <3> QED BY <1>0, <1>1, <3>1
  <2> QED BY <1>1, <2>1
<1>8. n = MaxCalls
  <2>1. CASE Len(calls) <= MaxCalls
    BY <1>1, <1>2, <2>1
  <2>2. CASE Len(calls) = MaxCalls + 1 /\ now - calls[1] > Period
    <3>1. k # 0
      BY <1>6, <2>2, <1>1, <1>5
    <3> QED BY <1>1, <1>2, <2>2, <3>1
  <2> QED BY <2>1, <2>2 DEF QueueInv, ShortDeque
<1>9. wakeAt' = Period + calls[k + 1] /\ wakeAt' \in 0..(EndOfTime + Period)
  <2>1. wakeAt' = now + Period - (now - calls[k + 1])
    BY <1>2
  <2>2. now \in Int /\ calls[k + 1] \in Int /\ Period \in Int
    BY <1>1, <1>5
  <2>3. wakeAt' = Period + calls[k + 1]
    BY <2>1, <2>2
  <2> QED BY <1>5, <2>3
<1> HIDE DEF n
<1>10. Queue!TypeOK'
  BY <1>1, <1>3, <1>4, <1>9 DEF Queue!TypeOK
<1>11. \A d \in Waiters : starts'[d] <= now' /\ (starts'[d] > 0 => waiter'[d] = "through")
  BY <1>1, <1>4 DEF QueueInv
<1>12. \A i \in 1..Len(calls') : calls'[i] <= now'
  <2> SUFFICES ASSUME NEW i \in 1..n PROVE calls'[i] <= now
    BY <1>3, <1>4
  <2>1. k + i \in 1..Len(calls)
    BY <1>1, <1>2, <1>3 DEF n
  <2> QED BY <1>3, <2>1 DEF QueueInv
<1>13. ShortDeque'
  BY <1>3, <1>8 DEF ShortDeque
<1>14. Remembered'
  <2> SUFFICES ASSUME NEW i \in 0..n, NEW t \in Int,
                      t >= now - Period - 1, \A j \in 1..i : calls'[j] <= t
               PROVE  Cardinality(Since(t)) <= n - i
    BY <1>3, <1>4 DEF Remembered, Since
  <2>1. k + i \in 0..Len(calls)
    BY <1>1, <1>2, <1>3 DEF n
  <2>2. \A j \in 1..(k + i) : calls[j] <= t
    <3> SUFFICES ASSUME NEW j \in 1..(k + i) PROVE calls[j] <= t
      OBVIOUS
    <3>0. j \in 1..Len(calls) /\ calls[j] \in Int
      BY <1>1, <2>1
    <3>1. CASE j <= k
      <4>1. calls[j] < now - Period
        BY <1>7, <3>1
      <4> QED BY <1>1, <3>0, <4>1
    <3>2. CASE j > k
      <4>1. j - k \in 1..i /\ j - k \in 1..n /\ k + (j - k) = j
        BY <1>1, <1>2, <1>3, <3>0, <3>2
      <4>2. calls'[j - k] = calls[j]
        BY <1>3, <4>1
      <4> QED BY <4>1, <4>2
    <3> QED BY <3>0, <3>1, <3>2
  <2>3. Cardinality(Since(t)) <= Len(calls) - (k + i)
    BY <2>1, <2>2 DEF QueueInv, Remembered
  <2> QED BY <1>1, <1>2, <2>3 DEF n
<1>15. SleeperHasItsPlace'
  <2>1. \A d \in Waiters : Asleep(d)' => d = c
    BY <1>1, <1>4 DEF Asleep
  <2>2. Len(calls') = MaxCalls /\ calls'[1] = wakeAt' - Period
    <3>1. Len(calls') = MaxCalls
      BY <1>3, <1>8
    <3>2. calls[k + 1] \in Int /\ Period \in Int /\ wakeAt' = Period + calls[k + 1]
      BY <1>5, <1>9
    <3>3. calls'[1] = calls[k + 1]
      BY <1>5
    <3> QED BY <3>1, <3>2, <3>3
  <2>3. Cardinality(Since(calls[k + 1])) <= Len(calls) - (k + 1)
    <3>1. calls[k + 1] \in Int /\ calls[k + 1] >= now - Period - 1 /\ k + 1 \in 0..Len(calls)
      BY <1>1, <1>5, <1>6
    <3>2. \A j \in 1..(k + 1) : calls[j] <= calls[k + 1]
      <4> SUFFICES ASSUME NEW j \in 1..(k + 1) PROVE calls[j] <= calls[k + 1]
        OBVIOUS
      <4>1. CASE j = k + 1
        BY <1>5, <4>1
      <4>2. CASE j \in 1..k
        <5>1. calls[j] < now - Period /\ calls[j] \in Int
          BY <1>0, <1>1, <1>7, <4>2
        <5>2. calls[k + 1] \in Int /\ now \in Int /\ calls[k + 1] >= now - Period
          BY <1>1, <1>5, <1>6
        <5> QED BY <5>1, <5>2
      <4> QED BY <1>2, <4>1, <4>2
    <3> QED BY <3>1, <3>2 DEF QueueInv, Remembered
  <2>4. Since(calls[1])' = Since(calls[k + 1])
    BY <1>4, <1>5 DEF Since
  <2>5. Cardinality(Since(calls[k + 1])) < MaxCalls
    <3>1. Cardinality(Since(calls[k + 1])) \in Nat
      BY SinceIsFinite
    <3> QED BY <1>1, <1>2, <1>8, <2>3, <3>1 DEF n
  <2> QED BY <2>1, <2>2, <2>4, <2>5 DEF SleeperHasItsPlace
<1>16. \A t \in Int : Cardinality(Window(t)') <= MaxCalls
  BY <1>4 DEF QueueInv, Window
<1> QED BY <1>10, <1>11, <1>12, <1>13, <1>14, <1>15, <1>16 DEF QueueInv

\* Time does not pass a sleeper by
LEMMA TickKeeps ==
    ASSUME Queue!TypeOK, QueueInv, Queue!Tick
    PROVE  Queue!TypeOK' /\ QueueInv'
<1> USE QueueConstants
<1>1. /\ now \in 1..EndOfTime /\ Len(calls) \in Nat /\ starts \in [Waiters -> 0..EndOfTime]
      /\ \A i \in 1..Len(calls) : calls[i] \in 1..EndOfTime
  BY LenProperties, ElementOfSeq DEF Queue!TypeOK
<1>2. /\ now' = now + 1 /\ calls' = calls /\ waiter' = waiter /\ wakeAt' = wakeAt
      /\ starts' = starts
  BY DEF Queue!Tick
<1>3. Queue!TypeOK'
  BY <1>1, <1>2 DEF Queue!TypeOK, Queue!Tick
<1>4. \A t : Since(t)' = Since(t) /\ Window(t)' = Window(t)
  BY <1>2 DEF Since, Window
<1>5. Remembered'
  <2> SUFFICES ASSUME NEW i \in 0..Len(calls'), NEW t \in Int,
                      t >= now' - Period - 1, \A j \in 1..i : calls'[j] <= t
               PROVE  Cardinality(Since(t)') <= Len(calls') - i
    BY DEF Remembered
  <2>1. t >= now - Period - 1
    BY <1>1, <1>2
  <2>2. i \in 0..Len(calls) /\ \A j \in 1..i : calls[j] <= t
    BY <1>2
  <2>3. Cardinality(Since(t)) <= Len(calls) - i
    BY <2>1, <2>2 DEF QueueInv, Remembered
  <2> QED BY <1>2, <1>4, <2>3
<1>6. ShortDeque'
  <2>1. CASE Len(calls) <= MaxCalls
    BY <1>2, <2>1 DEF ShortDeque
  <2>2. CASE Len(calls) = MaxCalls + 1 /\ now - calls[1] > Period
    <3>1. calls[1] \in Int
      BY <1>1, <2>2
    <3>2. now + 1 - calls[1] > Period
      BY <1>1, <2>2, <3>1
    <3>3. Len(calls') = MaxCalls + 1
      BY <1>2, <2>2
    <3>4. now' - calls'[1] > Period
      BY <1>1, <1>2, <3>1, <3>2
    <3> QED BY <3>3, <3>4 DEF ShortDeque
  <2> QED BY <2>1, <2>2 DEF QueueInv, ShortDeque
<1>7. SleeperHasItsPlace'
  BY <1>2, <1>4 DEF QueueInv, SleeperHasItsPlace, Asleep
<1>8. \A d \in Waiters : starts'[d] <= now' /\ (starts'[d] > 0 => waiter'[d] = "through")
  BY <1>1, <1>2 DEF QueueInv
<1>9. \A i \in 1..Len(calls') : calls'[i] <= now'
  BY <1>1, <1>2 DEF QueueInv
<1>10. \A t \in Int : Cardinality(Window(t)') <= MaxCalls
  BY <1>4 DEF QueueInv
<1> QED BY <1>3, <1>5, <1>6, <1>7, <1>8, <1>9, <1>10 DEF QueueInv

\* Asking and being cancelled leave the window as it is
LEMMA NobodyGoesThrough ==
    ASSUME Queue!TypeOK, QueueInv, NEW c \in Waiters, Queue!Ask(c) \/ Queue!Cancelled(c)
    PROVE  Queue!TypeOK' /\ QueueInv'
<1>1. /\ now' = now /\ calls' = calls /\ wakeAt' = wakeAt /\ starts' = starts
      /\ waiter \in [Waiters -> {"out", "queued", "asleep", "through"}]
      /\ waiter' \in [Waiters -> {"out", "queued", "asleep", "through"}]
      /\ \A d \in Waiters : waiter'[d] = "asleep" => waiter[d] = "asleep"
      /\ \A d \in Waiters : waiter[d] = "through" => waiter'[d] = "through"
  BY DEF Queue!TypeOK, Queue!Ask, Queue!Cancelled
<1>2. Queue!TypeOK'
  BY <1>1 DEF Queue!TypeOK
<1>3. \A t : Since(t)' = Since(t) /\ Window(t)' = Window(t)
  BY <1>1 DEF Since, Window
<1>4. Remembered' /\ ShortDeque'
  BY <1>1, <1>3 DEF QueueInv, Remembered, ShortDeque
<1>5. SleeperHasItsPlace'
  BY <1>1, <1>3 DEF QueueInv, SleeperHasItsPlace, Asleep
<1>6. \A d \in Waiters : starts'[d] <= now' /\ (starts'[d] > 0 => waiter'[d] = "through")
  BY <1>1 DEF QueueInv
<1> QED BY <1>1, <1>2, <1>3, <1>4, <1>5, <1>6 DEF QueueInv

\* Each step of the limiter keeps its invariant
LEMMA QueueSteps ==
    Queue!TypeOK /\ QueueInv /\ (Queue!Next \/ UNCHANGED queue) => Queue!TypeOK' /\ QueueInv'
<1> SUFFICES ASSUME Queue!TypeOK, QueueInv, Queue!Next \/ UNCHANGED queue
             PROVE  Queue!TypeOK' /\ QueueInv'
  OBVIOUS
<1>1. CASE UNCHANGED queue
  <2>1. /\ now' = now /\ calls' = calls /\ wakeAt' = wakeAt /\ starts' = starts
        /\ waiter' = waiter
    BY <1>1 DEF queue
  <2>2. Queue!TypeOK'
    BY <2>1 DEF Queue!TypeOK
  <2>3. \A t : Since(t)' = Since(t) /\ Window(t)' = Window(t)
    BY <2>1 DEF Since, Window
  <2> QED BY <2>1, <2>2, <2>3 DEF QueueInv, Remembered, ShortDeque, SleeperHasItsPlace, Asleep
<1>2. CASE Queue!Tick
  BY <1>2, TickKeeps
<1>3. ASSUME NEW c \in Waiters, Queue!Ask(c) \/ Queue!Cancelled(c) PROVE Queue!TypeOK' /\ QueueInv'
  BY <1>3, NobodyGoesThrough
<1>4. ASSUME NEW c \in Waiters, Queue!Acquire(c) PROVE Queue!TypeOK' /\ QueueInv'
  BY <1>4, AcquireKeeps
<1>5. ASSUME NEW c \in Waiters, Queue!AcquireFull(c) PROVE Queue!TypeOK' /\ QueueInv'
  BY <1>5, AcquireFullKeeps
<1>6. ASSUME NEW c \in Waiters, Queue!WakeUp(c) PROVE Queue!TypeOK' /\ QueueInv'
  BY <1>6, WakeUpKeeps
<1> QED BY <1>1, <1>2, <1>3, <1>4, <1>5, <1>6 DEF Queue!Next

\* A window of the property is a part of a window of the invariant
LEMMA QueueHolds == Queue!TypeOK /\ QueueInv => Queue!WithinTheRate
<1> SUFFICES ASSUME Queue!TypeOK, QueueInv, NEW t \in 1..EndOfTime
             PROVE  Queue!Cardinality({c \in Waiters : starts[c] \in (t - Period + 1)..t /\ starts[c] > 0})
                        <= MaxCalls
  BY DEF Queue!WithinTheRate
<1> USE QueueConstants
<1> DEFINE W == {c \in Waiters : starts[c] \in (t - Period + 1)..t /\ starts[c] > 0}
<1>1. t \in Int /\ starts \in [Waiters -> Int]
  BY DEF Queue!TypeOK
<1>2. W \subseteq Window(t)
  BY <1>1 DEF Window
<1>3. Window(t) \in SUBSET Waiters
  BY DEF Window
<1>4. IsFiniteSet(Window(t))
  BY <1>3, FS_Subset
<1>5. IsFiniteSet(W) /\ Cardinality(W) <= Cardinality(Window(t))
  BY <1>2, <1>4, FS_Subset
<1>6. Cardinality(W) \in Nat /\ Cardinality(Window(t)) \in Nat /\ Cardinality(Window(t)) <= MaxCalls
  BY <1>1, <1>4, <1>5, FS_CardinalityType DEF QueueInv
<1>7. Cardinality(W) <= MaxCalls
  BY <1>5, <1>6
<1> QED BY <1>7, QueueCounts

-----------------------------------------------------------------------------
(* The budget of Claude.                                                   *)

\* What a call has spent or may still spend without asking for the budget
Committed(c) ==
    IF call[c].route = "GET-token-card" THEN 0
    ELSE call[c].cost + IF call[c].at \in {"card"} \cup Purse!Asking THEN 1 ELSE 0
AtLeast(n) == {c \in Callers : Committed(c) >= n}
InFlight == Cardinality(AtLeast(1)) + Cardinality(AtLeast(2))

\* A call costs one request to Claude at most for each question it has put
CostsFit ==
    \A c \in Callers :
        /\ call[c].at \in {"gone", "card", "asking-card", "queries", "asking-queries"}
              => call[c].cost = 0
        /\ call[c].at \in {"verdict", "asking-verdict"} => call[c].cost <= 1
PurseInv ==
    CostsFit /\ logged - ungated + InFlight < Budget + 2 * Cardinality(Callers)

\* The budget counts as this module does
LEMMA PurseCounts == \A S : /\ Purse!IsFiniteSet(S) <=> IsFiniteSet(S)
                           /\ Purse!Cardinality(S) = Cardinality(S)
BY DEF Purse!IsFiniteSet, Purse!Cardinality, IsFiniteSet, Cardinality

\* What the budget assumes of its constants
LEMMA PurseConstants ==
    /\ IsFiniteSet(Callers) /\ Cardinality(Callers) \in Nat \ {0}
    /\ Budget \in Nat /\ MaxSales \in Nat
<1>1. IsFiniteSet(Callers) /\ Callers # {} /\ Budget \in Nat /\ MaxSales \in Nat
  BY ErrandsConstants, PurseCounts DEF Purse!BudgetConstants
<1>2. Cardinality(Callers) \in Nat /\ Cardinality(Callers) # 0
  BY <1>1, FS_CardinalityType, FS_EmptySet
<1> QED BY <1>1, <1>2

\* There are no more calls in flight than callers, now
LEMMA AtLeastIsBounded == ASSUME NEW n PROVE
    IsFiniteSet(AtLeast(n)) /\ Cardinality(AtLeast(n)) \in 0..Cardinality(Callers)
<1>1. AtLeast(n) \in SUBSET Callers
  BY DEF AtLeast
<1>2. IsFiniteSet(AtLeast(n)) /\ Cardinality(AtLeast(n)) <= Cardinality(Callers)
  BY <1>1, PurseConstants, FS_Subset
<1>3. Cardinality(AtLeast(n)) \in Nat
  BY <1>2, FS_CardinalityType
<1> QED BY <1>2, <1>3, PurseConstants

\* and after a step
LEMMA AtLeastStaysBounded == ASSUME NEW n PROVE
    IsFiniteSet(AtLeast(n)') /\ Cardinality(AtLeast(n)') \in 0..Cardinality(Callers)
<1>1. AtLeast(n)' \in SUBSET Callers
  BY DEF AtLeast
<1>2. IsFiniteSet(AtLeast(n)') /\ Cardinality(AtLeast(n)') <= Cardinality(Callers)
  BY <1>1, PurseConstants, FS_Subset
<1>3. Cardinality(AtLeast(n)') \in Nat
  BY <1>2, FS_CardinalityType
<1> QED BY <1>2, <1>3, PurseConstants

CallsToClaude == [route : {"none", "POST-token-card", "GET-token-card", "fact-check"},
          at : {"gone", "queries", "asking-queries", "verdict", "asking-verdict",
                "card", "asking-card", "answered"},
          cost : 0..2]

\* What is committed is a number, now
LEMMA CommittedIsNat == Purse!TypeOK => \A c \in Callers : Committed(c) \in Nat
BY DEF Purse!TypeOK, Committed

\* and after a step
LEMMA CommittedStaysNat == Purse!TypeOK' => \A c \in Callers : Committed(c)' \in Nat
BY DEF Purse!TypeOK, Committed

\* The three ways a step changes what is spent and committed
LEMMA NothingMore ==
    ASSUME Purse!TypeOK, Purse!TypeOK', PurseInv, CostsFit', logged' - ungated' = logged - ungated,
           \A c \in Callers : Committed(c)' <= Committed(c)
    PROVE  PurseInv'
<1>1. ASSUME NEW n \in Nat PROVE Cardinality(AtLeast(n)') <= Cardinality(AtLeast(n))
  <2>1. AtLeast(n)' \in SUBSET AtLeast(n)
    BY CommittedIsNat, CommittedStaysNat DEF AtLeast
  <2> QED BY <2>1, AtLeastIsBounded, FS_Subset
<1>2. Cardinality(AtLeast(1)') <= Cardinality(AtLeast(1)) /\ Cardinality(AtLeast(2)') <= Cardinality(AtLeast(2))
  BY <1>1
<1>3. InFlight' <= InFlight /\ InFlight' \in Nat /\ InFlight \in Nat
  BY <1>2, AtLeastIsBounded, AtLeastStaysBounded, PurseConstants DEF InFlight
<1>4. logged - ungated \in Int
  BY DEF Purse!TypeOK
<1> QED BY <1>3, <1>4, PurseConstants DEF PurseInv

\* A question is put while the spending is within the budget
LEMMA WithinTheBudget ==
    ASSUME Purse!TypeOK, PurseInv, CostsFit', logged < Budget, logged' = logged, ungated' = ungated
    PROVE  PurseInv'
<1>1. logged - ungated \in Int /\ logged - ungated <= logged /\ logged \in Nat
  BY DEF Purse!TypeOK
<1>2. InFlight' \in Nat /\ InFlight' <= 2 * Cardinality(Callers)
  BY AtLeastStaysBounded, PurseConstants DEF InFlight
<1>3. logged' - ungated' < Budget
  BY <1>1, PurseConstants
<1> QED BY <1>1, <1>2, <1>3, PurseConstants DEF PurseInv

\* The start: nobody has asked
LEMMA PurseStarts == Purse!Init => Purse!TypeOK /\ PurseInv
<1> SUFFICES ASSUME Purse!Init PROVE Purse!TypeOK /\ PurseInv
  OBVIOUS
<1>1. \A c \in Callers : call[c] = [route |-> "none", at |-> "gone", cost |-> 0]
  BY DEF Purse!Init, Purse!Gone
<1>2. Purse!TypeOK
  <2>1. call \in [Callers -> CallsToClaude]
    BY DEF Purse!Init, Purse!Gone, CallsToClaude
  <2>2. 0 \in 0..0 /\ 0 \in 0..MaxSales
    BY PurseConstants
  <2> QED BY <2>1, <2>2 DEF Purse!Init, Purse!TypeOK, CallsToClaude
<1>3. CostsFit
  BY <1>1 DEF CostsFit
<1>4. \A c \in Callers : Committed(c) = 0
  BY <1>1 DEF Committed, Purse!Asking
<1>5. AtLeast(1) = {} /\ AtLeast(2) = {}
  BY <1>4 DEF AtLeast
<1>6. InFlight = 0
  BY <1>5, FS_EmptySet DEF InFlight
<1> QED BY <1>2, <1>3, <1>6, PurseConstants DEF PurseInv, Purse!Init

\* One call is replaced
LEMMA OneCall ==
    ASSUME Purse!TypeOK, NEW c \in Callers, NEW r \in CallsToClaude, call' = [call EXCEPT ![c] = r],
           tripped' \in BOOLEAN, leaked' \in Nat, sales' \in 0..MaxSales,
           logged' \in Nat, ungated' \in 0..logged'
    PROVE  /\ Purse!TypeOK' /\ call'[c] = r
           /\ \A d \in Callers \ {c} : call'[d] = call[d] /\ Committed(d)' = Committed(d)
BY DEF Purse!TypeOK, CallsToClaude, Committed

\* A call arrives
LEMMA ArriveKeeps ==
    ASSUME Purse!TypeOK, PurseInv, NEW c \in Callers,
           NEW route \in {"POST-token-card", "GET-token-card", "fact-check"}, Purse!Arrive(c, route)
    PROVE  Purse!TypeOK' /\ PurseInv'
<1> DEFINE r == [route |-> route, cost |-> 0, at |-> IF route = "fact-check" THEN "queries" ELSE "card"]
<1>1. /\ call' = [call EXCEPT ![c] = r] /\ sales < MaxSales /\ sales' = sales + 1
      /\ UNCHANGED <<tripped, logged, ungated, leaked>>
      /\ route = "POST-token-card" => logged < Budget
  BY DEF Purse!Arrive, Purse!monthly_budget_ok
<1>2. r \in CallsToClaude
  BY DEF CallsToClaude
<1>3. sales' \in 0..MaxSales
  BY <1>1, PurseConstants DEF Purse!TypeOK
<1>4. tripped' \in BOOLEAN /\ leaked' \in Nat /\ logged' \in Nat /\ ungated' \in 0..logged'
  BY <1>1 DEF Purse!TypeOK
<1>5. /\ Purse!TypeOK' /\ call'[c] = r
      /\ \A d \in Callers \ {c} : call'[d] = call[d] /\ Committed(d)' = Committed(d)
  BY <1>1, <1>2, <1>3, <1>4, OneCall
<1>6. CostsFit'
  BY <1>5 DEF PurseInv, CostsFit
<1>7. CASE route = "POST-token-card"
  BY <1>1, <1>5, <1>6, <1>7, WithinTheBudget
<1>8. CASE route # "POST-token-card"
  <2>1. Committed(c)' = 0
    BY <1>5, <1>8 DEF Committed, Purse!Asking
  <2>2. \A d \in Callers : Committed(d) \in Nat /\ Committed(d)' <= Committed(d)
    BY <1>5, <2>1, CommittedIsNat
  <2> QED BY <1>1, <1>5, <1>6, <2>2, NothingMore
<1> QED BY <1>5, <1>7, <1>8

\* A call moves from one stage to another
LEMMA Moving ==
    ASSUME Purse!TypeOK, PurseInv, NEW c \in Callers,
           NEW to \in {"queries", "asking-queries", "verdict", "asking-verdict",
                       "card", "asking-card", "answered"},
           Purse!Move(c, to), tripped' \in BOOLEAN, leaked' \in Nat,
           UNCHANGED <<logged, ungated, sales>>
    PROVE  /\ Purse!TypeOK'
           /\ call'[c].at = to /\ call'[c].cost = call[c].cost /\ call'[c].route = call[c].route
           /\ \A d \in Callers \ {c} : call'[d] = call[d] /\ Committed(d)' = Committed(d)
<1> DEFINE r == [call[c] EXCEPT !.at = to]
<1>1. call[c] \in CallsToClaude
  BY DEF Purse!TypeOK, CallsToClaude
<1>2. r \in CallsToClaude /\ r.at = to /\ r.cost = call[c].cost /\ r.route = call[c].route
  BY <1>1 DEF CallsToClaude
<1>3. call' = [call EXCEPT ![c] = r]
  BY DEF Purse!Move
<1>4. logged' \in Nat /\ ungated' \in 0..logged' /\ sales' \in 0..MaxSales
  BY DEF Purse!TypeOK
<1> HIDE DEF r
<1> QED BY <1>2, <1>3, <1>4, OneCall

\* ... giving up a question, or having been refused it
LEMMA MovingOn ==
    ASSUME Purse!TypeOK, PurseInv, NEW c \in Callers,
           call[c].at \in {"card", "queries", "verdict"} \cup Purse!Asking,
           Purse!Move(c, Purse!After(call[c].at)), tripped' \in BOOLEAN, leaked' \in Nat,
           UNCHANGED <<logged, ungated, sales>>
    PROVE  Purse!TypeOK' /\ PurseInv'
<1> DEFINE to == Purse!After(call[c].at)
<1>0. to \in {"verdict", "answered"} /\ (to = "verdict" => call[c].at \in {"queries", "asking-queries"})
  BY DEF Purse!After
<1>1. /\ Purse!TypeOK'
      /\ call'[c].at = to /\ call'[c].cost = call[c].cost /\ call'[c].route = call[c].route
      /\ \A d \in Callers \ {c} : call'[d] = call[d] /\ Committed(d)' = Committed(d)
  BY <1>0, Moving
<1> HIDE DEF to
<1>2. call[c].cost \in 0..2
  BY DEF Purse!TypeOK
<1>3. CostsFit'
  BY <1>0, <1>1, <1>2 DEF PurseInv, CostsFit
<1>4. Committed(c)' <= Committed(c)
  BY <1>0, <1>1, <1>2 DEF Committed, Purse!Asking
<1>5. \A d \in Callers : Committed(d)' <= Committed(d)
  BY <1>1, <1>4, CommittedIsNat
<1> QED BY <1>1, <1>3, <1>5, NothingMore

\* A call that asks commits a request to Claude, with the budget not spent
LEMMA AskClaudeKeeps ==
    ASSUME Purse!TypeOK, PurseInv, NEW c \in Callers, Purse!AskClaude(c)
    PROVE  Purse!TypeOK' /\ PurseInv'
<1>1. /\ UNCHANGED <<logged, ungated, sales>> /\ tripped' \in BOOLEAN /\ leaked' \in Nat
      /\ UNCHANGED <<tripped, leaked>>
  BY DEF Purse!AskClaude, Purse!TypeOK
<1>2. call[c].cost \in 0..2
  BY DEF Purse!TypeOK
<1>3. CASE call[c].at = "card" /\ Purse!Move(c, "asking-card")
  <2>1. /\ Purse!TypeOK'
        /\ call'[c].at = "asking-card" /\ call'[c].cost = call[c].cost /\ call'[c].route = call[c].route
        /\ \A d \in Callers \ {c} : call'[d] = call[d] /\ Committed(d)' = Committed(d)
    BY <1>1, <1>3, Moving
  <2>2. CostsFit'
    BY <1>3, <2>1 DEF PurseInv, CostsFit
  <2>3. Committed(c)' = Committed(c)
    BY <1>3, <2>1 DEF Committed, Purse!Asking
  <2>4. \A d \in Callers : Committed(d)' <= Committed(d)
    BY <2>1, <2>3, CommittedIsNat
  <2> QED BY <1>1, <2>1, <2>2, <2>4, NothingMore
<1>4. CASE call[c].at = "queries" /\ Purse!monthly_budget_ok /\ Purse!Move(c, "asking-queries")
  <2>1. /\ Purse!TypeOK'
        /\ call'[c].at = "asking-queries" /\ call'[c].cost = call[c].cost /\ call'[c].route = call[c].route
        /\ \A d \in Callers \ {c} : call'[d] = call[d] /\ Committed(d)' = Committed(d)
    BY <1>1, <1>4, Moving
  <2>2. CostsFit'
    BY <1>4, <2>1 DEF PurseInv, CostsFit
  <2> QED BY <1>1, <1>4, <2>1, <2>2, WithinTheBudget DEF Purse!monthly_budget_ok
<1>5. CASE call[c].at = "verdict" /\ Purse!monthly_budget_ok /\ Purse!Move(c, "asking-verdict")
  <2>1. /\ Purse!TypeOK'
        /\ call'[c].at = "asking-verdict" /\ call'[c].cost = call[c].cost /\ call'[c].route = call[c].route
        /\ \A d \in Callers \ {c} : call'[d] = call[d] /\ Committed(d)' = Committed(d)
    BY <1>1, <1>5, Moving
  <2>2. CostsFit'
    BY <1>5, <2>1 DEF PurseInv, CostsFit
  <2> QED BY <1>1, <1>5, <2>1, <2>2, WithinTheBudget DEF Purse!monthly_budget_ok
<1> QED BY <1>3, <1>4, <1>5 DEF Purse!AskClaude

\* An answer is paid for, and was committed
LEMMA AnsweredKeeps ==
    ASSUME Purse!TypeOK, PurseInv, NEW c \in Callers, Purse!Answered(c)
    PROVE  Purse!TypeOK' /\ PurseInv'
<1> DEFINE r == [call[c] EXCEPT !.at = Purse!After(call[c].at), !.cost = call[c].cost + 1]
<1>1. /\ call[c].at \in Purse!Asking /\ call' = [call EXCEPT ![c] = r]
      /\ UNCHANGED <<tripped, logged, ungated, leaked, sales>>
  BY DEF Purse!Answered
<1>2. call[c] \in CallsToClaude /\ call[c].cost \in 0..1
      /\ (call[c].at = "asking-queries" => call[c].cost = 0)
  BY <1>1 DEF Purse!TypeOK, CallsToClaude, PurseInv, CostsFit, Purse!Asking
<1>3. /\ r \in CallsToClaude /\ r.cost = call[c].cost + 1 /\ r.route = call[c].route
      /\ r.at = IF call[c].at = "asking-queries" THEN "verdict" ELSE "answered"
  <2> DEFINE to == Purse!After(call[c].at)
  <2>1. to = IF call[c].at = "asking-queries" THEN "verdict" ELSE "answered"
    BY <1>1 DEF Purse!After, Purse!Asking
  <2>2. call[c].cost + 1 \in 0..2
    BY <1>2
  <2> DEFINE k == call[c].cost + 1
  <2>3. to \in {"verdict", "answered"} /\ k \in 0..2
    BY <2>1, <2>2
  <2> HIDE DEF to, k
  <2>4. [call[c] EXCEPT !.at = to] \in CallsToClaude
    BY <1>2, <2>3 DEF CallsToClaude
  <2>5. [[call[c] EXCEPT !.at = to] EXCEPT !.cost = k] \in CallsToClaude
    BY <2>3, <2>4 DEF CallsToClaude
  <2>6. r = [[call[c] EXCEPT !.at = to] EXCEPT !.cost = k]
    BY DEF to, k
  <2>7. /\ [[call[c] EXCEPT !.at = to] EXCEPT !.cost = k].cost = k
        /\ [[call[c] EXCEPT !.at = to] EXCEPT !.cost = k].at = to
        /\ [[call[c] EXCEPT !.at = to] EXCEPT !.cost = k].route = call[c].route
    BY <1>2 DEF CallsToClaude
  <2> HIDE DEF r
  <2> QED BY <2>1, <2>5, <2>6, <2>7 DEF k
<1> HIDE DEF r
<1>4. /\ Purse!TypeOK' /\ call'[c] = r
      /\ \A d \in Callers \ {c} : call'[d] = call[d] /\ Committed(d)' = Committed(d)
  <2>1. /\ tripped' \in BOOLEAN /\ leaked' \in Nat /\ sales' \in 0..MaxSales
        /\ logged' \in Nat /\ ungated' \in 0..logged'
    BY <1>1 DEF Purse!TypeOK
  <2> QED BY <1>1, <1>3, <2>1, OneCall
<1>5. CostsFit'
  BY <1>2, <1>3, <1>4 DEF PurseInv, CostsFit
<1>6. Committed(c)' = Committed(c)
  BY <1>1, <1>2, <1>3, <1>4 DEF Committed, Purse!Asking
<1>7. \A d \in Callers : Committed(d)' <= Committed(d)
  BY <1>4, <1>6, CommittedIsNat
<1> QED BY <1>1, <1>4, <1>5, <1>7, NothingMore

\* A call that has left
LEMMA Leaving ==
    ASSUME Purse!TypeOK, PurseInv, NEW c \in Callers, call' = [call EXCEPT ![c] = Purse!Gone],
           UNCHANGED <<tripped, sales>>, leaked' \in Nat, logged' \in Nat, ungated' \in 0..logged'
    PROVE  /\ Purse!TypeOK' /\ CostsFit' /\ Committed(c)' = 0
           /\ \A d \in Callers \ {c} : Committed(d)' = Committed(d)
<1>1. Purse!Gone \in CallsToClaude /\ Purse!Gone.cost = 0 /\ Purse!Gone.at = "gone" /\ Purse!Gone.route = "none"
  BY DEF Purse!Gone, CallsToClaude
<1>2. tripped' \in BOOLEAN /\ sales' \in 0..MaxSales
  BY DEF Purse!TypeOK
<1>3. /\ Purse!TypeOK' /\ call'[c] = Purse!Gone
      /\ \A d \in Callers \ {c} : call'[d] = call[d] /\ Committed(d)' = Committed(d)
  BY <1>1, <1>2, OneCall
<1>4. CostsFit'
  BY <1>1, <1>3 DEF PurseInv, CostsFit
<1>5. Committed(c)' = 0
  BY <1>1, <1>3 DEF Committed, Purse!Asking
<1> QED BY <1>3, <1>4, <1>5

\* A call that fails behind its answer writes no row
LEMMA FailLateKeeps ==
    ASSUME Purse!TypeOK, PurseInv, NEW c \in Callers, Purse!FailLate(c)
    PROVE  Purse!TypeOK' /\ PurseInv'
<1>1. /\ call' = [call EXCEPT ![c] = Purse!Gone] /\ UNCHANGED <<tripped, logged, ungated, sales>>
      /\ leaked' = leaked + call[c].cost
  BY DEF Purse!FailLate
<1>2. leaked' \in Nat /\ logged' \in Nat /\ ungated' \in 0..logged'
  BY <1>1 DEF Purse!TypeOK
<1>3. /\ Purse!TypeOK' /\ CostsFit' /\ Committed(c)' = 0
      /\ \A d \in Callers \ {c} : Committed(d)' = Committed(d)
  BY <1>1, <1>2, Leaving
<1>4. \A d \in Callers : Committed(d)' <= Committed(d)
  BY <1>3, CommittedIsNat
<1> QED BY <1>1, <1>3, <1>4, NothingMore

\* A row of api_calls counts what was committed
LEMMA LogPaidKeeps ==
    ASSUME Purse!TypeOK, PurseInv, NEW c \in Callers, Purse!LogPaid(c)
    PROVE  Purse!TypeOK' /\ PurseInv'
<1>1. /\ call' = [call EXCEPT ![c] = Purse!Gone] /\ UNCHANGED <<tripped, leaked, sales>>
      /\ logged' = logged + call[c].cost /\ call[c].at = "answered"
      /\ ungated' = ungated + IF call[c].route = "GET-token-card" THEN call[c].cost ELSE 0
  BY DEF Purse!LogPaid
<1>2. logged \in Nat /\ ungated \in 0..logged /\ call[c].cost \in 0..2 /\ leaked \in Nat
  BY DEF Purse!TypeOK
<1>3. leaked' \in Nat /\ logged' \in Nat /\ ungated' \in 0..logged'
  BY <1>1, <1>2
<1>4. /\ Purse!TypeOK' /\ CostsFit' /\ Committed(c)' = 0
      /\ \A d \in Callers \ {c} : Committed(d)' = Committed(d)
  BY <1>1, <1>3, Leaving
<1>5. CASE call[c].route = "GET-token-card"
  <2>1. logged' - ungated' = logged - ungated
    <3>1. ungated' = ungated + call[c].cost /\ logged' = logged + call[c].cost
      BY <1>1, <1>5
    <3>2. logged \in Int /\ ungated \in Int /\ call[c].cost \in Int
      BY <1>2
    <3> QED BY <3>1, <3>2
  <2>2. \A d \in Callers : Committed(d)' <= Committed(d)
    BY <1>4, CommittedIsNat
  <2> QED BY <1>4, <2>1, <2>2, NothingMore
<1>6. CASE call[c].route # "GET-token-card"
  <2>1. Committed(c) = call[c].cost
    BY <1>1, <1>2, <1>6 DEF Committed, Purse!Asking
  <2>2. AtLeast(1)' = AtLeast(1) \ {c} /\ AtLeast(2)' = AtLeast(2) \ {c}
    BY <1>4 DEF AtLeast
  <2>3. /\ Cardinality(AtLeast(1)') = IF call[c].cost >= 1 THEN Cardinality(AtLeast(1)) - 1 ELSE Cardinality(AtLeast(1))
        /\ Cardinality(AtLeast(2)') = IF call[c].cost >= 2 THEN Cardinality(AtLeast(2)) - 1 ELSE Cardinality(AtLeast(2))
    <3>1. (c \in AtLeast(1) <=> call[c].cost >= 1) /\ (c \in AtLeast(2) <=> call[c].cost >= 2)
      BY <2>1 DEF AtLeast
    <3>2. IsFiniteSet(AtLeast(1)) /\ IsFiniteSet(AtLeast(2))
      BY AtLeastIsBounded
    <3> QED BY <2>2, <3>1, <3>2, FS_RemoveElement
  <2>4. Cardinality(AtLeast(1)) \in Nat /\ Cardinality(AtLeast(2)) \in Nat
    BY AtLeastIsBounded, PurseConstants
  <2>5. InFlight' = InFlight - call[c].cost /\ InFlight \in Nat
    BY <1>2, <2>3, <2>4 DEF InFlight
  <2>6. logged' - ungated' = logged - ungated + call[c].cost
    BY <1>1, <1>2, <1>6
  <2> QED BY <1>2, <1>4, <2>5, <2>6, PurseConstants DEF PurseInv
<1> QED BY <1>5, <1>6

\* Each step of the budget keeps its invariant
LEMMA PurseSteps ==
    Purse!TypeOK /\ PurseInv /\ (Purse!Next \/ UNCHANGED purse) => Purse!TypeOK' /\ PurseInv'
<1> SUFFICES ASSUME Purse!TypeOK, PurseInv, Purse!Next \/ UNCHANGED purse
             PROVE  Purse!TypeOK' /\ PurseInv'
  OBVIOUS
<1>1. CASE UNCHANGED <<call, logged, ungated, sales>> /\ tripped' \in BOOLEAN /\ UNCHANGED leaked
  BY <1>1 DEF Purse!TypeOK, PurseInv, CostsFit, InFlight, AtLeast, Committed
<1>2. ASSUME NEW c \in Callers, NEW route \in {"POST-token-card", "GET-token-card", "fact-check"},
             Purse!Arrive(c, route)
      PROVE  Purse!TypeOK' /\ PurseInv'
  BY <1>2, ArriveKeeps
<1>3. ASSUME NEW c \in Callers, Purse!AskClaude(c) PROVE Purse!TypeOK' /\ PurseInv'
  BY <1>3, AskClaudeKeeps
<1>4. ASSUME NEW c \in Callers, Purse!DoWithout(c) PROVE Purse!TypeOK' /\ PurseInv'
  <2>1. /\ call[c].at \in {"card", "queries", "verdict"} \cup Purse!Asking
        /\ Purse!Move(c, Purse!After(call[c].at))
        /\ UNCHANGED <<logged, ungated, sales>> /\ tripped' \in BOOLEAN /\ leaked' \in Nat
    BY <1>4 DEF Purse!DoWithout, Purse!TypeOK
  <2> QED BY <2>1, MovingOn
<1>5. ASSUME NEW c \in Callers, Purse!Answered(c) PROVE Purse!TypeOK' /\ PurseInv'
  BY <1>5, AnsweredKeeps
<1>6. ASSUME NEW c \in Callers, Purse!Malformed(c) PROVE Purse!TypeOK' /\ PurseInv'
  <2>1. /\ call[c].at \in {"card", "queries", "verdict"} \cup Purse!Asking
        /\ Purse!Move(c, Purse!After(call[c].at))
        /\ UNCHANGED <<logged, ungated, sales>> /\ tripped' \in BOOLEAN /\ leaked' \in Nat
    BY <1>6 DEF Purse!Malformed, Purse!TypeOK, Purse!Asking
  <2> QED BY <2>1, MovingOn
<1>7. ASSUME NEW c \in Callers, NEW billing \in BOOLEAN, Purse!ClaudeFails(c, billing)
      PROVE  Purse!TypeOK' /\ PurseInv'
  <2>1. /\ call[c].at \in {"card", "queries", "verdict"} \cup Purse!Asking
        /\ Purse!Move(c, Purse!After(call[c].at))
        /\ UNCHANGED <<logged, ungated, sales>> /\ tripped' \in BOOLEAN /\ leaked' \in Nat
    BY <1>7 DEF Purse!ClaudeFails, Purse!TypeOK
  <2> QED BY <2>1, MovingOn
<1>8. ASSUME NEW c \in Callers, Purse!LogPaid(c) PROVE Purse!TypeOK' /\ PurseInv'
  BY <1>8, LogPaidKeeps
<1>9. ASSUME NEW c \in Callers, Purse!FailLate(c) PROVE Purse!TypeOK' /\ PurseInv'
  BY <1>9, FailLateKeeps
<1>10. CASE Purse!Cooldown
  BY <1>1, <1>10 DEF Purse!Cooldown
<1>11. CASE UNCHANGED purse
  BY <1>1, <1>11 DEF purse, Purse!TypeOK
<1> QED BY <1>2, <1>3, <1>4, <1>5, <1>6, <1>7, <1>8, <1>9, <1>10, <1>11 DEF Purse!Next

\* The invariant of the budget gives the property
LEMMA PurseHolds == Purse!TypeOK /\ PurseInv => Purse!SpendingIsBounded
<1> SUFFICES ASSUME Purse!TypeOK, PurseInv PROVE logged - ungated < Budget + 2 * Cardinality(Callers)
  BY PurseCounts DEF Purse!SpendingIsBounded
<1>1. InFlight \in Nat /\ logged - ungated \in Int
  BY AtLeastIsBounded, PurseConstants DEF InFlight, Purse!TypeOK
<1> QED BY <1>1, PurseConstants DEF PurseInv

-----------------------------------------------------------------------------
(* The boards.                                                             *)

IsBounty(i) == \E r \in rows : r.id = i /\ r.sheet = "bounties"
Fresh(s, p) == {r \in rows : r.sheet = s /\ r.print = p /\ r.fresh}
\* The calls in flight that will insert a text, settle a row, or be counted
Inserting(s, p) == {c \in Containers : desk[c].do = "insert" /\ desk[c].sheet = s /\ desk[c].print = p}
Settling(i) == {c \in Containers : desk[c].do = "settle" /\ desk[c].row = i}
Counting(k, a) ==
    {c \in Containers :
        \/ desk[c].do = "insert" /\ Boards!CounterOf(desk[c].sheet) = k /\ desk[c].from = a
        \/ desk[c].do = "settle" /\ desk[c].from = a /\ k = "mesh" /\ IsBounty(desk[c].row)}

RowsAreNumbered ==
    /\ IsFiniteSet(rows)
    /\ \A r, s \in rows : r.id = s.id => r = s
    /\ \A r \in rows : r.id <= Cardinality(rows)
    /\ \A c \in Containers : desk[c].do = "settle" => \E r \in rows : r.id = desk[c].row
    /\ \A i \in 1..MaxRows : told[i] > 0 => \E r \in rows : r.id = i
ClaimsAreCounted ==
    /\ \A r \in rows : r.state = "open" => told[r.id] = 0
    /\ \A i \in 1..MaxRows : told[i] + Cardinality(Settling(i)) <= Cardinality(Containers)
RepeatsAreCounted ==
    \A s \in Sheets, p \in Prints :
        Cardinality(Fresh(s, p)) + Cardinality(Inserting(s, p)) <= Cardinality(Containers)
WritesAreCounted ==
    \A k \in Boards!Counters, a \in Addresses :
        ~(k = "mesh" /\ a = "mcp") =>
            recent[<<k, a>>] + Cardinality(Counting(k, a)) <= PerHour + Cardinality(Containers) - 1
BoardsInv == RowsAreNumbered /\ ClaimsAreCounted /\ RepeatsAreCounted /\ WritesAreCounted

\* The boards count as this module does
LEMMA BoardsCounts == \A S : /\ Boards!IsFiniteSet(S) <=> IsFiniteSet(S)
                            /\ Boards!Cardinality(S) = Cardinality(S)
BY DEF Boards!IsFiniteSet, Boards!Cardinality, IsFiniteSet, Cardinality

\* What the boards assume of their constants
LEMMA BoardsConstants ==
    /\ IsFiniteSet(Containers) /\ Cardinality(Containers) \in Nat \ {0}
    /\ Sheets \subseteq {"nodes", "bounties", "letters"}
    /\ PerHour \in Nat /\ MaxRows \in Nat
<1>1. /\ IsFiniteSet(Containers) /\ Containers # {} /\ PerHour \in Nat /\ MaxRows \in Nat
      /\ Sheets \subseteq {"nodes", "bounties", "letters"}
  BY ErrandsConstants, BoardsCounts DEF Boards!BoardConstants
<1>2. Cardinality(Containers) \in Nat /\ Cardinality(Containers) # 0
  BY <1>1, FS_CardinalityType, FS_EmptySet
<1> QED BY <1>1, <1>2

\* There are no more calls in flight than containers
LEMMA InFlightIsBounded == ASSUME NEW S, S \subseteq Containers PROVE
    IsFiniteSet(S) /\ Cardinality(S) \in 0..Cardinality(Containers)
BY BoardsConstants, Part

DeskStates == {Boards!Idle}
            \cup [do : {"insert"}, sheet : Sheets, print : Prints, from : Addresses]
            \cup [do : {"settle"}, row : 1..MaxRows, from : Addresses]

\* What a desk can hold, by what it does
LEMMA Desks == ASSUME NEW d \in DeskStates PROVE
    /\ d.do \in {"nothing", "insert", "settle"}
    /\ d.do = "nothing" <=> d = Boards!Idle
    /\ d.do = "insert" => d.sheet \in Sheets /\ d.print \in Prints /\ d.from \in Addresses
    /\ d.do = "settle" => d.row \in 1..MaxRows /\ d.from \in Addresses
BY DEF DeskStates, Boards!Idle

\* The start: the boards are empty
LEMMA BoardsStart == Boards!Init => Boards!TypeOK /\ BoardsInv
<1> SUFFICES ASSUME Boards!Init PROVE Boards!TypeOK /\ BoardsInv
  OBVIOUS
<1>1. /\ rows = {} /\ \A c \in Containers : desk[c] = Boards!Idle /\ desk[c].do = "nothing"
      /\ \A i \in 1..MaxRows : told[i] = 0
      /\ \A k \in Boards!Counters, a \in Addresses : recent[<<k, a>>] = 0
  BY DEF Boards!Init, Boards!Idle
<1>2. Boards!TypeOK
  BY DEF Boards!Init, Boards!TypeOK
<1>3. \A s, p, i, k, a : /\ Fresh(s, p) = {} /\ Inserting(s, p) = {}
                         /\ Settling(i) = {} /\ Counting(k, a) = {}
  BY <1>1 DEF Fresh, Inserting, Settling, Counting
<1>4. IsFiniteSet({}) /\ Cardinality({}) = 0
  BY FS_EmptySet
<1>5. RowsAreNumbered
  BY <1>1, <1>4 DEF RowsAreNumbered
<1>6. ClaimsAreCounted
  <2>1. \A i : Cardinality(Settling(i)) = 0
    BY <1>3, <1>4
  <2> QED BY <1>1, <2>1, BoardsConstants DEF ClaimsAreCounted
<1>7. RepeatsAreCounted
  <2>1. \A s, p : Cardinality(Fresh(s, p)) = 0 /\ Cardinality(Inserting(s, p)) = 0
    BY <1>3, <1>4
  <2> QED BY <2>1, BoardsConstants DEF RepeatsAreCounted
<1>8. WritesAreCounted
  <2>1. \A k, a : Cardinality(Counting(k, a)) = 0
    BY <1>3, <1>4
  <2> QED BY <1>1, <2>1, BoardsConstants DEF WritesAreCounted
<1> QED BY <1>2, <1>5, <1>6, <1>7, <1>8 DEF BoardsInv

\* A call that may insert is in flight, and was counted when it read
LEMMA ReadsForInsertKeeps ==
    ASSUME Boards!TypeOK, BoardsInv, NEW c \in Containers, NEW s0 \in Sheets, NEW p0 \in Prints,
           NEW a0 \in Addresses, Boards!ReadsForInsert(c, s0, p0, a0)
    PROVE  Boards!TypeOK' /\ BoardsInv'
<1> USE BoardsConstants
<1> DEFINE d0 == [do |-> "insert", sheet |-> s0, print |-> p0, from |-> a0]
<1>1. /\ desk \in [Containers -> DeskStates] /\ desk[c] = Boards!Idle /\ desk' = [desk EXCEPT ![c] = d0]
      /\ rows' = rows /\ recent' = recent /\ told' = told
  BY DEF Boards!ReadsForInsert, Boards!TypeOK, DeskStates
<1>2. d0 \in DeskStates
  BY DEF DeskStates
<1>3. desk' \in [Containers -> DeskStates] /\ desk'[c] = d0 /\ \A d \in Containers \ {c} : desk'[d] = desk[d]
  BY <1>1, <1>2
<1>4. d0.do = "insert" /\ d0.sheet = s0 /\ d0.print = p0 /\ d0.from = a0 /\ desk[c].do = "nothing"
  BY <1>1 DEF Boards!Idle
<1> HIDE DEF d0
<1>5. Boards!TypeOK'
  BY <1>1, <1>3 DEF Boards!TypeOK, DeskStates
<1>6. \A i : IsBounty(i)' <=> IsBounty(i)
  BY <1>1 DEF IsBounty
<1>7. RowsAreNumbered'
  BY <1>1, <1>3, <1>4 DEF BoardsInv, RowsAreNumbered
<1>8. \A i : Settling(i)' = Settling(i)
  BY <1>3, <1>4 DEF Settling
<1>9. ClaimsAreCounted'
  BY <1>1, <1>8 DEF BoardsInv, ClaimsAreCounted
<1>10. RepeatsAreCounted'
  <2> SUFFICES ASSUME NEW s \in Sheets, NEW p \in Prints
               PROVE  Cardinality(Fresh(s, p)') + Cardinality(Inserting(s, p)') <= Cardinality(Containers)
    BY DEF RepeatsAreCounted
  <2>1. Fresh(s, p)' = Fresh(s, p)
    BY <1>1 DEF Fresh
  <2>2. CASE s = s0 /\ p = p0
    <3>1. Fresh(s, p) = {}
      BY <2>2 DEF Fresh, Boards!ReadsForInsert, Boards!Duplicate
    <3>2. Cardinality(Fresh(s, p)') = 0
      BY <2>1, <3>1, FS_EmptySet
    <3>3. Inserting(s, p)' \subseteq Containers
      BY DEF Inserting
    <3> QED BY <3>2, <3>3, InFlightIsBounded
  <2>3. CASE ~(s = s0 /\ p = p0)
    <3>1. Inserting(s, p)' = Inserting(s, p)
      BY <1>3, <1>4, <2>3 DEF Inserting
    <3> QED BY <2>1, <3>1 DEF BoardsInv, RepeatsAreCounted
  <2> QED BY <2>2, <2>3
<1>11. WritesAreCounted'
  <2> SUFFICES ASSUME NEW k \in Boards!Counters, NEW a \in Addresses, ~(k = "mesh" /\ a = "mcp")
               PROVE  recent[<<k, a>>] + Cardinality(Counting(k, a)') <= PerHour + Cardinality(Containers) - 1
    BY <1>1 DEF WritesAreCounted
  <2>1. CASE k = Boards!CounterOf(s0) /\ a = a0
    <3>1. recent[<<k, a>>] < PerHour /\ recent[<<k, a>>] \in Nat
      BY <2>1 DEF Boards!ReadsForInsert, Boards!_rate_limit, Boards!TypeOK
    <3>2. Counting(k, a)' \subseteq Containers
      BY DEF Counting
    <3>3. Cardinality(Counting(k, a)') \in 0..Cardinality(Containers)
      BY <3>2, InFlightIsBounded
    <3> QED BY <3>1, <3>3
  <2>2. CASE ~(k = Boards!CounterOf(s0) /\ a = a0)
    <3>1. Counting(k, a)' = Counting(k, a)
      BY <1>3, <1>4, <1>6, <2>2 DEF Counting
    <3> QED BY <3>1 DEF BoardsInv, WritesAreCounted
  <2> QED BY <2>1, <2>2
<1> QED BY <1>5, <1>7, <1>9, <1>10, <1>11 DEF BoardsInv

\* A call that may settle an open row is in flight
LEMMA ReadsForSettlingKeeps ==
    ASSUME Boards!TypeOK, BoardsInv, NEW c \in Containers, NEW r0 \in rows,
           NEW a0 \in Addresses, Boards!ReadsForSettling(c, r0, a0)
    PROVE  Boards!TypeOK' /\ BoardsInv'
<1> USE BoardsConstants
<1> DEFINE d0 == [do |-> "settle", row |-> r0.id, from |-> a0]
<1>1. /\ desk \in [Containers -> DeskStates] /\ desk[c] = Boards!Idle /\ desk' = [desk EXCEPT ![c] = d0]
      /\ rows' = rows /\ recent' = recent /\ told' = told
      /\ r0.sheet # "nodes" /\ r0.state = "open"
  BY DEF Boards!ReadsForSettling, Boards!IsOpen, Boards!TypeOK, DeskStates
<1>2. r0.id \in 1..MaxRows /\ r0.sheet \in Sheets /\ r0 \in Boards!Row
  BY DEF Boards!TypeOK, Boards!Row
<1>3. d0 \in DeskStates
  BY <1>2 DEF DeskStates
<1>4. desk' \in [Containers -> DeskStates] /\ desk'[c] = d0 /\ \A d \in Containers \ {c} : desk'[d] = desk[d]
  BY <1>1, <1>3
<1>5. d0.do = "settle" /\ d0.row = r0.id /\ d0.from = a0 /\ desk[c].do = "nothing"
  BY <1>1 DEF Boards!Idle
<1> HIDE DEF d0
<1>6. Boards!TypeOK'
  BY <1>1, <1>4 DEF Boards!TypeOK, DeskStates
<1>7. \A i : IsBounty(i)' <=> IsBounty(i)
  BY <1>1 DEF IsBounty
<1>8. RowsAreNumbered'
  BY <1>1, <1>4, <1>5 DEF BoardsInv, RowsAreNumbered
<1>9. ClaimsAreCounted'
  <2> SUFFICES ASSUME NEW i \in 1..MaxRows
               PROVE  told[i] + Cardinality(Settling(i)') <= Cardinality(Containers)
    BY <1>1 DEF BoardsInv, ClaimsAreCounted
  <2>1. CASE i = r0.id
    <3>1. told[i] = 0
      BY <1>1, <2>1 DEF BoardsInv, ClaimsAreCounted
    <3>2. Settling(i)' \subseteq Containers
      BY DEF Settling
    <3> QED BY <3>1, <3>2, InFlightIsBounded
  <2>2. CASE i # r0.id
    <3>1. Settling(i)' = Settling(i)
      BY <1>4, <1>5, <2>2 DEF Settling
    <3> QED BY <3>1 DEF BoardsInv, ClaimsAreCounted
  <2> QED BY <2>1, <2>2
<1>10. RepeatsAreCounted'
  <2>1. \A s, p : Fresh(s, p)' = Fresh(s, p) /\ Inserting(s, p)' = Inserting(s, p)
    BY <1>1, <1>4, <1>5 DEF Fresh, Inserting
  <2> QED BY <2>1 DEF BoardsInv, RepeatsAreCounted
<1>11. WritesAreCounted'
  <2> SUFFICES ASSUME NEW k \in Boards!Counters, NEW a \in Addresses, ~(k = "mesh" /\ a = "mcp")
               PROVE  recent[<<k, a>>] + Cardinality(Counting(k, a)') <= PerHour + Cardinality(Containers) - 1
    BY <1>1 DEF WritesAreCounted
  <2>1. CASE k = "mesh" /\ a = a0 /\ r0.sheet = "bounties"
    <3>1. recent[<<k, a>>] < PerHour /\ recent[<<k, a>>] \in Nat
      BY <2>1 DEF Boards!ReadsForSettling, Boards!_rate_limit, Boards!TypeOK
    <3>2. Counting(k, a)' \subseteq Containers
      BY DEF Counting
    <3>3. Cardinality(Counting(k, a)') \in 0..Cardinality(Containers)
      BY <3>2, InFlightIsBounded
    <3> QED BY <3>1, <3>3
  <2>2. CASE ~(k = "mesh" /\ a = a0 /\ r0.sheet = "bounties")
    <3>1. IsBounty(r0.id) <=> r0.sheet = "bounties"
      BY DEF IsBounty, BoardsInv, RowsAreNumbered
    <3>2. Counting(k, a)' = Counting(k, a)
      BY <1>4, <1>5, <1>7, <2>2, <3>1 DEF Counting
    <3> QED BY <3>2 DEF BoardsInv, WritesAreCounted
  <2> QED BY <2>1, <2>2
<1> QED BY <1>6, <1>8, <1>9, <1>10, <1>11 DEF BoardsInv

\* A row that is replaced keeps its number and its sheet
LEMMA OneRow ==
    ASSUME Boards!TypeOK, RowsAreNumbered, NEW r0 \in rows, NEW r1 \in Boards!Row,
           r1.id = r0.id, r1.sheet = r0.sheet, rows' = (rows \ {r0}) \cup {r1}
    PROVE  /\ rows' \subseteq Boards!Row /\ IsFiniteSet(rows') /\ Cardinality(rows') = Cardinality(rows)
           /\ \A r, s \in rows' : r.id = s.id => r = s
           /\ \A r \in rows' : r.id <= Cardinality(rows')
           /\ \A i : (\E r \in rows : r.id = i) <=> (\E r \in rows' : r.id = i)
           /\ \A i : IsBounty(i)' <=> IsBounty(i)
<1>1. r1 \notin rows \ {r0}
  BY DEF RowsAreNumbered
<1>2. IsFiniteSet(rows') /\ Cardinality(rows') = Cardinality(rows)
  BY <1>1, Swap DEF RowsAreNumbered
<1>3. \A r, s \in rows' : r.id = s.id => r = s
  BY DEF RowsAreNumbered
<1>4. \A r \in rows' : r.id <= Cardinality(rows')
  BY <1>2 DEF RowsAreNumbered
<1>5. \A i : (\E r \in rows : r.id = i) <=> (\E r \in rows' : r.id = i)
  OBVIOUS
<1>6. \A i : IsBounty(i)' <=> IsBounty(i)
  BY DEF IsBounty
<1>7. rows' \subseteq Boards!Row
  BY DEF Boards!TypeOK
<1> QED BY <1>2, <1>3, <1>4, <1>5, <1>6, <1>7

\* An insert adds the row it was counted for
LEMMA InsertsKeeps ==
    ASSUME Boards!TypeOK, BoardsInv, NEW c \in Containers, Boards!Inserts(c)
    PROVE  Boards!TypeOK' /\ BoardsInv'
<1> USE BoardsConstants
<1> DEFINE d0 == desk[c]
           n == Cardinality(rows) + 1
           r1 == [id |-> n, sheet |-> d0.sheet, print |-> d0.print, fresh |-> TRUE, state |-> "open"]
           k0 == Boards!CounterOf(d0.sheet)
<1>1. /\ d0.do = "insert" /\ Cardinality(rows) < MaxRows /\ told' = told
      /\ rows' = rows \cup {r1}
      /\ recent' = [recent EXCEPT ![<<k0, d0.from>>] = @ + 1]
      /\ desk' = [desk EXCEPT ![c] = Boards!Idle]
  BY BoardsCounts DEF Boards!Inserts, Boards!Counted
<1>2. desk \in [Containers -> DeskStates]
  BY DEF Boards!TypeOK, DeskStates
<1>3. d0.sheet \in Sheets /\ d0.print \in Prints /\ d0.from \in Addresses
  BY <1>1, <1>2, Desks
<1>4. /\ desk' \in [Containers -> DeskStates] /\ desk'[c] = Boards!Idle /\ desk'[c].do = "nothing"
      /\ \A d \in Containers \ {c} : desk'[d] = desk[d]
  BY <1>1, <1>2 DEF DeskStates, Boards!Idle
<1>5. IsFiniteSet(rows) /\ Cardinality(rows) \in Nat /\ n \in 1..MaxRows
  BY <1>1, FS_CardinalityType DEF BoardsInv, RowsAreNumbered
<1>6. /\ r1 \in Boards!Row /\ r1.id = n /\ r1.sheet = d0.sheet /\ r1.print = d0.print
      /\ r1.fresh /\ r1.state = "open"
  BY <1>3, <1>5 DEF Boards!Row
<1>7. k0 \in Boards!Counters
  BY DEF Boards!CounterOf, Boards!Counters
<1> HIDE DEF d0, r1, k0
<1>8. recent' \in [Boards!Counters \X Addresses -> Nat]
  <2>1. <<k0, d0.from>> \in Boards!Counters \X Addresses
    BY <1>3, <1>7
  <2> QED BY <1>1, <2>1 DEF Boards!TypeOK
<1>9. Boards!TypeOK'
  BY <1>1, <1>4, <1>6, <1>8 DEF Boards!TypeOK, DeskStates
<1>10. \A r \in rows : r.id <= Cardinality(rows) /\ r.id \in Nat /\ r.id # n
  BY <1>5 DEF BoardsInv, RowsAreNumbered, Boards!TypeOK, Boards!Row
<1>11. r1 \notin rows
  BY <1>6, <1>10
<1>12. IsFiniteSet(rows') /\ Cardinality(rows') = n
  BY <1>1, <1>5, <1>11, Plus
<1>13. RowsAreNumbered'
  <2>1. \A r, s \in rows' : r.id = s.id => r = s
    BY <1>1, <1>6, <1>10 DEF BoardsInv, RowsAreNumbered
  <2>2. \A r \in rows' : r.id <= Cardinality(rows')
    BY <1>1, <1>5, <1>6, <1>10, <1>12
  <2>3. \A d \in Containers : desk'[d].do = "settle" => \E r \in rows' : r.id = desk'[d].row
    BY <1>1, <1>4 DEF BoardsInv, RowsAreNumbered
  <2>4. \A i \in 1..MaxRows : told'[i] > 0 => \E r \in rows' : r.id = i
    BY <1>1 DEF BoardsInv, RowsAreNumbered
  <2> QED BY <1>12, <2>1, <2>2, <2>3, <2>4 DEF RowsAreNumbered
<1>14. ClaimsAreCounted'
  <2>1. \A i : Settling(i)' = Settling(i)
    BY <1>1, <1>4 DEF Settling, d0
  <2>2. told[n] = 0
    <3>1. told[n] \in Nat
      BY <1>5 DEF Boards!TypeOK
    <3>2. ~(told[n] > 0)
      BY <1>5, <1>10 DEF BoardsInv, RowsAreNumbered
    <3> QED BY <3>1, <3>2
  <2>3. \A r \in rows' : r.state = "open" => told[r.id] = 0
    BY <1>1, <1>6, <2>2 DEF BoardsInv, ClaimsAreCounted
  <2> QED BY <1>1, <2>1, <2>3 DEF BoardsInv, ClaimsAreCounted
<1>15. RepeatsAreCounted'
  <2> SUFFICES ASSUME NEW s \in Sheets, NEW p \in Prints
               PROVE  Cardinality(Fresh(s, p)') + Cardinality(Inserting(s, p)') <= Cardinality(Containers)
    BY DEF RepeatsAreCounted
  <2>1. Inserting(s, p) \subseteq Containers /\ Fresh(s, p) \subseteq rows
    BY DEF Inserting, Fresh
  <2>2. /\ IsFiniteSet(Inserting(s, p)) /\ Cardinality(Inserting(s, p)) \in Nat
        /\ IsFiniteSet(Fresh(s, p)) /\ Cardinality(Fresh(s, p)) \in Nat
    BY <1>5, <2>1, Part
  <2>3. Cardinality(Fresh(s, p)) + Cardinality(Inserting(s, p)) <= Cardinality(Containers)
    BY DEF BoardsInv, RepeatsAreCounted
  <2>4. CASE s = d0.sheet /\ p = d0.print
    <3>1. Inserting(s, p)' = Inserting(s, p) \ {c} /\ c \in Inserting(s, p)
      BY <1>1, <1>4, <2>4 DEF Inserting, d0
    <3>2. Fresh(s, p)' = Fresh(s, p) \cup {r1} /\ r1 \notin Fresh(s, p)
      BY <1>1, <1>6, <1>11, <2>4 DEF Fresh
    <3>3. Cardinality(Inserting(s, p)') = Cardinality(Inserting(s, p)) - 1
      BY <2>2, <3>1, Minus
    <3>4. Cardinality(Fresh(s, p)') = Cardinality(Fresh(s, p)) + 1
      BY <2>2, <3>2, Plus
    <3> QED BY <2>2, <2>3, <3>3, <3>4
  <2>5. CASE ~(s = d0.sheet /\ p = d0.print)
    <3>1. Inserting(s, p)' = Inserting(s, p)
      BY <1>1, <1>4, <2>5 DEF Inserting, d0
    <3>2. Fresh(s, p)' = Fresh(s, p)
      BY <1>1, <1>6, <2>5 DEF Fresh
    <3> QED BY <2>3, <3>1, <3>2
  <2> QED BY <2>4, <2>5
<1>16. WritesAreCounted'
  <2> SUFFICES ASSUME NEW k \in Boards!Counters, NEW a \in Addresses, ~(k = "mesh" /\ a = "mcp")
               PROVE  recent'[<<k, a>>] + Cardinality(Counting(k, a)') <= PerHour + Cardinality(Containers) - 1
    BY DEF WritesAreCounted
  <2>1. Counting(k, a) \subseteq Containers
    BY DEF Counting
  <2>2. IsFiniteSet(Counting(k, a)) /\ Cardinality(Counting(k, a)) \in Nat
    BY <2>1, Part
  <2>3. /\ recent[<<k, a>>] + Cardinality(Counting(k, a)) <= PerHour + Cardinality(Containers) - 1
        /\ recent[<<k, a>>] \in Nat
    BY DEF BoardsInv, WritesAreCounted, Boards!TypeOK
  <2>4. \A d \in Containers \ {c} : desk[d].do = "settle" => (IsBounty(desk[d].row)' <=> IsBounty(desk[d].row))
    <3>1. \A d \in Containers : desk[d].do = "settle" => \E r \in rows : r.id = desk[d].row
      BY DEF BoardsInv, RowsAreNumbered
    <3> QED BY <1>1, <1>4, <1>6, <1>10, <3>1 DEF IsBounty
  <2>5. \A d \in Containers \ {c} : d \in Counting(k, a)' <=> d \in Counting(k, a)
    BY <1>4, <2>4 DEF Counting
  <2>6. c \notin Counting(k, a)'
    BY <1>4 DEF Counting
  <2>7. c \in Counting(k, a) <=> k = k0 /\ a = d0.from
    BY <1>1 DEF Counting, d0, k0
  <2>8. Counting(k, a)' \subseteq Containers
    BY DEF Counting
  <2>9. CASE k = k0 /\ a = d0.from
    <3>1. Counting(k, a)' = Counting(k, a) \ {c}
      BY <2>1, <2>5, <2>6, <2>8
    <3>2. Cardinality(Counting(k, a)') = Cardinality(Counting(k, a)) - 1
      BY <2>2, <2>7, <2>9, <3>1, Minus
    <3>3. recent'[<<k, a>>] = recent[<<k, a>>] + 1
      BY <1>1, <1>3, <1>7, <2>9 DEF Boards!TypeOK
    <3> QED BY <2>2, <2>3, <3>2, <3>3
  <2>10. CASE ~(k = k0 /\ a = d0.from)
    <3>1. Counting(k, a)' = Counting(k, a)
      BY <2>1, <2>5, <2>6, <2>7, <2>8, <2>10
    <3>2. recent'[<<k, a>>] = recent[<<k, a>>]
      BY <1>1, <1>3, <1>7, <2>10 DEF Boards!TypeOK
    <3> QED BY <2>3, <3>1, <3>2
  <2> QED BY <2>9, <2>10
<1> QED BY <1>9, <1>13, <1>14, <1>15, <1>16 DEF BoardsInv

\* A row is settled by a call that was counted for it
LEMMA SettlesKeeps ==
    ASSUME Boards!TypeOK, BoardsInv, NEW c \in Containers, Boards!Settles(c)
    PROVE  Boards!TypeOK' /\ BoardsInv'
<1> USE BoardsConstants
<1> DEFINE d0 == desk[c]
<1>1. /\ d0.do = "settle"
      /\ rows' = {IF r.id = d0.row THEN [r EXCEPT !.state = "settled"] ELSE r : r \in rows}
      /\ told' = [told EXCEPT ![d0.row] = @ + 1]
      /\ recent' = IF IsBounty(d0.row) THEN Boards!Counted("mesh", d0.from) ELSE recent
      /\ desk' = [desk EXCEPT ![c] = Boards!Idle]
  BY DEF Boards!Settles, IsBounty
<1>2. desk \in [Containers -> DeskStates]
  BY DEF Boards!TypeOK, DeskStates
<1>3. d0.row \in 1..MaxRows /\ d0.from \in Addresses
  BY <1>1, <1>2, Desks
<1>4. /\ desk' \in [Containers -> DeskStates] /\ desk'[c] = Boards!Idle /\ desk'[c].do = "nothing"
      /\ \A d \in Containers \ {c} : desk'[d] = desk[d]
  BY <1>1, <1>2 DEF DeskStates, Boards!Idle
<1>5. PICK r0 \in rows : r0.id = d0.row
  BY <1>1 DEF BoardsInv, RowsAreNumbered
<1> DEFINE r1 == [r0 EXCEPT !.state = "settled"]
<1>6. r0 \in Boards!Row
  BY DEF Boards!TypeOK
<1>7. /\ r1 \in Boards!Row /\ r1.id = r0.id /\ r1.sheet = r0.sheet /\ r1.print = r0.print
      /\ r1.fresh = r0.fresh /\ r1.state = "settled"
  BY <1>6 DEF Boards!Row
<1>8. \A r \in rows : r.id = d0.row => r = r0
  BY <1>5 DEF BoardsInv, RowsAreNumbered
<1>9. rows' = (rows \ {r0}) \cup {r1}
  BY <1>1, <1>5, <1>8
<1> HIDE DEF d0, r1
<1>10. /\ rows' \subseteq Boards!Row /\ IsFiniteSet(rows') /\ Cardinality(rows') = Cardinality(rows)
       /\ \A r, s \in rows' : r.id = s.id => r = s
       /\ \A r \in rows' : r.id <= Cardinality(rows')
       /\ \A i : (\E r \in rows : r.id = i) <=> (\E r \in rows' : r.id = i)
       /\ \A i : IsBounty(i)' <=> IsBounty(i)
  BY <1>7, <1>9, OneRow DEF BoardsInv
<1>11. told' \in [1..MaxRows -> Nat] /\ told'[d0.row] = told[d0.row] + 1
       /\ \A i \in 1..MaxRows : i # d0.row => told'[i] = told[i]
  BY <1>1, <1>3 DEF Boards!TypeOK
<1>12. recent' \in [Boards!Counters \X Addresses -> Nat]
  <2>1. <<"mesh", d0.from>> \in Boards!Counters \X Addresses
    BY <1>3 DEF Boards!Counters
  <2> QED BY <1>1, <2>1 DEF Boards!TypeOK, Boards!Counted
<1>13. Boards!TypeOK'
  BY <1>4, <1>10, <1>11, <1>12 DEF Boards!TypeOK, DeskStates
<1>14. RowsAreNumbered'
  <2>1. \A d \in Containers : desk'[d].do = "settle" => \E r \in rows' : r.id = desk'[d].row
    BY <1>4, <1>10 DEF BoardsInv, RowsAreNumbered
  <2>2. \A i \in 1..MaxRows : told'[i] > 0 => \E r \in rows' : r.id = i
    <3> SUFFICES ASSUME NEW i \in 1..MaxRows, told'[i] > 0 PROVE \E r \in rows : r.id = i
      BY <1>10
    <3>1. CASE i = d0.row
      BY <1>5, <3>1
    <3>2. CASE i # d0.row
      BY <1>11, <3>2 DEF BoardsInv, RowsAreNumbered
    <3> QED BY <3>1, <3>2
  <2> QED BY <1>10, <2>1, <2>2 DEF RowsAreNumbered
<1>15. ClaimsAreCounted'
  <2>1. \A r \in rows' : r.state = "open" => told'[r.id] = 0
    <3> SUFFICES ASSUME NEW r \in rows', r.state = "open" PROVE told'[r.id] = 0
      OBVIOUS
    <3>1. r \in rows /\ r # r0
      BY <1>7, <1>9
    <3>2. r.id # d0.row /\ r.id \in 1..MaxRows
      BY <1>8, <3>1 DEF Boards!TypeOK, Boards!Row
    <3>3. told[r.id] = 0
      BY <3>1 DEF BoardsInv, ClaimsAreCounted
    <3> QED BY <1>11, <3>2, <3>3
  <2>2. \A i \in 1..MaxRows : told'[i] + Cardinality(Settling(i)') <= Cardinality(Containers)
    <3> SUFFICES ASSUME NEW i \in 1..MaxRows
                 PROVE  told'[i] + Cardinality(Settling(i)') <= Cardinality(Containers)
      OBVIOUS
    <3>1. told[i] + Cardinality(Settling(i)) <= Cardinality(Containers) /\ told[i] \in Nat
      BY DEF BoardsInv, ClaimsAreCounted, Boards!TypeOK
    <3>2. CASE i = d0.row
      <4>1. Settling(i)' = Settling(i) \ {c} /\ c \in Settling(i)
        BY <1>1, <1>4, <3>2 DEF Settling, d0
      <4>2. Settling(i) \subseteq Containers
        BY DEF Settling
      <4>3. IsFiniteSet(Settling(i)) /\ Cardinality(Settling(i)) \in Nat
        BY <4>2, Part
      <4>4. Cardinality(Settling(i)') = Cardinality(Settling(i)) - 1
        BY <4>1, <4>3, Minus
      <4>5. told'[i] = told[i] + 1
        BY <1>11, <3>2
      <4> QED BY <3>1, <4>3, <4>4, <4>5
    <3>3. CASE i # d0.row
      <4>1. Settling(i)' = Settling(i)
        BY <1>1, <1>4, <3>3 DEF Settling, d0
      <4> QED BY <1>11, <3>1, <3>3, <4>1
    <3> QED BY <3>2, <3>3
  <2> QED BY <2>1, <2>2 DEF ClaimsAreCounted
<1>16. RepeatsAreCounted'
  <2> SUFFICES ASSUME NEW s \in Sheets, NEW p \in Prints
               PROVE  Cardinality(Fresh(s, p)') + Cardinality(Inserting(s, p)') <= Cardinality(Containers)
    BY DEF RepeatsAreCounted
  <2>1. Inserting(s, p)' = Inserting(s, p)
    BY <1>1, <1>4 DEF Inserting, d0
  <2>2. Cardinality(Fresh(s, p)') = Cardinality(Fresh(s, p))
    <3>1. Fresh(s, p) \subseteq rows /\ IsFiniteSet(rows)
      BY DEF Fresh, BoardsInv, RowsAreNumbered
    <3>2. IsFiniteSet(Fresh(s, p))
      BY <3>1, Part
    <3>3. CASE r0 \in Fresh(s, p)
      <4>1. Fresh(s, p)' = (Fresh(s, p) \ {r0}) \cup {r1}
        BY <1>7, <1>9, <3>3 DEF Fresh
      <4>2. r1 \notin Fresh(s, p) \ {r0}
        BY <1>5, <1>7, <1>8 DEF Fresh
      <4>3. Cardinality((Fresh(s, p) \ {r0}) \cup {r1}) = Cardinality(Fresh(s, p))
        BY <3>2, <3>3, <4>2, Swap
      <4> QED BY <4>1, <4>3
    <3>4. CASE r0 \notin Fresh(s, p)
      <4>1. Fresh(s, p)' = Fresh(s, p)
        BY <1>5, <1>7, <1>9, <3>4 DEF Fresh
      <4> QED BY <4>1
    <3> QED BY <3>3, <3>4
  <2> QED BY <2>1, <2>2 DEF BoardsInv, RepeatsAreCounted
<1>17. WritesAreCounted'
  <2> SUFFICES ASSUME NEW k \in Boards!Counters, NEW a \in Addresses, ~(k = "mesh" /\ a = "mcp")
               PROVE  recent'[<<k, a>>] + Cardinality(Counting(k, a)') <= PerHour + Cardinality(Containers) - 1
    BY DEF WritesAreCounted
  <2>1. Counting(k, a) \subseteq Containers
    BY DEF Counting
  <2>2. IsFiniteSet(Counting(k, a)) /\ Cardinality(Counting(k, a)) \in Nat
    BY <2>1, Part
  <2>3. /\ recent[<<k, a>>] + Cardinality(Counting(k, a)) <= PerHour + Cardinality(Containers) - 1
        /\ recent[<<k, a>>] \in Nat
    BY DEF BoardsInv, WritesAreCounted, Boards!TypeOK
  <2>4. Counting(k, a)' = Counting(k, a) \ {c}
    BY <1>4, <1>10 DEF Counting
  <2>5. c \in Counting(k, a) <=> k = "mesh" /\ a = d0.from /\ IsBounty(d0.row)
    BY <1>1 DEF Counting, d0
  <2>6. CASE k = "mesh" /\ a = d0.from /\ IsBounty(d0.row)
    <3>1. Cardinality(Counting(k, a)') = Cardinality(Counting(k, a)) - 1
      BY <2>2, <2>4, <2>5, <2>6, Minus
    <3>2. recent' = [recent EXCEPT ![<<"mesh", d0.from>>] = @ + 1]
      BY <1>1, <2>6 DEF Boards!Counted
    <3>3. recent'[<<k, a>>] = recent[<<k, a>>] + 1
      BY <1>3, <2>6, <3>2 DEF Boards!TypeOK
    <3> QED BY <2>2, <2>3, <3>1, <3>3
  <2>7. CASE ~(k = "mesh" /\ a = d0.from /\ IsBounty(d0.row))
    <3>1. Counting(k, a)' = Counting(k, a)
      BY <2>4, <2>5, <2>7
    <3>2. recent'[<<k, a>>] = recent[<<k, a>>]
      <4>1. CASE ~IsBounty(d0.row)
        BY <1>1, <4>1
      <4>2. CASE IsBounty(d0.row)
        <5>1. recent' = [recent EXCEPT ![<<"mesh", d0.from>>] = @ + 1] /\ <<k, a>> # <<"mesh", d0.from>>
          BY <1>1, <2>7, <4>2 DEF Boards!Counted
        <5> QED BY <5>1 DEF Boards!TypeOK
      <4> QED BY <4>1, <4>2
    <3> QED BY <2>3, <3>1, <3>2
  <2> QED BY <2>6, <2>7
<1> QED BY <1>13, <1>14, <1>15, <1>16, <1>17 DEF BoardsInv

\* Less in flight, or counted
LEMMA LessInFlight ==
    ASSUME Boards!TypeOK, BoardsInv, UNCHANGED <<rows, told>>,
           desk' \in [Containers -> DeskStates], recent' \in [Boards!Counters \X Addresses -> Nat],
           \A d \in Containers : desk'[d] = desk[d] \/ desk'[d] = Boards!Idle,
           \A k \in Boards!Counters, a \in Addresses : recent'[<<k, a>>] <= recent[<<k, a>>]
    PROVE  Boards!TypeOK' /\ BoardsInv'
<1> USE BoardsConstants
<1>1. Boards!TypeOK'
  BY DEF Boards!TypeOK, DeskStates
<1>2. Boards!Idle.do = "nothing"
  BY DEF Boards!Idle
<1>3. \A i : IsBounty(i)' <=> IsBounty(i)
  BY DEF IsBounty
<1>4. \A s, p, i, k, a : /\ Fresh(s, p)' = Fresh(s, p)
                        /\ Inserting(s, p)' \subseteq Inserting(s, p) /\ Settling(i)' \subseteq Settling(i)
                        /\ Counting(k, a)' \subseteq Counting(k, a)
  BY <1>2, <1>3 DEF Fresh, Inserting, Settling, Counting
<1>5. \A s, p, i, k, a : /\ Inserting(s, p) \subseteq Containers /\ Settling(i) \subseteq Containers
                        /\ Counting(k, a) \subseteq Containers
  BY DEF Inserting, Settling, Counting
<1>6. ASSUME NEW S, S \subseteq Containers, NEW T, T \subseteq S
      PROVE  Cardinality(T) <= Cardinality(S) /\ Cardinality(T) \in Nat /\ Cardinality(S) \in Nat
  BY <1>6, Part
<1>7. RowsAreNumbered'
  BY <1>2 DEF BoardsInv, RowsAreNumbered
<1>8. ClaimsAreCounted'
  <2>1. ASSUME NEW i \in 1..MaxRows PROVE told'[i] + Cardinality(Settling(i)') <= Cardinality(Containers)
    <3>1. told[i] + Cardinality(Settling(i)) <= Cardinality(Containers) /\ told[i] \in Nat /\ told' = told
      BY DEF BoardsInv, ClaimsAreCounted, Boards!TypeOK
    <3>2. /\ Cardinality(Settling(i)') <= Cardinality(Settling(i))
          /\ Cardinality(Settling(i)') \in Nat /\ Cardinality(Settling(i)) \in Nat
      BY <1>4, <1>5, <1>6
    <3> QED BY <3>1, <3>2
  <2> QED BY <2>1 DEF BoardsInv, ClaimsAreCounted
<1>9. RepeatsAreCounted'
  <2>1. ASSUME NEW s \in Sheets, NEW p \in Prints
        PROVE  Cardinality(Fresh(s, p)') + Cardinality(Inserting(s, p)') <= Cardinality(Containers)
    <3>1. Cardinality(Fresh(s, p)) + Cardinality(Inserting(s, p)) <= Cardinality(Containers)
      BY DEF BoardsInv, RepeatsAreCounted
    <3>2. /\ Cardinality(Inserting(s, p)') <= Cardinality(Inserting(s, p))
          /\ Cardinality(Inserting(s, p)') \in Nat /\ Cardinality(Inserting(s, p)) \in Nat
      BY <1>4, <1>5, <1>6
    <3>3. Fresh(s, p) \subseteq rows /\ IsFiniteSet(rows)
      BY DEF Fresh, BoardsInv, RowsAreNumbered
    <3>4. Cardinality(Fresh(s, p)) \in Nat
      BY <3>3, Part
    <3>5. Cardinality(Fresh(s, p)') = Cardinality(Fresh(s, p))
      BY <1>4
    <3> QED BY <3>1, <3>2, <3>4, <3>5
  <2> QED BY <2>1 DEF RepeatsAreCounted
<1>10. WritesAreCounted'
  <2>1. ASSUME NEW k \in Boards!Counters, NEW a \in Addresses, ~(k = "mesh" /\ a = "mcp")
        PROVE  recent'[<<k, a>>] + Cardinality(Counting(k, a)') <= PerHour + Cardinality(Containers) - 1
    <3>1. recent[<<k, a>>] + Cardinality(Counting(k, a)) <= PerHour + Cardinality(Containers) - 1
      BY <2>1 DEF BoardsInv, WritesAreCounted
    <3>2. /\ Cardinality(Counting(k, a)') <= Cardinality(Counting(k, a))
          /\ Cardinality(Counting(k, a)') \in Nat /\ Cardinality(Counting(k, a)) \in Nat
      BY <1>4, <1>5, <1>6
    <3>3. recent[<<k, a>>] \in Nat /\ recent'[<<k, a>>] \in Nat /\ recent'[<<k, a>>] <= recent[<<k, a>>]
      BY DEF Boards!TypeOK
    <3> QED BY <3>1, <3>2, <3>3
  <2> QED BY <2>1 DEF WritesAreCounted
<1> QED BY <1>1, <1>7, <1>8, <1>9, <1>10 DEF BoardsInv

\* A day takes rows and counts away
LEMMA ADayPassesKeeps ==
    ASSUME Boards!TypeOK, BoardsInv, NEW r0 \in rows, Boards!ADayPasses(r0)
    PROVE  Boards!TypeOK' /\ BoardsInv'
<1> USE BoardsConstants
<1> DEFINE r1 == [r0 EXCEPT !.fresh = FALSE]
<1>1. /\ rows' = (rows \ {r0}) \cup {r1} /\ recent' = recent /\ desk' = desk /\ told' = told
  BY DEF Boards!ADayPasses
<1>2. r0 \in Boards!Row
  BY DEF Boards!TypeOK
<1>3. /\ r1 \in Boards!Row /\ r1.id = r0.id /\ r1.sheet = r0.sheet /\ r1.print = r0.print
      /\ r1.fresh = FALSE /\ r1.state = r0.state
  BY <1>2 DEF Boards!Row
<1> HIDE DEF r1
<1>4. /\ rows' \subseteq Boards!Row /\ IsFiniteSet(rows') /\ Cardinality(rows') = Cardinality(rows)
      /\ \A r, s \in rows' : r.id = s.id => r = s
      /\ \A r \in rows' : r.id <= Cardinality(rows')
      /\ \A i : (\E r \in rows : r.id = i) <=> (\E r \in rows' : r.id = i)
      /\ \A i : IsBounty(i)' <=> IsBounty(i)
  BY <1>1, <1>3, OneRow DEF BoardsInv
<1>5. Boards!TypeOK'
  BY <1>1, <1>4 DEF Boards!TypeOK
<1>6. RowsAreNumbered'
  BY <1>1, <1>4 DEF BoardsInv, RowsAreNumbered
<1>7. \A s, p, i, k, a : /\ Inserting(s, p)' = Inserting(s, p) /\ Settling(i)' = Settling(i)
                        /\ Counting(k, a)' = Counting(k, a)
  BY <1>1, <1>4 DEF Inserting, Settling, Counting
<1>8. ClaimsAreCounted'
  BY <1>1, <1>3, <1>7 DEF BoardsInv, ClaimsAreCounted
<1>9. RepeatsAreCounted'
  <2>1. ASSUME NEW s \in Sheets, NEW p \in Prints
        PROVE  Cardinality(Fresh(s, p)') + Cardinality(Inserting(s, p)') <= Cardinality(Containers)
    <3>1. Cardinality(Fresh(s, p)) + Cardinality(Inserting(s, p)) <= Cardinality(Containers)
      BY DEF BoardsInv, RepeatsAreCounted
    <3>2. Fresh(s, p)' \subseteq Fresh(s, p)
      BY <1>1, <1>3 DEF Fresh
    <3>3. Fresh(s, p) \subseteq rows /\ IsFiniteSet(rows) /\ Inserting(s, p) \subseteq Containers
      BY DEF Fresh, Inserting, BoardsInv, RowsAreNumbered
    <3>4. IsFiniteSet(Fresh(s, p)) /\ Cardinality(Inserting(s, p)) \in Nat
      BY <3>3, Part
    <3>5. /\ Cardinality(Fresh(s, p)') <= Cardinality(Fresh(s, p))
          /\ Cardinality(Fresh(s, p)') \in Nat /\ Cardinality(Fresh(s, p)) \in Nat
      BY <3>2, <3>4, Part
    <3> QED BY <1>7, <3>1, <3>4, <3>5
  <2> QED BY <2>1 DEF RepeatsAreCounted
<1>10. WritesAreCounted'
  BY <1>1, <1>7 DEF BoardsInv, WritesAreCounted
<1> QED BY <1>5, <1>6, <1>8, <1>9, <1>10 DEF BoardsInv

\* Each step of the boards keeps their invariant
LEMMA BoardsSteps ==
    Boards!TypeOK /\ BoardsInv /\ (Boards!Next \/ UNCHANGED boards) => Boards!TypeOK' /\ BoardsInv'
<1> SUFFICES ASSUME Boards!TypeOK, BoardsInv, Boards!Next \/ UNCHANGED boards
             PROVE  Boards!TypeOK' /\ BoardsInv'
  OBVIOUS
<1>0. desk \in [Containers -> DeskStates] /\ recent \in [Boards!Counters \X Addresses -> Nat]
  BY DEF Boards!TypeOK, DeskStates
<1>1. ASSUME NEW c \in Containers, NEW a \in Addresses, NEW s \in Sheets, NEW p \in Prints,
             Boards!ReadsForInsert(c, s, p, a)
      PROVE  Boards!TypeOK' /\ BoardsInv'
  BY <1>1, ReadsForInsertKeeps
<1>2. ASSUME NEW c \in Containers, NEW a \in Addresses, NEW r \in rows, Boards!ReadsForSettling(c, r, a)
      PROVE  Boards!TypeOK' /\ BoardsInv'
  BY <1>2, ReadsForSettlingKeeps
<1>3. ASSUME NEW c \in Containers, Boards!Inserts(c) PROVE Boards!TypeOK' /\ BoardsInv'
  BY <1>3, InsertsKeeps
<1>4. ASSUME NEW c \in Containers, Boards!Settles(c) PROVE Boards!TypeOK' /\ BoardsInv'
  BY <1>4, SettlesKeeps
<1>5. ASSUME NEW c \in Containers, Boards!GivesUp(c) PROVE Boards!TypeOK' /\ BoardsInv'
  <2>1. UNCHANGED <<rows, recent, told>> /\ desk' = [desk EXCEPT ![c] = Boards!Idle]
    BY <1>5 DEF Boards!GivesUp
  <2>2. /\ desk' \in [Containers -> DeskStates]
        /\ \A d \in Containers : desk'[d] = desk[d] \/ desk'[d] = Boards!Idle
    BY <1>0, <2>1 DEF DeskStates
  <2>3. \A k \in Boards!Counters, a \in Addresses : recent'[<<k, a>>] <= recent[<<k, a>>]
    BY <1>0, <2>1
  <2> QED BY <1>0, <2>1, <2>2, <2>3, LessInFlight
<1>6. ASSUME NEW k0 \in Boards!Counters, NEW a0 \in Addresses, Boards!AnHourPasses(k0, a0)
      PROVE  Boards!TypeOK' /\ BoardsInv'
  <2>1. /\ UNCHANGED <<rows, desk, told>> /\ recent[<<k0, a0>>] > 0
        /\ recent' = [recent EXCEPT ![<<k0, a0>>] = @ - 1]
    BY <1>6 DEF Boards!AnHourPasses
  <2>2. <<k0, a0>> \in Boards!Counters \X Addresses /\ recent[<<k0, a0>>] - 1 \in Nat
    BY <1>0, <2>1
  <2>3. /\ recent' \in [Boards!Counters \X Addresses -> Nat]
        /\ \A k \in Boards!Counters, a \in Addresses : recent'[<<k, a>>] <= recent[<<k, a>>]
    BY <1>0, <2>1, <2>2
  <2> QED BY <1>0, <2>1, <2>3, LessInFlight
<1>7. ASSUME NEW r \in rows, Boards!ADayPasses(r) PROVE Boards!TypeOK' /\ BoardsInv'
  BY <1>7, ADayPassesKeeps
<1>8. CASE UNCHANGED boards
  <2>1. UNCHANGED <<rows, recent, desk, told>>
    BY <1>8 DEF boards
  <2>2. \A k \in Boards!Counters, a \in Addresses : recent'[<<k, a>>] <= recent[<<k, a>>]
    BY <1>0, <2>1
  <2> QED BY <1>0, <2>1, <2>2, LessInFlight
<1> QED BY <1>1, <1>2, <1>3, <1>4, <1>5, <1>6, <1>7, <1>8 DEF Boards!Next

\* The invariant of the boards gives the properties
LEMMA BoardsHold ==
    Boards!TypeOK /\ BoardsInv =>
        Boards!OneClaimPerContainer /\ Boards!RepeatsAreBounded /\ Boards!HourlyLimitsHold
<1> SUFFICES ASSUME Boards!TypeOK, BoardsInv
             PROVE  Boards!OneClaimPerContainer /\ Boards!RepeatsAreBounded /\ Boards!HourlyLimitsHold
  OBVIOUS
<1> USE BoardsConstants
<1>1. ASSUME NEW i \in 1..MaxRows PROVE told[i] <= Cardinality(Containers)
  <2>1. Settling(i) \subseteq Containers
    BY DEF Settling
  <2>2. /\ Cardinality(Settling(i)) \in Nat /\ told[i] \in Nat
        /\ told[i] + Cardinality(Settling(i)) <= Cardinality(Containers)
    BY <2>1, Part DEF BoardsInv, ClaimsAreCounted, Boards!TypeOK
  <2> QED BY <2>2
<1>2. ASSUME NEW s \in Sheets, NEW p \in Prints PROVE Cardinality(Fresh(s, p)) <= Cardinality(Containers)
  <2>1. Inserting(s, p) \subseteq Containers /\ Fresh(s, p) \subseteq rows
    BY DEF Inserting, Fresh
  <2>2. Cardinality(Inserting(s, p)) \in Nat /\ Cardinality(Fresh(s, p)) \in Nat
    BY <2>1, Part DEF BoardsInv, RowsAreNumbered
  <2>3. Cardinality(Fresh(s, p)) + Cardinality(Inserting(s, p)) <= Cardinality(Containers)
    BY DEF BoardsInv, RepeatsAreCounted
  <2> QED BY <2>2, <2>3
<1>3. ASSUME NEW k \in Boards!Counters, NEW a \in Addresses, ~(k = "mesh" /\ a = "mcp")
      PROVE  recent[<<k, a>>] <= PerHour + Cardinality(Containers) - 1
  <2>1. Counting(k, a) \subseteq Containers
    BY DEF Counting
  <2>2. Cardinality(Counting(k, a)) \in Nat /\ recent[<<k, a>>] \in Nat
    BY <2>1, Part DEF Boards!TypeOK
  <2>3. recent[<<k, a>>] + Cardinality(Counting(k, a)) <= PerHour + Cardinality(Containers) - 1
    BY <1>3 DEF BoardsInv, WritesAreCounted
  <2> QED BY <2>2, <2>3
<1>4. Boards!OneClaimPerContainer
  BY <1>1, BoardsCounts DEF Boards!OneClaimPerContainer
<1>5. Boards!RepeatsAreBounded
  BY <1>2, BoardsCounts DEF Boards!RepeatsAreBounded, Fresh
<1>6. Boards!HourlyLimitsHold
  BY <1>3, BoardsCounts DEF Boards!HourlyLimitsHold
<1> QED BY <1>4, <1>5, <1>6

-----------------------------------------------------------------------------
(* The four together.                                                      *)

LimitsInv ==
    /\ Bazaar!TypeOK /\ BazaarInv
    /\ Queue!TypeOK /\ QueueInv
    /\ Purse!TypeOK /\ PurseInv
    /\ Boards!TypeOK /\ BoardsInv

\* In a step of Errands every part takes a step of its own or stands still
LEMMA EachPartStepsOrStands ==
    ASSUME [Next]_vars
    PROVE  /\ Bazaar!Next \/ UNCHANGED bazaar
           /\ Books!Next \/ UNCHANGED books
           /\ Queue!Next \/ UNCHANGED queue
           /\ Purse!Next \/ UNCHANGED purse
           /\ Boards!Next \/ UNCHANGED boards
           /\ Files!Next \/ UNCHANGED files
<1>1. CASE Next
  BY <1>1 DEF Next, Only
<1>2. CASE UNCHANGED vars
  BY <1>2 DEF vars
<1> QED BY <1>1, <1>2

\* Init gives the invariant
LEMMA LimitsStart == Init => LimitsInv
BY BazaarStarts, QueueStarts, PurseStarts, BoardsStart DEF Init, LimitsInv

\* and every step keeps it
LEMMA LimitsStep == ASSUME LimitsInv, [Next]_vars PROVE LimitsInv'
<1>1. Bazaar!TypeOK' /\ BazaarInv'
  BY EachPartStepsOrStands, BazaarSteps DEF LimitsInv
<1>2. Queue!TypeOK' /\ QueueInv'
  BY EachPartStepsOrStands, QueueSteps DEF LimitsInv
<1>3. Purse!TypeOK' /\ PurseInv'
  BY EachPartStepsOrStands, PurseSteps DEF LimitsInv
<1>4. Boards!TypeOK' /\ BoardsInv'
  BY EachPartStepsOrStands, BoardsSteps DEF LimitsInv
<1> QED BY <1>1, <1>2, <1>3, <1>4 DEF LimitsInv

\* LimitsHold (Errands.tla): bids of a day (marketplace_worker.py), calls to
\* OpenRouter in a period (openrouter.py), dollars for Claude in a month
\* (anthropic_guard), writes in an hour (the free boards) stay within their
\* settings up to what is in flight.
THEOREM LimitsAreKept == Spec => []LimitsHold
<1>1. LimitsInv /\ [Next]_vars => LimitsInv'
  BY LimitsStep
<1>2. LimitsInv => LimitsHold
  BY BazaarHolds, QueueHolds, PurseHolds, BoardsHold DEF LimitsInv, LimitsHold
<1> QED BY <1>1, <1>2, LimitsStart, PTL DEF Spec
-----------------------------------------------------------------------------
(* The copy of the chain.                                                  *)

Recorded(t) == ledger[t.tx] # Books!Nothing \/ mined[t] \in unseen
CoveredTo(end) == \A t \in Books!Transfers : mined[t] \in firstBlock..end /\ mined[t] > 0 => Recorded(t)

\* No sync is ahead of the chain
Behind ==
    /\ lastBlock <= head
    /\ \A t \in Books!Transfers : mined[t] <= head
    /\ \A p \in Syncs : /\ sync[p].latest <= head
                        /\ sync[p].current <= sync[p].latest + 1
\* What a sync has passed, and what it has in hand
Holds(p) ==
    \A t \in Books!Transfers :
        mined[t] \in sync[p].current..Books!To(p) /\ mined[t] > 0 => t \in sync[p].logs \/ Recorded(t)
Swept ==
    \A p \in Syncs :
        /\ sync[p].at # "idle" => CoveredTo(sync[p].current - 1)
        /\ sync[p].at = "writing" => Holds(p)

\* The types the argument needs
SyncStates == [at : {"idle", "asking", "writing"}, latest : Int, current : Int, chunk : Int,
               logs : SUBSET Books!Transfers]
USE DEF SyncStates
Numbers ==
    /\ head \in Nat /\ lastBlock \in Int /\ firstBlock \in Int
    /\ mined \in [Books!Transfers -> Nat]
    /\ ledger \in [Hashes -> Books!Transfers \cup {Books!Nothing}]
    /\ sync \in [Syncs -> SyncStates]

BooksInv == Numbers /\ Behind /\ Swept /\ Books!LedgerHasNoHoles

\* What the sync assumes of its constants
LEMMA BooksConstants ==
    /\ MaxBlock \in Nat \ {0} /\ Backfill \in Nat /\ PerTx \in Nat
    /\ MinChunk \in Nat \ {0} /\ Chunk \in Nat /\ MinChunk <= Chunk
BY ErrandsConstants DEF Books!LedgerConstants

\* The smaller of two numbers
LEMMA MinOfTwo == ASSUME NEW a \in Int, NEW b \in Int
                  PROVE  Books!Min({a, b}) = IF a <= b THEN a ELSE b
<1> DEFINE m == IF a <= b THEN a ELSE b
<1>1. m \in {a, b} /\ \A y \in {a, b} : m <= y
  OBVIOUS
<1>2. \A x \in {a, b} : (\A y \in {a, b} : x <= y) => x = m
  OBVIOUS
<1> QED BY <1>1, <1>2 DEF Books!Min

\* and the larger of them
LEMMA MaxOfTwo == ASSUME NEW a \in Int, NEW b \in Int
                  PROVE  Books!Max({a, b}) = IF a >= b THEN a ELSE b
<1> DEFINE m == IF a >= b THEN a ELSE b
<1>1. m \in {a, b} /\ \A y \in {a, b} : m >= y
  OBVIOUS
<1>2. \A x \in {a, b} : (\A y \in {a, b} : x >= y) => x = m
  OBVIOUS
<1> QED BY <1>1, <1>2 DEF Books!Max

\* A window ends where the sync's height says at the latest
LEMMA Windows == ASSUME Numbers, NEW p \in Syncs
                 PROVE  Books!To(p) \in Int /\ Books!To(p) <= sync[p].latest
BY MinOfTwo DEF Numbers, Books!To

\* What is covered stays covered while the chain adds nothing and rows stay
LEMMA CoverageStays ==
    ASSUME NEW e \in Int, Numbers, Numbers', mined' = mined, firstBlock <= firstBlock', CoveredTo(e),
           \A t \in Books!Transfers : Recorded(t) => Recorded(t)'
    PROVE  CoveredTo(e)'
BY DEF CoveredTo, Numbers

\* A new block is above everything that is covered
LEMMA MineKeeps == ASSUME BooksInv, NEW txs \in SUBSET Hashes, Books!Mine(txs) PROVE BooksInv'
<1>1. Numbers'
  BY BooksConstants DEF BooksInv, Numbers, Books!Mine
<1>2. Behind'
  BY DEF BooksInv, Numbers, Behind, Books!Mine
<1>3. ASSUME NEW e \in Int, e <= head, CoveredTo(e) PROVE CoveredTo(e)'
  <2>1. SUFFICES ASSUME NEW t \in Books!Transfers, mined'[t] \in firstBlock..e, mined'[t] > 0 PROVE Recorded(t)'
    BY DEF CoveredTo, Books!Mine
  <2>2. mined'[t] = mined[t]
    BY <1>3, <2>1 DEF BooksInv, Numbers, Books!Mine
  <2> QED BY <1>3, <2>1, <2>2 DEF CoveredTo, Recorded, Books!Mine
<1>4. Swept'
  <2>1. ASSUME NEW p \in Syncs, sync[p].at # "idle" PROVE CoveredTo(sync[p].current - 1)'
    BY <2>1, <1>3 DEF BooksInv, Numbers, Behind, Swept, Books!Mine
  <2>2. ASSUME NEW p \in Syncs, sync[p].at = "writing"
        PROVE  Holds(p)'
    <3>1. Books!To(p) \in Int /\ Books!To(p) <= head
      BY Windows DEF BooksInv, Behind, Numbers
    <3>2. \A t \in Books!Transfers : mined'[t] <= head => mined'[t] = mined[t]
      BY DEF BooksInv, Numbers, Books!Mine
    <3>3. ASSUME NEW t \in Books!Transfers, mined'[t] \in sync[p].current..Books!To(p), mined'[t] > 0
          PROVE  t \in sync[p].logs \/ Recorded(t)'
      <4>1. mined'[t] = mined[t]
        BY <3>1, <3>2, <3>3 DEF BooksInv, Numbers, Books!Mine
      <4> QED BY <2>2, <3>3, <4>1 DEF BooksInv, Swept, Holds, Recorded, Books!Mine
    <3> QED BY <3>3 DEF Holds, Books!To, Books!Mine
  <2> QED BY <2>1, <2>2 DEF Swept, Books!To, Books!Mine
<1>5. Books!LedgerHasNoHoles'
  <2>1. CoveredTo(lastBlock)
    BY DEF BooksInv, CoveredTo, Books!LedgerHasNoHoles, Recorded
  <2>2. CoveredTo(lastBlock)'
    BY <1>3, <2>1 DEF BooksInv, Numbers, Behind, Books!Mine
  <2> QED BY <2>2 DEF CoveredTo, Books!LedgerHasNoHoles, Recorded
<1> QED BY <1>1, <1>2, <1>4, <1>5 DEF BooksInv

\* The start: nothing was mined, nobody is at work
LEMMA BooksStart == Books!Init => BooksInv
BY BooksConstants DEF Books!Init, BooksInv, Numbers, Behind, Swept, Holds, Books!LedgerHasNoHoles, Books!Idle

\* A step of another sync, which adds rows or nothing, takes nothing from p
LEMMA Others ==
    ASSUME BooksInv, Numbers', mined' = mined, firstBlock <= firstBlock',
           \A t \in Books!Transfers : Recorded(t) => Recorded(t)',
           NEW p \in Syncs, sync'[p] = sync[p]
    PROVE  /\ sync'[p].at # "idle" => CoveredTo(sync[p].current - 1)'
           /\ sync'[p].at = "writing" => Holds(p)'
<1>1. sync[p].current - 1 \in Int /\ Books!To(p)' = Books!To(p)
  BY DEF BooksInv, Numbers, Books!To
<1>2. ASSUME sync[p].at # "idle" PROVE CoveredTo(sync[p].current - 1)'
  <2> DEFINE e == sync[p].current - 1
  <2>1. e \in Int /\ CoveredTo(e)
    BY <1>1, <1>2 DEF BooksInv, Swept
  <2>2. \A t \in Books!Transfers : mined'[t] \in firstBlock'..e /\ mined'[t] > 0 => Recorded(t)'
    BY <2>1 DEF CoveredTo, BooksInv, Numbers
  <2>3. e' = e
    OBVIOUS
  <2> QED BY <2>2, <2>3 DEF CoveredTo
<1>3. ASSUME sync[p].at = "writing" PROVE Holds(p)'
  <2>1. Holds(p)
    BY <1>3 DEF BooksInv, Swept
  <2> QED BY <1>1, <2>1 DEF Holds
<1> QED BY <1>2, <1>3

\* A sync starts where last_block ends, or where the backfill begins
LEMMA StartSyncKeeps ==
    ASSUME BooksInv, NEW p \in Syncs, NEW height \in 1..head, Books!StartSync(p, height)
    PROVE  BooksInv'
<1> DEFINE from == IF lastBlock # 0 THEN lastBlock + 1 ELSE Books!Max({1, height - Backfill})
<1>1. from \in Int /\ from <= height /\ height <= head
  <2>1. Books!Max({1, height - Backfill}) \in Int
    BY MaxOfTwo, BooksConstants DEF BooksInv, Numbers
  <2> QED BY <2>1 DEF Books!StartSync, BooksInv, Numbers
<1>2. firstBlock' \in Int /\ firstBlock <= firstBlock' /\ (lastBlock = 0 => from <= firstBlock')
                          /\ (lastBlock # 0 => firstBlock' = firstBlock)
  <2> HIDE DEF from
  <2>1. Books!Max({from, firstBlock}) = IF from >= firstBlock THEN from ELSE firstBlock
    BY <1>1, MaxOfTwo DEF BooksInv, Numbers
  <2>2. firstBlock' = IF lastBlock = 0 THEN Books!Max({from, firstBlock}) ELSE firstBlock
    BY DEF Books!StartSync, from
  <2> QED BY <1>1, <2>1, <2>2 DEF BooksInv, Numbers
<1>3. sync' = [sync EXCEPT ![p] = [@ EXCEPT !.at = "asking", !.latest = height, !.current = from]]
      /\ UNCHANGED <<head, mined, ledger, lastBlock, unseen>>
  BY DEF Books!StartSync
<1> HIDE DEF from
<1>4. Numbers'
  <2>1. sync[p] \in SyncStates
    BY DEF BooksInv, Numbers
  <2> height \in Int /\ from \in Int
    BY <1>1 DEF BooksInv, Numbers
  <2>2. [sync[p] EXCEPT !.at = "asking", !.latest = height, !.current = from] \in SyncStates
    BY <2>1
  <2>3. sync'[p] \in SyncStates
    BY <1>3, <2>2 DEF BooksInv, Numbers
  <2> QED BY <1>2, <1>3, <2>3 DEF BooksInv, Numbers
<1>5. Behind'
  BY <1>1, <1>3 DEF BooksInv, Numbers, Behind
<1>6. \A t \in Books!Transfers : Recorded(t) => Recorded(t)'
  BY <1>3 DEF Recorded
<1>7. Swept'
  <2>1. ASSUME NEW q \in Syncs, q # p
        PROVE (sync'[q].at # "idle" => CoveredTo(sync[q].current - 1)') /\ (sync'[q].at = "writing" => Holds(q)')
    BY <1>2, <1>3, <1>4, <1>6, <2>1, Others DEF BooksInv, Numbers
  <2>2. sync'[p].at = "asking" /\ sync'[p].current = from
    BY <1>3 DEF BooksInv, Numbers
  <2>3. ASSUME NEW t \in Books!Transfers, mined'[t] \in firstBlock'..(sync'[p].current - 1), mined'[t] > 0
        PROVE  Recorded(t)'
    <3>1. CASE lastBlock = 0
      BY <1>1, <1>2, <1>3, <2>2, <2>3, <3>1 DEF BooksInv, Numbers
    <3>2. CASE lastBlock # 0
      <4>1. from = lastBlock + 1
        BY <3>2 DEF from
      <4> QED BY <1>2, <1>3, <1>6, <2>2, <2>3, <3>2, <4>1 DEF BooksInv, Numbers, Books!LedgerHasNoHoles, Recorded
    <3> QED BY <3>1, <3>2
  <2>4. CoveredTo(sync[p].current - 1)'
    BY <2>3 DEF CoveredTo
  <2> QED BY <2>1, <2>2, <2>4 DEF Swept
<1>8. Books!LedgerHasNoHoles'
  BY <1>2, <1>3 DEF BooksInv, Numbers, Books!LedgerHasNoHoles
<1> QED BY <1>4, <1>5, <1>7, <1>8 DEF BooksInv

\* What a provider has not answered for is noted: nothing in the window is lost
LEMMA GetLogsKeeps ==
    ASSUME BooksInv, NEW p \in Syncs, NEW height \in 1..head, Books!GetLogs(p, height)
    PROVE  BooksInv'
<1> DEFINE found == {t \in Books!Transfers : mined[t] \in sync[p].current..Books!Min({Books!To(p), height})}
<1>1. /\ sync' = [sync EXCEPT ![p] = [sync[p] EXCEPT !.at = "writing", !.logs = found]]
      /\ UNCHANGED <<head, mined, ledger, lastBlock, firstBlock>>
      /\ unseen' = unseen \cup {b \in sync[p].current..Books!To(p) : b > height}
  BY DEF Books!GetLogs, BooksInv, Numbers
<1>2. Numbers'
  <2>1. sync[p] \in SyncStates
    BY DEF BooksInv, Numbers
  <2>2. [sync[p] EXCEPT !.at = "writing", !.logs = found] \in SyncStates
    BY <2>1
  <2> QED BY <1>1, <2>2 DEF BooksInv, Numbers
<1> HIDE DEF found
<1>3. Behind'
  BY <1>1 DEF BooksInv, Numbers, Behind
<1>4. \A t \in Books!Transfers : Recorded(t) => Recorded(t)'
  BY <1>1 DEF Recorded
<1>5. Swept'
  <2>1. ASSUME NEW q \in Syncs, q # p
        PROVE (sync'[q].at # "idle" => CoveredTo(sync[q].current - 1)') /\ (sync'[q].at = "writing" => Holds(q)')
    <3>1. sync'[q] = sync[q] /\ firstBlock <= firstBlock' /\ mined' = mined
      BY <1>1, <2>1 DEF BooksInv, Numbers
    <3> QED BY <1>2, <1>4, <3>1, Others DEF BooksInv
  <2>2. sync'[p].current = sync[p].current /\ sync'[p].chunk = sync[p].chunk /\ sync'[p].latest = sync[p].latest
        /\ sync'[p].logs = found
    BY <1>1 DEF BooksInv, Numbers
  <2>3. CoveredTo(sync[p].current - 1)'
    <3>1. CoveredTo(sync[p].current - 1)
      BY DEF Books!GetLogs, BooksInv, Swept
    <3> QED BY <1>1, <1>4, <2>2, <3>1 DEF CoveredTo
  <2>4. ASSUME NEW t \in Books!Transfers, mined[t] \in sync[p].current..Books!To(p)
        PROVE  t \in found \/ Recorded(t)'
    <3>1. Books!To(p) \in Int /\ height \in Int /\ mined[t] \in Int /\ sync[p].current \in Int
      BY Windows DEF BooksInv, Numbers
    <3>2. CASE mined[t] <= height
      BY <2>4, <3>1, <3>2, MinOfTwo DEF found
    <3>3. CASE mined[t] > height
      BY <1>1, <2>4, <3>3 DEF Recorded
    <3> QED BY <3>1, <3>2, <3>3
  <2>5. Holds(p)'
    <3>1. Books!To(p)' = Books!To(p)
      BY <2>2 DEF Books!To
    <3> QED BY <1>1, <2>2, <2>4, <3>1 DEF Holds
  <2> QED BY <2>1, <2>3, <2>5 DEF Swept
<1>6. Books!LedgerHasNoHoles'
  BY <1>1, <1>4 DEF BooksInv, Books!LedgerHasNoHoles, Recorded
<1> QED BY <1>2, <1>3, <1>5, <1>6 DEF BooksInv

\* A window that is too large is asked for again, smaller
LEMMA TooLargeKeeps == ASSUME BooksInv, NEW p \in Syncs, Books!TooLarge(p) PROVE BooksInv'
<1> DEFINE c == Books!Max({MinChunk, sync[p].chunk \div 2})
<1>1. sync' = [sync EXCEPT ![p] = [sync[p] EXCEPT !.chunk = c]]
      /\ UNCHANGED <<head, mined, ledger, lastBlock, firstBlock, unseen>>
  BY DEF Books!TooLarge, BooksInv, Numbers
<1>2. sync[p] \in SyncStates /\ sync[p].at = "asking"
  BY DEF BooksInv, Numbers, Books!TooLarge
<1>3. Numbers'
  <2>1. c \in Int
    <3>1. sync[p].chunk \div 2 \in Int
      BY <1>2
    <3> QED BY <3>1, MaxOfTwo, BooksConstants
  <2>2. [sync[p] EXCEPT !.chunk = c] \in SyncStates
    BY <1>2, <2>1
  <2> QED BY <1>1, <2>2 DEF BooksInv, Numbers
<1>4. \A t \in Books!Transfers : Recorded(t) <=> Recorded(t)'
  BY <1>1 DEF Recorded
<1>5. Behind' /\ Books!LedgerHasNoHoles'
  BY <1>1 DEF BooksInv, Numbers, Behind, Books!LedgerHasNoHoles
<1>6. Swept'
  <2>1. ASSUME NEW q \in Syncs, q # p
        PROVE (sync'[q].at # "idle" => CoveredTo(sync[q].current - 1)') /\ (sync'[q].at = "writing" => Holds(q)')
    BY <1>1, <1>3, <1>4, <2>1, Others DEF BooksInv, Numbers
  <2>2. sync'[p].at = "asking" /\ sync'[p].current = sync[p].current
    BY <1>1, <1>2 DEF BooksInv, Numbers
  <2>3. CoveredTo(sync[p].current - 1)'
    BY <1>1, <1>2, <1>4, <2>2 DEF BooksInv, Swept, CoveredTo
  <2> QED BY <2>1, <2>2, <2>3 DEF Swept
<1> QED BY <1>3, <1>5, <1>6 DEF BooksInv

\* A transfer leaves the hand when its transaction has a row
LEMMA UpsertKeeps == ASSUME BooksInv, NEW p \in Syncs, NEW t \in Books!Transfers, Books!Upsert(p, t) PROVE BooksInv'
<1>1. /\ sync' = [sync EXCEPT ![p] = [sync[p] EXCEPT !.logs = @ \ {t}]]
      /\ ledger' = [ledger EXCEPT ![t.tx] = IF ledger[t.tx] = Books!Nothing THEN t ELSE ledger[t.tx]]
      /\ UNCHANGED <<head, mined, lastBlock, firstBlock, unseen>>
  BY DEF Books!Upsert, BooksInv, Numbers
<1>2. sync[p] \in SyncStates /\ sync[p].at = "writing"
  BY DEF BooksInv, Numbers, Books!Upsert
<1>3. t # Books!Nothing /\ t.tx \in Hashes
  BY DEF Books!Transfers, Books!Nothing
<1>4. Numbers'
  <2>1. [sync[p] EXCEPT !.logs = @ \ {t}] \in SyncStates
    BY <1>2
  <2>2. ledger' \in [Hashes -> Books!Transfers \cup {Books!Nothing}]
    BY <1>1, <1>3 DEF BooksInv, Numbers
  <2> QED BY <1>1, <2>1, <2>2 DEF BooksInv, Numbers
<1>5. \A u \in Books!Transfers : Recorded(u) => Recorded(u)'
  BY <1>1, <1>3 DEF Recorded, BooksInv, Numbers, Books!Transfers
<1>6. Recorded(t)'
  BY <1>1, <1>3 DEF Recorded, BooksInv, Numbers
<1>7. Behind' /\ Books!LedgerHasNoHoles'
  <2>1. Behind'
    BY <1>1 DEF BooksInv, Numbers, Behind
  <2>2. Books!LedgerHasNoHoles'
    BY <1>1, <1>5 DEF BooksInv, Numbers, Books!LedgerHasNoHoles, Recorded
  <2> QED BY <2>1, <2>2
<1>8. Swept'
  <2>1. ASSUME NEW q \in Syncs, q # p
        PROVE (sync'[q].at # "idle" => CoveredTo(sync[q].current - 1)') /\ (sync'[q].at = "writing" => Holds(q)')
    BY <1>1, <1>4, <1>5, <2>1, Others DEF BooksInv, Numbers
  <2>2. /\ sync'[p].at = "writing" /\ sync'[p].logs = sync[p].logs \ {t}
        /\ sync'[p].current = sync[p].current /\ sync'[p].chunk = sync[p].chunk
        /\ sync'[p].latest = sync[p].latest
    BY <1>1, <1>2 DEF BooksInv, Numbers
  <2>3. CoveredTo(sync[p].current - 1)'
    BY <1>1, <1>2, <1>5, <2>2 DEF BooksInv, Swept, CoveredTo
  <2>4. Holds(p)'
    <3>1. Books!To(p)' = Books!To(p)
      BY <2>2 DEF Books!To
    <3>2. Holds(p)
      BY <1>2 DEF BooksInv, Swept
    <3> QED BY <1>1, <1>5, <1>6, <2>2, <3>1, <3>2 DEF Holds
  <2> QED BY <2>1, <2>2, <2>3, <2>4 DEF Swept
<1> QED BY <1>4, <1>7, <1>8 DEF BooksInv

\* last_block moves to the end of a window of which nothing is left in hand
LEMMA SaveLastBlockKeeps ==
    ASSUME BooksInv, NEW p \in Syncs, Books!SaveLastBlock(p) PROVE BooksInv'
<1> DEFINE to == Books!To(p)
           c == Books!Min({Chunk, 2 * sync[p].chunk})
           next == IF to = sync[p].latest THEN Books!Idle
                   ELSE [sync[p] EXCEPT !.at = "asking", !.current = to + 1,
                                        !.chunk = c]
<1>1. /\ sync' = [sync EXCEPT ![p] = next]
      /\ lastBlock' = to
      /\ UNCHANGED <<head, mined, ledger, firstBlock, unseen>>
  BY DEF Books!SaveLastBlock
<1>2. sync[p] \in SyncStates /\ sync[p].at = "writing" /\ sync[p].logs = {}
  BY DEF BooksInv, Numbers, Books!SaveLastBlock
<1>3. to \in Int /\ to <= sync[p].latest
  BY Windows DEF BooksInv
<1>4. Books!Idle \in SyncStates
  BY BooksConstants DEF Books!Idle
<1>5. next \in SyncStates
  <2>1. c \in Int
    BY <1>2, MinOfTwo, BooksConstants
  <2> HIDE DEF c, to
  <2>2. [sync[p] EXCEPT !.at = "asking", !.current = to + 1, !.chunk = c] \in SyncStates
    <3>1. to + 1 \in Int
      BY <1>3
    <3> QED BY <1>2, <2>1, <3>1
  <2> HIDE DEF SyncStates
  <2> QED BY <1>4, <2>2
<1>6. CoveredTo(to)
  <2>1. CoveredTo(sync[p].current - 1) /\ Holds(p)
    BY <1>2 DEF BooksInv, Swept
  <2> QED BY <1>2, <1>3, <2>1 DEF CoveredTo, Holds, BooksInv, Numbers
<1>7. next.at # "idle" => next.at = "asking" /\ next.current = to + 1
  BY <1>2 DEF Books!Idle
<1>8. next.latest <= head /\ next.current <= next.latest + 1
  <2>1. sync[p].latest <= head
    BY DEF BooksInv, Behind
  <2> QED BY <1>2, <1>3, <2>1 DEF Books!Idle, BooksInv, Numbers
<1> HIDE DEF next, to
<1>9. Numbers'
  BY <1>1, <1>3, <1>5 DEF BooksInv, Numbers
<1>10. Behind'
  <2>1. to <= head
    BY <1>2, <1>3 DEF BooksInv, Numbers, Behind
  <2> QED BY <1>1, <1>8, <2>1 DEF BooksInv, Numbers, Behind
<1>11. \A t \in Books!Transfers : Recorded(t) <=> Recorded(t)'
  BY <1>1 DEF Recorded
<1>12. Books!LedgerHasNoHoles'
  BY <1>1, <1>6 DEF Books!LedgerHasNoHoles, CoveredTo, Recorded
<1>13. Swept'
  <2>1. ASSUME NEW q \in Syncs, q # p
        PROVE (sync'[q].at # "idle" => CoveredTo(sync[q].current - 1)') /\ (sync'[q].at = "writing" => Holds(q)')
    BY <1>1, <1>9, <1>11, <2>1, Others DEF BooksInv, Numbers
  <2>2. sync'[p] = next
    BY <1>1 DEF BooksInv, Numbers
  <2>3. ASSUME next.at # "idle" PROVE CoveredTo(sync[p].current - 1)'
    <3>1. sync'[p].current - 1 = to
      BY <1>3, <1>7, <2>2, <2>3
    <3> QED BY <1>1, <1>6, <1>11, <3>1 DEF CoveredTo
  <2> QED BY <1>7, <2>1, <2>2, <2>3 DEF Swept
<1> QED BY <1>9, <1>10, <1>12, <1>13 DEF BooksInv

\* A sync that stops leaves what it has recorded
LEMMA SyncStopsKeeps ==
    ASSUME BooksInv, NEW p \in Syncs, Books!SyncStops(p) PROVE BooksInv'
<1>1. sync' = [sync EXCEPT ![p] = Books!Idle] /\ UNCHANGED <<head, mined, ledger, lastBlock, firstBlock, unseen>>
  BY DEF Books!SyncStops
<1>2. Books!Idle \in SyncStates /\ Books!Idle.at = "idle" /\ Books!Idle.latest = 0 /\ Books!Idle.current = 0
  BY BooksConstants DEF Books!Idle
<1> HIDE DEF SyncStates
<1>3. Numbers'
  BY <1>1, <1>2 DEF BooksInv, Numbers
<1>4. Behind' /\ Books!LedgerHasNoHoles'
  BY <1>1, <1>2 DEF BooksInv, Numbers, Behind, Books!LedgerHasNoHoles
<1>5. \A t \in Books!Transfers : Recorded(t) <=> Recorded(t)'
  BY <1>1 DEF Recorded
<1>6. Swept'
  <2>1. ASSUME NEW q \in Syncs, q # p
        PROVE (sync'[q].at # "idle" => CoveredTo(sync[q].current - 1)') /\ (sync'[q].at = "writing" => Holds(q)')
    BY <1>1, <1>3, <1>5, <2>1, Others DEF BooksInv, Numbers
  <2>2. sync'[p].at = "idle"
    BY <1>1, <1>2 DEF BooksInv, Numbers
  <2> QED BY <2>1, <2>2 DEF Swept
<1> QED BY <1>3, <1>4, <1>6 DEF BooksInv

\* Rows are true, and so are the types: a window begins with a block, and what a
\* sync has in hand was mined
BooksAreTrue ==
    /\ Books!TypeOK /\ Books!RowsAreMined
    /\ \A p \in Syncs : /\ sync[p].at # "idle" => sync[p].current >= 1
                        /\ \A t \in sync[p].logs : mined[t] > 0

\* Each step of the chain and of the syncs keeps the coverage
LEMMA BooksSteps ==
    ASSUME BooksInv, Books!Next \/ UNCHANGED books PROVE BooksInv'
<1>1. CASE UNCHANGED books
  BY <1>1 DEF books, BooksInv, Numbers, Behind, Swept, Holds, CoveredTo, Recorded, Books!To, Books!LedgerHasNoHoles
<1>2. CASE \E txs \in SUBSET Hashes : Books!Mine(txs)
  BY <1>2, MineKeeps
<1>3. ASSUME NEW p \in Syncs, NEW height \in 1..head, Books!StartSync(p, height) \/ Books!GetLogs(p, height)
      PROVE  BooksInv'
  BY <1>3, StartSyncKeeps, GetLogsKeeps
<1>4. ASSUME NEW p \in Syncs, NEW t \in Books!Transfers, Books!Upsert(p, t) PROVE BooksInv'
  BY <1>4, UpsertKeeps
<1>5. ASSUME NEW p \in Syncs, Books!TooLarge(p) \/ Books!SaveLastBlock(p) \/ Books!SyncStops(p) PROVE BooksInv'
  BY <1>5, TooLargeKeeps, SaveLastBlockKeeps, SyncStopsKeeps
<1> QED BY <1>1, <1>2, <1>3, <1>4, <1>5 DEF Books!Next

\* The start: no rows
LEMMA TruthStarts == Books!Init => BooksAreTrue
BY BooksConstants DEF Books!Init, BooksAreTrue, Books!TypeOK, Books!RowsAreMined, Books!Idle

\* The types of the syncs
SyncTypes == [at : {"idle", "asking", "writing"}, latest : 0..MaxBlock, current : 0..(MaxBlock + 1),
              chunk : MinChunk..Chunk, logs : SUBSET Books!Transfers]

\* A step of one sync that writes no row
LEMMA OneSync ==
    ASSUME BooksAreTrue, NEW p \in Syncs, NEW r \in SyncTypes, sync' = [sync EXCEPT ![p] = r],
           r.at # "idle" => r.current >= 1, \A t \in r.logs : mined[t] > 0,
           UNCHANGED <<head, mined, ledger>>,
           lastBlock' \in 0..MaxBlock, firstBlock' \in 0..MaxBlock, unseen' \subseteq 1..MaxBlock
    PROVE  BooksAreTrue'
<1>1. sync \in [Syncs -> SyncTypes]
  BY DEF BooksAreTrue, Books!TypeOK, SyncTypes
<1> HIDE DEF SyncTypes
<1>2. sync' \in [Syncs -> SyncTypes] /\ sync'[p] = r /\ \A q \in Syncs : q # p => sync'[q] = sync[q]
  BY <1>1
<1>3. Books!TypeOK'
  BY <1>2 DEF BooksAreTrue, Books!TypeOK, SyncTypes
<1>4. Books!RowsAreMined'
  BY DEF BooksAreTrue, Books!RowsAreMined
<1>5. ASSUME NEW q \in Syncs
      PROVE  /\ sync'[q].at # "idle" => sync'[q].current >= 1
             /\ \A t \in sync'[q].logs : mined'[t] > 0
  BY <1>2 DEF BooksAreTrue
<1> QED BY <1>3, <1>4, <1>5 DEF BooksAreTrue

\* A block is mined with transfers that had none
LEMMA MineIsTrue ==
    ASSUME BooksInv, BooksAreTrue, NEW txs \in SUBSET Hashes, Books!Mine(txs) PROVE BooksAreTrue'
<1> USE BooksConstants
<1>1. /\ head < MaxBlock /\ head' = head + 1
      /\ mined' = [t \in Books!Transfers |-> IF t.tx \in txs THEN head + 1 ELSE mined[t]]
      /\ UNCHANGED <<ledger, lastBlock, firstBlock, sync, unseen>>
  BY DEF Books!Mine
<1>2. head \in 1..MaxBlock /\ mined \in [Books!Transfers -> 0..MaxBlock]
  BY DEF BooksAreTrue, Books!TypeOK
<1>3. head' \in 1..MaxBlock /\ mined' \in [Books!Transfers -> 0..MaxBlock]
      /\ \A t \in Books!Transfers : mined[t] > 0 => mined'[t] > 0
  BY <1>1, <1>2
<1>4. Books!TypeOK'
  BY <1>1, <1>3 DEF BooksAreTrue, Books!TypeOK
<1>5. Books!RowsAreMined'
  BY <1>1, <1>3 DEF BooksAreTrue, Books!RowsAreMined, Books!TypeOK
<1>6. ASSUME NEW q \in Syncs
      PROVE  /\ sync'[q].at # "idle" => sync'[q].current >= 1
             /\ \A t \in sync'[q].logs : mined'[t] > 0
  BY <1>1, <1>3 DEF BooksAreTrue, Books!TypeOK
<1> QED BY <1>4, <1>5, <1>6 DEF BooksAreTrue

\* A sync begins with block 1 at the earliest
LEMMA StartSyncIsTrue ==
    ASSUME BooksInv, BooksAreTrue, NEW p \in Syncs, NEW height \in 1..head, Books!StartSync(p, height)
    PROVE  BooksAreTrue'
<1> USE BooksConstants
<1> DEFINE from == IF lastBlock # 0 THEN lastBlock + 1 ELSE Books!Max({1, height - Backfill})
           r == [sync[p] EXCEPT !.at = "asking", !.latest = height, !.current = from]
<1>1. /\ head \in 1..MaxBlock /\ lastBlock \in 0..MaxBlock /\ firstBlock \in 0..MaxBlock
      /\ sync[p] \in SyncTypes /\ height \in 1..MaxBlock
  BY DEF BooksAreTrue, Books!TypeOK, SyncTypes
<1>2. /\ from <= height /\ sync' = [sync EXCEPT ![p] = r]
      /\ firstBlock' = IF lastBlock = 0 THEN Books!Max({from, firstBlock}) ELSE firstBlock
      /\ UNCHANGED <<head, mined, ledger, lastBlock, unseen>>
  BY DEF Books!StartSync
<1>3. Books!Max({1, height - Backfill}) = IF 1 >= height - Backfill THEN 1 ELSE height - Backfill
  BY <1>1, MaxOfTwo
<1>4. from \in 1..MaxBlock
  BY <1>1, <1>2, <1>3
<1> HIDE DEF from
<1>5. Books!Max({from, firstBlock}) = IF from >= firstBlock THEN from ELSE firstBlock
  BY <1>1, <1>4, MaxOfTwo
<1>6. firstBlock' \in 0..MaxBlock
  BY <1>1, <1>2, <1>4, <1>5
<1>7. r \in SyncTypes /\ r.current = from /\ r.logs = sync[p].logs
  <2>1. height \in 0..MaxBlock /\ from \in 0..(MaxBlock + 1)
    BY <1>1, <1>4
  <2> QED BY <1>1, <2>1 DEF SyncTypes
<1>8. r.current >= 1 /\ \A t \in r.logs : mined[t] > 0
  BY <1>4, <1>7 DEF BooksAreTrue
<1> HIDE DEF r
<1>9. lastBlock' \in 0..MaxBlock /\ unseen' \subseteq 1..MaxBlock
  BY <1>1, <1>2 DEF BooksAreTrue, Books!TypeOK
<1> QED BY <1>2, <1>6, <1>7, <1>8, <1>9, OneSync

\* A provider answers with transfers that were mined
LEMMA GetLogsIsTrue ==
    ASSUME BooksInv, BooksAreTrue, NEW p \in Syncs, NEW height \in 1..head, Books!GetLogs(p, height)
    PROVE  BooksAreTrue'
<1> USE BooksConstants
<1> DEFINE found == {t \in Books!Transfers : mined[t] \in sync[p].current..Books!Min({Books!To(p), height})}
           late == {b \in sync[p].current..Books!To(p) : b > height}
           r == [sync[p] EXCEPT !.at = "writing", !.logs = found]
<1>1. /\ sync[p] \in SyncTypes /\ sync[p].at = "asking" /\ sync[p].current >= 1
      /\ mined \in [Books!Transfers -> 0..MaxBlock]
      /\ lastBlock \in 0..MaxBlock /\ firstBlock \in 0..MaxBlock /\ unseen \subseteq 1..MaxBlock
  BY DEF BooksAreTrue, Books!TypeOK, SyncTypes, Books!GetLogs
<1>2. /\ sync' = [sync EXCEPT ![p] = r] /\ unseen' = unseen \cup late
      /\ UNCHANGED <<head, mined, ledger, lastBlock, firstBlock>>
  BY DEF Books!GetLogs, BooksAreTrue, Books!TypeOK
<1>3. Books!To(p) \in Int /\ Books!To(p) <= sync[p].latest /\ sync[p].latest \in 0..MaxBlock
      /\ sync[p].current \in Nat /\ height \in Int
  BY <1>1, Windows DEF BooksInv, SyncTypes
<1>4. Books!Min({Books!To(p), height}) \in Int
  BY <1>3, MinOfTwo
<1>5. found \subseteq Books!Transfers /\ \A t \in found : mined[t] > 0
  BY <1>1, <1>3, <1>4
<1>6. late \subseteq 1..MaxBlock
  BY <1>1, <1>3
<1> HIDE DEF found, late
<1>7. r \in SyncTypes /\ r.current = sync[p].current /\ r.logs = found
  BY <1>1, <1>5 DEF SyncTypes
<1> HIDE DEF r
<1>8. r.at # "idle" => r.current >= 1
  BY <1>1, <1>7
<1>9. \A t \in r.logs : mined[t] > 0
  BY <1>5, <1>7
<1>10. lastBlock' \in 0..MaxBlock /\ firstBlock' \in 0..MaxBlock /\ unseen' \subseteq 1..MaxBlock
  BY <1>1, <1>2, <1>6
<1> QED BY <1>2, <1>7, <1>8, <1>9, <1>10, OneSync

\* The chunk stays between its bounds when it shrinks
LEMMA TooLargeIsTrue ==
    ASSUME BooksInv, BooksAreTrue, NEW p \in Syncs, Books!TooLarge(p) PROVE BooksAreTrue'
<1> USE BooksConstants
<1> DEFINE half == sync[p].chunk \div 2
           c == Books!Max({MinChunk, half})
           r == [sync[p] EXCEPT !.chunk = c]
<1>1. /\ sync[p] \in SyncTypes /\ sync[p].chunk \in MinChunk..Chunk
      /\ sync' = [sync EXCEPT ![p] = r] /\ UNCHANGED <<head, mined, ledger, lastBlock, firstBlock, unseen>>
  BY DEF BooksAreTrue, Books!TypeOK, SyncTypes, Books!TooLarge
<1>2. half \in Int /\ half <= sync[p].chunk
  BY <1>1
<1> HIDE DEF half
<1>3. c = IF MinChunk >= half THEN MinChunk ELSE half
  BY <1>2, MaxOfTwo
<1>4. c \in MinChunk..Chunk
  BY <1>1, <1>2, <1>3
<1> HIDE DEF c
<1>5. r \in SyncTypes /\ r.at = sync[p].at /\ r.current = sync[p].current /\ r.logs = sync[p].logs
  BY <1>1, <1>4 DEF SyncTypes
<1> HIDE DEF r
<1>6. /\ r.at # "idle" => r.current >= 1
      /\ \A t \in r.logs : mined[t] > 0
      /\ lastBlock' \in 0..MaxBlock /\ firstBlock' \in 0..MaxBlock /\ unseen' \subseteq 1..MaxBlock
  BY <1>1, <1>5 DEF BooksAreTrue, Books!TypeOK
<1> QED BY <1>1, <1>5, <1>6, OneSync

\* A row is a transfer that was in hand
LEMMA UpsertIsTrue ==
    ASSUME BooksInv, BooksAreTrue, NEW p \in Syncs, NEW t \in Books!Transfers, Books!Upsert(p, t)
    PROVE  BooksAreTrue'
<1> DEFINE r == [sync[p] EXCEPT !.logs = @ \ {t}]
<1>1. /\ sync[p] \in SyncTypes /\ t \in sync[p].logs /\ mined[t] > 0 /\ t.tx \in Hashes
      /\ sync' = [sync EXCEPT ![p] = r]
      /\ ledger' = [ledger EXCEPT ![t.tx] = IF ledger[t.tx] = Books!Nothing THEN t ELSE ledger[t.tx]]
      /\ UNCHANGED <<head, mined, lastBlock, firstBlock, unseen>>
  BY DEF BooksAreTrue, Books!TypeOK, SyncTypes, Books!Upsert, Books!Transfers
<1>2. r \in SyncTypes /\ r.at = sync[p].at /\ r.current = sync[p].current /\ r.logs \subseteq sync[p].logs
  BY <1>1 DEF SyncTypes
<1> HIDE DEF r
<1>3. ledger' \in [Hashes -> Books!Transfers \cup {Books!Nothing}]
  BY <1>1 DEF BooksAreTrue, Books!TypeOK
<1>4. sync \in [Syncs -> SyncTypes]
  BY DEF BooksAreTrue, Books!TypeOK, SyncTypes
<1>5. sync' \in [Syncs -> SyncTypes] /\ sync'[p] = r /\ \A q \in Syncs : q # p => sync'[q] = sync[q]
  BY <1>1, <1>2, <1>4
<1>6. Books!TypeOK'
  BY <1>1, <1>3, <1>5 DEF BooksAreTrue, Books!TypeOK, SyncTypes
<1>7. Books!RowsAreMined'
  BY <1>1 DEF BooksAreTrue, Books!RowsAreMined, Books!TypeOK
<1>8. ASSUME NEW q \in Syncs
      PROVE  /\ sync'[q].at # "idle" => sync'[q].current >= 1
             /\ \A u \in sync'[q].logs : mined'[u] > 0
  BY <1>1, <1>2, <1>5 DEF BooksAreTrue
<1> QED BY <1>6, <1>7, <1>8 DEF BooksAreTrue

\* and when it grows back; last_block is a block
LEMMA SaveIsTrue ==
    ASSUME BooksInv, BooksAreTrue, NEW p \in Syncs, Books!SaveLastBlock(p) PROVE BooksAreTrue'
<1> USE BooksConstants
<1> DEFINE to == Books!To(p)
           end == sync[p].current + sync[p].chunk - 1
           c == Books!Min({Chunk, 2 * sync[p].chunk})
           onward == [sync[p] EXCEPT !.at = "asking", !.current = to + 1, !.chunk = c]
           r == IF to = sync[p].latest THEN Books!Idle ELSE onward
<1>1. /\ sync[p] \in SyncTypes /\ sync[p].current >= 1 /\ sync[p].chunk \in MinChunk..Chunk
      /\ sync[p].latest \in 0..MaxBlock /\ sync[p].current \in Nat /\ sync[p].logs = {}
  BY DEF BooksAreTrue, Books!TypeOK, SyncTypes, Books!SaveLastBlock
<1>2. /\ sync' = [sync EXCEPT ![p] = r] /\ lastBlock' = to
      /\ UNCHANGED <<head, mined, ledger, firstBlock, unseen>>
  BY DEF Books!SaveLastBlock
<1>3. end \in Int /\ end >= 0
  BY <1>1
<1>4. to = IF end <= sync[p].latest THEN end ELSE sync[p].latest
  <2>1. to = Books!Min({end, sync[p].latest})
    BY DEF Books!To
  <2> HIDE DEF end, to
  <2> QED BY <1>1, <1>3, <2>1, MinOfTwo
<1> HIDE DEF end, to
<1>5. to \in 0..MaxBlock
  BY <1>1, <1>3, <1>4
<1>6. c = IF Chunk <= 2 * sync[p].chunk THEN Chunk ELSE 2 * sync[p].chunk
  BY <1>1, MinOfTwo
<1>7. c \in MinChunk..Chunk
  BY <1>1, <1>6
<1> HIDE DEF c
<1>8. onward \in SyncTypes /\ onward.current >= 1 /\ onward.logs = {}
  <2>1. to + 1 \in 0..(MaxBlock + 1) /\ to + 1 >= 1
    BY <1>5
  <2> QED BY <1>1, <1>7, <2>1 DEF SyncTypes
<1>9. Books!Idle \in SyncTypes /\ Books!Idle.at = "idle" /\ Books!Idle.logs = {}
  BY DEF Books!Idle, SyncTypes
<1> HIDE DEF onward
<1>10. r \in SyncTypes /\ (r.at # "idle" => r.current >= 1) /\ \A t \in r.logs : mined[t] > 0
  BY <1>8, <1>9
<1> HIDE DEF r
<1>11. lastBlock' \in 0..MaxBlock /\ firstBlock' \in 0..MaxBlock /\ unseen' \subseteq 1..MaxBlock
  BY <1>2, <1>5 DEF BooksAreTrue, Books!TypeOK
<1> QED BY <1>2, <1>10, <1>11, OneSync

\* A sync that stops has nothing in hand
LEMMA StopIsTrue ==
    ASSUME BooksInv, BooksAreTrue, NEW p \in Syncs, Books!SyncStops(p) PROVE BooksAreTrue'
<1> USE BooksConstants
<1>1. sync' = [sync EXCEPT ![p] = Books!Idle] /\ UNCHANGED <<head, mined, ledger, lastBlock, firstBlock, unseen>>
  BY DEF Books!SyncStops
<1>2. Books!Idle \in SyncTypes /\ Books!Idle.at = "idle" /\ Books!Idle.logs = {}
  BY DEF Books!Idle, SyncTypes
<1>3. lastBlock' \in 0..MaxBlock /\ firstBlock' \in 0..MaxBlock /\ unseen' \subseteq 1..MaxBlock
  BY <1>1 DEF BooksAreTrue, Books!TypeOK
<1> QED BY <1>1, <1>2, <1>3, OneSync

\* Each step of the chain and of the syncs keeps the rows true
LEMMA TruthSteps ==
    ASSUME BooksInv, BooksAreTrue, Books!Next \/ UNCHANGED books PROVE BooksAreTrue'
<1>1. CASE UNCHANGED books
  BY <1>1 DEF books, BooksAreTrue, Books!TypeOK, Books!RowsAreMined
<1>2. CASE \E txs \in SUBSET Hashes : Books!Mine(txs)
  BY <1>2, MineIsTrue
<1>3. ASSUME NEW p \in Syncs, NEW height \in 1..head, Books!StartSync(p, height) \/ Books!GetLogs(p, height)
      PROVE  BooksAreTrue'
  BY <1>3, StartSyncIsTrue, GetLogsIsTrue
<1>4. ASSUME NEW p \in Syncs, NEW t \in Books!Transfers, Books!Upsert(p, t) PROVE BooksAreTrue'
  BY <1>4, UpsertIsTrue
<1>5. ASSUME NEW p \in Syncs, Books!TooLarge(p) \/ Books!SaveLastBlock(p) \/ Books!SyncStops(p)
      PROVE  BooksAreTrue'
  BY <1>5, TooLargeIsTrue, SaveIsTrue, StopIsTrue
<1> QED BY <1>1, <1>2, <1>3, <1>4, <1>5 DEF Books!Next

-----------------------------------------------------------------------------
(* The registers in files.                                                 *)

Copying(c) == clerk[c].step \in Files!ClaimSteps
Greeting(c) == clerk[c].step \in Files!GreetSteps

\* While the containers took turns, the one that has the register in hand has
\* all of it, and the agent it claims for
ListingsAreCopied ==
    "listed" \notin overlapped =>
        /\ listed # Torn /\ bought \subseteq listed
        /\ \A c, d \in Containers : Copying(c) /\ Copying(d) => c = d
        /\ \A c \in Containers : Copying(c) =>
              /\ listed \subseteq clerk[c].copy /\ clerk[c].agent \in clerk[c].copy
              /\ clerk[c].step = "open" => tmp # Absent
              /\ clerk[c].step = "written" => tmp = clerk[c].copy
\* and the one that greets has every visit
VisitsAreCopied ==
    /\ visitors # Torn => \A a \in Agents : visitors[a] <= visits[a]
    /\ \A c \in Containers : Greeting(c) => \A a \in Agents : clerk[c].copy[a] <= visits[a]
    /\ "visitors" \notin overlapped /\ ~crashed =>
        /\ \A c, d \in Containers : Greeting(c) /\ Greeting(d) => c = d
        /\ \A c \in Containers : Greeting(c) => clerk[c].copy = visits
        /\ (\A c \in Containers : ~Greeting(c)) => visitors = visits
FilesInv == ListingsAreCopied /\ VisitsAreCopied

\* What the registers assume of their constants
LEMMA FilesConstants ==
    /\ MaxVisits \in Nat /\ Torn # Absent
    /\ \A list \in SUBSET Agents : Torn # list /\ Absent # list
    /\ \A count \in [Agents -> 0..MaxVisits] : Torn # count
BY ErrandsConstants DEF Files!RegisterConstants

\* What a container can have in hand
Claims == [step : {"read", "open", "written"}, agent : Agents, copy : SUBSET Agents]
Greetings == [step : {"greets", "truncated"}, agent : Agents, copy : [Agents -> 0..MaxVisits]]
Clerks == {Files!AtDesk} \cup Claims \cup Greetings

\* By its step, what it has in hand is told
LEMMA ClerkKinds == ASSUME NEW d \in Clerks PROVE
    /\ d.step = "none" <=> d = Files!AtDesk
    /\ d.step \in Files!ClaimSteps <=> d \in Claims
    /\ d.step \in Files!GreetSteps <=> d \in Greetings
    /\ d.step \in Files!ClaimSteps => d.step \notin Files!GreetSteps
    /\ d.step \in Files!ClaimSteps => d.agent \in Agents /\ d.copy \in SUBSET Agents
    /\ d.step \in Files!GreetSteps => d.agent \in Agents /\ d.copy \in [Agents -> 0..MaxVisits]
BY DEF Clerks, Claims, Greetings, Files!AtDesk, Files!ClaimSteps, Files!GreetSteps

\* The clerk at the desk has neither file
LEMMA NobodyAtTheDesk ==
    Files!AtDesk \in Clerks /\ Files!AtDesk.step \notin Files!ClaimSteps \cup Files!GreetSteps
BY DEF Clerks, Files!AtDesk, Files!ClaimSteps, Files!GreetSteps

\* One container moves
LEMMA OneClerk ==
    ASSUME Files!TypeOK, NEW c \in Containers, NEW r \in Clerks, clerk' = [clerk EXCEPT ![c] = r]
    PROVE  /\ clerk' \in [Containers -> Clerks] /\ clerk[c] \in Clerks
           /\ clerk'[c] = r /\ \A d \in Containers : d # c => clerk'[d] = clerk[d]
<1>1. clerk \in [Containers -> Clerks]
  BY DEF Files!TypeOK, Clerks, Claims, Greetings
<1> HIDE DEF Clerks
<1> QED BY <1>1

\* The types of the rest
LEMMA FileTypes ==
    ASSUME clerk' \in [Containers -> Clerks],
           listed' \in {Torn} \cup SUBSET Agents,
           tmp' \in {Torn, Absent} \cup SUBSET Agents,
           visitors' \in {Torn} \cup [Agents -> 0..MaxVisits],
           bought' \subseteq Agents, visits' \in [Agents -> 0..MaxVisits],
           overlapped' \in SUBSET {"listed", "visitors"}, crashed' \in BOOLEAN
    PROVE  Files!TypeOK'
BY DEF Files!TypeOK, Clerks, Claims, Greetings

\* The start: empty registers
LEMMA FilesStart == Files!Init => Files!TypeOK /\ FilesInv
<1> SUFFICES ASSUME Files!Init PROVE Files!TypeOK /\ FilesInv
  OBVIOUS
<1> USE FilesConstants
<1>1. \A c \in Containers : ~Copying(c) /\ ~Greeting(c)
  BY DEF Files!Init, Copying, Greeting, Files!AtDesk, Files!ClaimSteps, Files!GreetSteps
<1>2. Files!Nobody \in [Agents -> 0..MaxVisits] /\ \A a \in Agents : Files!Nobody[a] = 0
  BY DEF Files!Nobody
<1>3. Files!TypeOK
  BY <1>2 DEF Files!Init, Files!TypeOK
<1>4. ListingsAreCopied
  BY <1>1 DEF Files!Init, ListingsAreCopied
<1>5. VisitsAreCopied
  BY <1>1, <1>2 DEF Files!Init, VisitsAreCopied
<1> QED BY <1>3, <1>4, <1>5 DEF FilesInv

\* A container that takes up no claim leaves the register's copies as they are
LEMMA ListingsStay ==
    ASSUME Files!TypeOK, FilesInv, NEW c \in Containers, NEW r \in Clerks, clerk' = [clerk EXCEPT ![c] = r],
           r.step \notin Files!ClaimSteps, UNCHANGED <<listed, tmp, bought>>,
           "listed" \in overlapped => "listed" \in overlapped'
    PROVE  ListingsAreCopied'
<1>1. /\ clerk'[c] = r /\ \A d \in Containers : d # c => clerk'[d] = clerk[d]
  BY OneClerk
<1>2. \A d \in Containers : Copying(d)' => Copying(d) /\ clerk'[d] = clerk[d]
  BY <1>1 DEF Copying
<1> QED BY <1>2 DEF FilesInv, ListingsAreCopied

\* A container that takes up no greeting leaves the visits' copies as they are
LEMMA VisitsStay ==
    ASSUME Files!TypeOK, FilesInv, NEW c \in Containers, NEW r \in Clerks, clerk' = [clerk EXCEPT ![c] = r],
           r.step \notin Files!GreetSteps, ~Greeting(c) \/ crashed', crashed => crashed',
           UNCHANGED <<visitors, visits>>,
           "visitors" \in overlapped => "visitors" \in overlapped'
    PROVE  VisitsAreCopied'
<1>1. /\ clerk'[c] = r /\ \A d \in Containers : d # c => clerk'[d] = clerk[d]
  BY OneClerk
<1>2. \A d \in Containers : Greeting(d)' => Greeting(d) /\ clerk'[d] = clerk[d]
  BY <1>1 DEF Greeting
<1>3. ~crashed' => \A d \in Containers : Greeting(d)' <=> Greeting(d)
  BY <1>1 DEF Greeting
<1> QED BY <1>2, <1>3 DEF FilesInv, VisitsAreCopied

\* Whoever takes a file another one has is noted
LEMMA TakesIsNoted ==
    ASSUME Files!TypeOK, NEW c \in Containers, NEW name \in {"listed", "visitors"}, NEW steps,
           Files!Takes(c, name, steps)
    PROVE  /\ overlapped' \in SUBSET {"listed", "visitors"}
           /\ overlapped \subseteq overlapped' /\ overlapped' \subseteq overlapped \cup {name}
           /\ name \notin overlapped' => \A d \in Containers \ {c} : clerk[d].step \notin steps
BY DEF Files!Takes, Files!TypeOK

\* A claim takes a copy of the register, with its own agent
LEMMA ReadsRegisterKeeps ==
    ASSUME Files!TypeOK, FilesInv, NEW c \in Containers, NEW a \in Agents, Files!ReadsRegister(c, a)
    PROVE  Files!TypeOK' /\ FilesInv'
<1> USE FilesConstants
<1> DEFINE r == [step |-> "read", agent |-> a, copy |-> Files!_read \cup {a}]
<1>1. /\ clerk[c] = Files!AtDesk /\ clerk' = [clerk EXCEPT ![c] = r]
      /\ Files!Takes(c, "listed", Files!ClaimSteps)
      /\ UNCHANGED <<listed, tmp, visitors, bought, visits, crashed>>
  BY DEF Files!ReadsRegister, Files!Moves
<1>2. /\ overlapped' \in SUBSET {"listed", "visitors"}
      /\ overlapped \subseteq overlapped' /\ overlapped' \subseteq overlapped \cup {"listed"}
      /\ "listed" \notin overlapped' => \A d \in Containers \ {c} : ~Copying(d)
  BY <1>1, TakesIsNoted DEF Copying
<1>3. Files!_read \in SUBSET Agents /\ (listed # Torn => Files!_read = listed)
  BY DEF Files!_read, Files!TypeOK
<1>4. r \in Clerks /\ r.step = "read" /\ r.agent = a /\ a \in r.copy /\ r.copy = Files!_read \cup {a}
  BY <1>3 DEF Clerks, Claims
<1> HIDE DEF r
<1>5. r.step \notin Files!GreetSteps
  BY <1>4 DEF Files!GreetSteps
<1>6. /\ clerk' \in [Containers -> Clerks] /\ clerk'[c] = r
      /\ \A d \in Containers : d # c => clerk'[d] = clerk[d]
  BY <1>1, <1>4, OneClerk
<1>7. Files!TypeOK'
  BY <1>1, <1>2, <1>6, FileTypes DEF Files!TypeOK
<1>8. VisitsAreCopied'
  <2>1. ~Greeting(c)
    BY <1>1, NobodyAtTheDesk DEF Greeting
  <2> QED BY <1>1, <1>2, <1>4, <1>5, <2>1, VisitsStay
<1>9. ListingsAreCopied'
  <2> SUFFICES ASSUME "listed" \notin overlapped' PROVE ListingsAreCopied'
    BY DEF ListingsAreCopied
  <2>1. "listed" \notin overlapped /\ listed # Torn /\ bought \subseteq listed
    BY <1>2 DEF FilesInv, ListingsAreCopied
  <2>2. \A d \in Containers : Copying(d)' => d = c
    BY <1>2, <1>6 DEF Copying
  <2>3. listed' \subseteq clerk'[c].copy /\ clerk'[c].agent \in clerk'[c].copy /\ clerk'[c].step = "read"
    BY <1>1, <1>3, <1>4, <1>6, <2>1
  <2> QED BY <1>1, <2>1, <2>2, <2>3 DEF ListingsAreCopied
<1> QED BY <1>7, <1>8, <1>9 DEF FilesInv

\* The register stays while the .tmp file is empty
LEMMA OpensTmpKeeps ==
    ASSUME Files!TypeOK, FilesInv, NEW c \in Containers, Files!OpensTmp(c)
    PROVE  Files!TypeOK' /\ FilesInv'
<1> USE FilesConstants
<1> DEFINE r == [clerk[c] EXCEPT !.step = "open"]
<1>1. /\ clerk[c].step = "read" /\ tmp' = Torn /\ clerk' = [clerk EXCEPT ![c] = r]
      /\ UNCHANGED <<listed, visitors, bought, visits, overlapped, crashed>>
  BY DEF Files!OpensTmp, Files!Moves
<1>2. clerk[c] \in Clerks
  BY DEF Files!TypeOK, Clerks, Claims, Greetings
<1>3. clerk[c] \in Claims /\ Copying(c) /\ ~Greeting(c)
  BY <1>1, <1>2, ClerkKinds DEF Files!ClaimSteps, Copying, Greeting
<1>4. r \in Claims /\ r.step = "open" /\ r.agent = clerk[c].agent /\ r.copy = clerk[c].copy
  BY <1>3 DEF Claims
<1> HIDE DEF r
<1>5. r \in Clerks /\ r.step \notin Files!GreetSteps
  BY <1>4 DEF Clerks, Files!GreetSteps
<1>6. /\ clerk' \in [Containers -> Clerks] /\ clerk'[c] = r
      /\ \A d \in Containers : d # c => clerk'[d] = clerk[d]
  BY <1>1, <1>5, OneClerk
<1>7. Files!TypeOK'
  BY <1>1, <1>6, FileTypes DEF Files!TypeOK
<1>8. VisitsAreCopied'
  BY <1>1, <1>3, <1>5, VisitsStay
<1>9. ListingsAreCopied'
  BY <1>1, <1>3, <1>4, <1>6 DEF FilesInv, ListingsAreCopied, Copying
<1> QED BY <1>7, <1>8, <1>9 DEF FilesInv

\* The .tmp file gets the copy
LEMMA FillsTmpKeeps ==
    ASSUME Files!TypeOK, FilesInv, NEW c \in Containers, Files!FillsTmp(c)
    PROVE  Files!TypeOK' /\ FilesInv'
<1> USE FilesConstants
<1> DEFINE r == [clerk[c] EXCEPT !.step = "written"]
<1>1. /\ clerk[c].step = "open" /\ clerk' = [clerk EXCEPT ![c] = r]
      /\ UNCHANGED <<visitors, bought, visits, overlapped, crashed>>
  BY DEF Files!FillsTmp, Files!Moves
<1>2. PICK text \in {clerk[c].copy} \cup (IF "listed" \in overlapped THEN {Torn} ELSE {}) :
         IF tmp = Absent THEN listed' = text /\ UNCHANGED tmp ELSE tmp' = text /\ UNCHANGED listed
  BY DEF Files!FillsTmp
<1>3. clerk[c] \in Clerks
  BY DEF Files!TypeOK, Clerks, Claims, Greetings
<1>4. clerk[c] \in Claims /\ Copying(c) /\ ~Greeting(c)
  BY <1>1, <1>3, ClerkKinds DEF Files!ClaimSteps, Copying, Greeting
<1>5. r \in Claims /\ r.step = "written" /\ r.agent = clerk[c].agent /\ r.copy = clerk[c].copy
      /\ clerk[c].copy \in SUBSET Agents
  BY <1>4 DEF Claims
<1> HIDE DEF r
<1>6. r \in Clerks /\ r.step \notin Files!GreetSteps
  BY <1>5 DEF Clerks, Files!GreetSteps
<1>7. /\ clerk' \in [Containers -> Clerks] /\ clerk'[c] = r
      /\ \A d \in Containers : d # c => clerk'[d] = clerk[d]
  BY <1>1, <1>6, OneClerk
<1>8. /\ listed' \in {Torn} \cup SUBSET Agents /\ tmp' \in {Torn, Absent} \cup SUBSET Agents
  BY <1>2, <1>5 DEF Files!TypeOK
<1>9. Files!TypeOK'
  BY <1>1, <1>7, <1>8, FileTypes DEF Files!TypeOK
<1>10. VisitsAreCopied'
  BY <1>1, <1>4, <1>6, VisitsStay
<1>11. ListingsAreCopied'
  <2> SUFFICES ASSUME "listed" \notin overlapped PROVE ListingsAreCopied'
    BY <1>1 DEF ListingsAreCopied
  <2>1. tmp # Absent /\ text = clerk[c].copy
    BY <1>1, <1>2, <1>4 DEF FilesInv, ListingsAreCopied
  <2>2. tmp' = clerk[c].copy /\ listed' = listed
    BY <1>2, <2>1
  <2> QED BY <1>1, <1>4, <1>5, <1>7, <2>2 DEF FilesInv, ListingsAreCopied, Copying
<1> QED BY <1>9, <1>10, <1>11 DEF FilesInv

\* The register becomes the copy, and the claim is answered
LEMMA MovesTmpKeeps ==
    ASSUME Files!TypeOK, FilesInv, NEW c \in Containers, Files!MovesTmp(c)
    PROVE  Files!TypeOK' /\ FilesInv'
<1> USE FilesConstants
<1>1. /\ clerk[c].step = "written" /\ clerk' = [clerk EXCEPT ![c] = Files!AtDesk] /\ tmp' = Absent
      /\ listed' = IF tmp = Absent THEN listed ELSE tmp
      /\ bought' = IF tmp = Absent THEN bought ELSE bought \cup {clerk[c].agent}
      /\ UNCHANGED <<visitors, visits, overlapped, crashed>>
  BY DEF Files!MovesTmp, Files!Moves
<1>2. clerk[c] \in Clerks
  BY DEF Files!TypeOK, Clerks, Claims, Greetings
<1>3. clerk[c] \in Claims /\ Copying(c) /\ ~Greeting(c) /\ clerk[c].agent \in Agents
      /\ clerk[c].copy \in SUBSET Agents
  BY <1>1, <1>2, ClerkKinds DEF Files!ClaimSteps, Copying, Greeting
<1>4. /\ clerk' \in [Containers -> Clerks] /\ clerk'[c] = Files!AtDesk
      /\ \A d \in Containers : d # c => clerk'[d] = clerk[d]
  BY <1>1, NobodyAtTheDesk, OneClerk
<1>5. Files!TypeOK'
  <2>1. listed' \in {Torn} \cup SUBSET Agents /\ bought' \subseteq Agents
    BY <1>1, <1>3 DEF Files!TypeOK
  <2> QED BY <1>1, <1>4, <2>1, FileTypes DEF Files!TypeOK
<1>6. VisitsAreCopied'
  BY <1>1, <1>3, NobodyAtTheDesk, VisitsStay
<1>7. ListingsAreCopied'
  <2> SUFFICES ASSUME "listed" \notin overlapped PROVE ListingsAreCopied'
    BY <1>1 DEF ListingsAreCopied
  <2>1. tmp = clerk[c].copy /\ listed \subseteq clerk[c].copy /\ clerk[c].agent \in clerk[c].copy
        /\ bought \subseteq listed
    BY <1>1, <1>3 DEF FilesInv, ListingsAreCopied
  <2>2. listed' # Torn /\ bought' \subseteq listed'
    BY <1>1, <1>3, <2>1
  <2>3. \A d \in Containers : ~Copying(d)'
    BY <1>3, <1>4, NobodyAtTheDesk DEF FilesInv, ListingsAreCopied, Copying
  <2> QED BY <2>2, <2>3 DEF ListingsAreCopied
<1> QED BY <1>5, <1>6, <1>7 DEF FilesInv

\* A listing that ends was promised for no longer
LEMMA ExpiresKeeps ==
    ASSUME Files!TypeOK, FilesInv, NEW a \in Agents, Files!Expires(a)
    PROVE  Files!TypeOK' /\ FilesInv'
<1> USE FilesConstants
<1>1. /\ listed # Torn /\ listed' = listed \ {a} /\ bought' = bought \ {a}
      /\ \A c \in Containers : ~Copying(c)
      /\ UNCHANGED <<tmp, visitors, clerk, visits, overlapped, crashed>>
  BY DEF Files!Expires, Copying
<1>2. listed' \in SUBSET Agents /\ bought' \subseteq Agents
  BY <1>1 DEF Files!TypeOK
<1>3. Files!TypeOK'
  BY <1>1, <1>2 DEF Files!TypeOK
<1>4. ListingsAreCopied'
  BY <1>1, <1>2 DEF FilesInv, ListingsAreCopied, Copying
<1>5. VisitsAreCopied'
  BY <1>1 DEF FilesInv, VisitsAreCopied, Greeting
<1> QED BY <1>3, <1>4, <1>5 DEF FilesInv

\* A greeting takes a copy of the visits, with its own
LEMMA ReadsVisitorsKeeps ==
    ASSUME Files!TypeOK, FilesInv, NEW c \in Containers, NEW a \in Agents, Files!ReadsVisitors(c, a)
    PROVE  Files!TypeOK' /\ FilesInv'
<1> USE FilesConstants
<1> DEFINE copy == [Files!Known EXCEPT ![a] = @ + 1]
           r == [step |-> "greets", agent |-> a, copy |-> copy]
<1>1. /\ clerk[c] = Files!AtDesk /\ clerk' = [clerk EXCEPT ![c] = r] /\ visits[a] < MaxVisits
      /\ Files!Takes(c, "visitors", Files!GreetSteps)
      /\ visits' = [visits EXCEPT ![a] = @ + 1]
      /\ UNCHANGED <<listed, tmp, visitors, bought, crashed>>
  BY DEF Files!ReadsVisitors, Files!Moves
<1>2. /\ overlapped' \in SUBSET {"listed", "visitors"}
      /\ overlapped \subseteq overlapped' /\ overlapped' \subseteq overlapped \cup {"visitors"}
      /\ "visitors" \notin overlapped' => \A d \in Containers \ {c} : ~Greeting(d)
  BY <1>1, TakesIsNoted DEF Greeting
<1>3. /\ Files!Known \in [Agents -> 0..MaxVisits] /\ visits \in [Agents -> 0..MaxVisits]
      /\ \A b \in Agents : Files!Known[b] <= visits[b]
      /\ visitors # Torn => Files!Known = visitors
  BY DEF Files!Known, Files!Nobody, Files!TypeOK, FilesInv, VisitsAreCopied
<1>4. /\ copy \in [Agents -> 0..MaxVisits] /\ visits' \in [Agents -> 0..MaxVisits]
      /\ \A b \in Agents : copy[b] <= visits'[b] /\ visits[b] <= visits'[b]
      /\ Files!Known = visits => copy = visits'
  <2>1. Files!Known[a] + 1 \in 0..MaxVisits /\ visits[a] + 1 \in 0..MaxVisits
        /\ Files!Known[a] + 1 <= visits[a] + 1
    <3>1. Files!Known[a] \in 0..MaxVisits /\ visits[a] \in 0..MaxVisits /\ Files!Known[a] <= visits[a]
      BY <1>3
    <3> QED BY <1>1, <3>1
  <2>2. /\ copy \in [Agents -> 0..MaxVisits] /\ copy[a] = Files!Known[a] + 1
        /\ \A b \in Agents : b # a => copy[b] = Files!Known[b]
    BY <1>3, <2>1
  <2>3. /\ visits' \in [Agents -> 0..MaxVisits] /\ visits'[a] = visits[a] + 1
        /\ \A b \in Agents : b # a => visits'[b] = visits[b]
    BY <1>1, <1>3, <2>1
  <2>4. Files!Known = visits => copy = visits'
    BY <1>1
  <2> HIDE DEF copy
  <2>5. ASSUME NEW b \in Agents PROVE copy[b] <= visits'[b] /\ visits[b] <= visits'[b]
    <3>1. Files!Known[b] \in Int /\ visits[b] \in Int /\ Files!Known[b] <= visits[b]
      BY <1>3
    <3> QED BY <2>1, <2>2, <2>3, <3>1
  <2> QED BY <2>2, <2>3, <2>4, <2>5
<1> HIDE DEF copy
<1>5. r \in Clerks /\ r.step = "greets" /\ r.copy = copy
  BY <1>4 DEF Clerks, Greetings
<1> HIDE DEF r
<1>6. r.step \notin Files!ClaimSteps
  BY <1>5 DEF Files!ClaimSteps
<1>7. /\ clerk' \in [Containers -> Clerks] /\ clerk'[c] = r
      /\ \A d \in Containers : d # c => clerk'[d] = clerk[d]
  BY <1>1, <1>5, OneClerk
<1>8. Files!TypeOK'
  BY <1>1, <1>2, <1>4, <1>7, FileTypes DEF Files!TypeOK
<1>9. ListingsAreCopied'
  BY <1>1, <1>2, <1>5, <1>6, ListingsStay
<1>10. ~Greeting(c)
  BY <1>1, NobodyAtTheDesk DEF Greeting
<1>11. VisitsAreCopied'
  <2>1. visitors' # Torn => \A b \in Agents : visitors'[b] <= visits'[b]
    <3> SUFFICES ASSUME visitors # Torn, NEW b \in Agents PROVE visitors[b] <= visits'[b]
      BY <1>1
    <3>1. visitors[b] <= visits[b] /\ visits[b] <= visits'[b]
      BY <1>4 DEF FilesInv, VisitsAreCopied
    <3>2. visitors[b] \in Int /\ visits[b] \in Int /\ visits'[b] \in Int
      BY <1>3, <1>4
    <3> QED BY <3>1, <3>2
  <2>2. ASSUME NEW d \in Containers, Greeting(d)', NEW b \in Agents
        PROVE  clerk'[d].copy[b] <= visits'[b]
    <3>1. CASE d = c
      BY <1>4, <1>5, <1>7, <3>1
    <3>2. CASE d # c
      <4>1. clerk'[d] = clerk[d] /\ Greeting(d) /\ clerk[d] \in Clerks
        BY <1>7, <2>2, <3>2 DEF Greeting
      <4>2. clerk[d].copy \in [Agents -> 0..MaxVisits]
        BY <4>1, ClerkKinds DEF Greeting
      <4>3. clerk[d].copy[b] <= visits[b] /\ visits[b] <= visits'[b]
        BY <1>4, <4>1 DEF FilesInv, VisitsAreCopied
      <4>4. clerk[d].copy[b] \in Int /\ visits[b] \in Int /\ visits'[b] \in Int
        BY <1>3, <1>4, <4>2
      <4> QED BY <4>1, <4>3, <4>4
    <3> QED BY <3>1, <3>2
  <2>3. ASSUME "visitors" \notin overlapped', ~crashed
        PROVE  /\ \A d \in Containers : Greeting(d)' <=> d = c
               /\ clerk'[c].copy = visits'
    <3>1. \A d \in Containers : ~Greeting(d)
      BY <1>2, <1>10, <2>3
    <3>2. visitors = visits
      BY <1>2, <2>3, <3>1 DEF FilesInv, VisitsAreCopied
    <3>3. Files!Known = visits
      BY <1>3, <3>2
    <3> QED BY <1>4, <1>5, <1>7, <3>1, <3>3 DEF Greeting, Files!GreetSteps
  <2> QED BY <1>1, <2>1, <2>2, <2>3 DEF VisitsAreCopied
<1> QED BY <1>8, <1>9, <1>11 DEF FilesInv

\* The visits are in the copy while their file is empty
LEMMA OpensVisitorsKeeps ==
    ASSUME Files!TypeOK, FilesInv, NEW c \in Containers, Files!OpensVisitors(c)
    PROVE  Files!TypeOK' /\ FilesInv'
<1> USE FilesConstants
<1> DEFINE r == [clerk[c] EXCEPT !.step = "truncated"]
<1>1. /\ clerk[c].step = "greets" /\ visitors' = Torn /\ clerk' = [clerk EXCEPT ![c] = r]
      /\ UNCHANGED <<listed, tmp, bought, visits, overlapped, crashed>>
  BY DEF Files!OpensVisitors, Files!Moves
<1>2. clerk[c] \in Clerks
  BY DEF Files!TypeOK, Clerks, Claims, Greetings
<1>3. clerk[c] \in Greetings /\ Greeting(c)
  BY <1>1, <1>2, ClerkKinds DEF Files!GreetSteps, Greeting
<1>4. r \in Greetings /\ r.step = "truncated" /\ r.copy = clerk[c].copy
  BY <1>3 DEF Greetings
<1> HIDE DEF r
<1>5. r \in Clerks /\ r.step \notin Files!ClaimSteps /\ r.step \in Files!GreetSteps
  BY <1>4 DEF Clerks, Files!ClaimSteps, Files!GreetSteps
<1>6. /\ clerk' \in [Containers -> Clerks] /\ clerk'[c] = r
      /\ \A d \in Containers : d # c => clerk'[d] = clerk[d]
  BY <1>1, <1>5, OneClerk
<1>7. Files!TypeOK'
  BY <1>1, <1>6, FileTypes DEF Files!TypeOK
<1>8. ListingsAreCopied'
  BY <1>1, <1>5, ListingsStay
<1>9. VisitsAreCopied'
  <2>1. \A d \in Containers : (Greeting(d)' <=> Greeting(d)) /\ clerk'[d].copy = clerk[d].copy
    BY <1>3, <1>4, <1>5, <1>6 DEF Greeting
  <2> QED BY <1>1, <1>3, <2>1 DEF FilesInv, VisitsAreCopied
<1> QED BY <1>7, <1>8, <1>9 DEF FilesInv

\* The file of the visits becomes the copy
LEMMA FillsVisitorsKeeps ==
    ASSUME Files!TypeOK, FilesInv, NEW c \in Containers, Files!FillsVisitors(c)
    PROVE  Files!TypeOK' /\ FilesInv'
<1> USE FilesConstants
<1>1. /\ clerk[c].step = "truncated" /\ visitors' = clerk[c].copy
      /\ clerk' = [clerk EXCEPT ![c] = Files!AtDesk]
      /\ UNCHANGED <<listed, tmp, bought, visits, overlapped, crashed>>
  BY DEF Files!FillsVisitors, Files!Moves
<1>2. clerk[c] \in Clerks
  BY DEF Files!TypeOK, Clerks, Claims, Greetings
<1>3. Greeting(c) /\ clerk[c].copy \in [Agents -> 0..MaxVisits]
  BY <1>1, <1>2, ClerkKinds DEF Files!GreetSteps, Greeting
<1>4. /\ clerk' \in [Containers -> Clerks] /\ clerk'[c] = Files!AtDesk
      /\ \A d \in Containers : d # c => clerk'[d] = clerk[d]
  BY <1>1, NobodyAtTheDesk, OneClerk
<1>5. Files!TypeOK'
  BY <1>1, <1>3, <1>4, FileTypes DEF Files!TypeOK
<1>6. ListingsAreCopied'
  BY <1>1, NobodyAtTheDesk, ListingsStay
<1>7. VisitsAreCopied'
  <2>1. \A d \in Containers : Greeting(d)' => Greeting(d) /\ clerk'[d] = clerk[d] /\ d # c
    BY <1>4, NobodyAtTheDesk DEF Greeting
  <2>2. \A a \in Agents : visitors'[a] <= visits[a]
    BY <1>1, <1>3 DEF FilesInv, VisitsAreCopied
  <2>3. "visitors" \notin overlapped /\ ~crashed => visitors' = visits
    BY <1>1, <1>3 DEF FilesInv, VisitsAreCopied
  <2> QED BY <1>1, <2>1, <2>2, <2>3 DEF FilesInv, VisitsAreCopied
<1> QED BY <1>5, <1>6, <1>7 DEF FilesInv

\* A container that stops leaves the files as they are
LEMMA StopsKeeps ==
    ASSUME Files!TypeOK, FilesInv, NEW c \in Containers, Files!Stops(c)
    PROVE  Files!TypeOK' /\ FilesInv'
<1>1. /\ clerk' = [clerk EXCEPT ![c] = Files!AtDesk]
      /\ crashed' = (crashed \/ Greeting(c))
      /\ UNCHANGED <<listed, tmp, visitors, bought, visits, overlapped>>
  BY DEF Files!Stops, Files!Moves, Greeting
<1>2. clerk' \in [Containers -> Clerks]
  BY <1>1, NobodyAtTheDesk, OneClerk
<1>3. Files!TypeOK'
  BY <1>1, <1>2, FileTypes DEF Files!TypeOK
<1>4. ListingsAreCopied'
  BY <1>1, NobodyAtTheDesk, ListingsStay
<1>5. ~Greeting(c) \/ crashed'
  BY <1>1
<1>6. VisitsAreCopied'
  BY <1>1, <1>5, NobodyAtTheDesk, VisitsStay
<1> QED BY <1>3, <1>4, <1>6 DEF FilesInv

\* Each step of the containers keeps the registers' invariant
LEMMA FilesSteps ==
    ASSUME Files!TypeOK, FilesInv, Files!Next \/ UNCHANGED files
    PROVE  Files!TypeOK' /\ FilesInv'
<1>1. CASE UNCHANGED files
  BY <1>1 DEF files, Files!TypeOK, FilesInv, ListingsAreCopied, VisitsAreCopied, Copying, Greeting
<1>2. ASSUME NEW c \in Containers, NEW a \in Agents, Files!ReadsRegister(c, a) \/ Files!ReadsVisitors(c, a)
      PROVE  Files!TypeOK' /\ FilesInv'
  BY <1>2, ReadsRegisterKeeps, ReadsVisitorsKeeps
<1>3. ASSUME NEW c \in Containers, Files!OpensTmp(c) \/ Files!FillsTmp(c) \/ Files!MovesTmp(c)
      PROVE  Files!TypeOK' /\ FilesInv'
  BY <1>3, OpensTmpKeeps, FillsTmpKeeps, MovesTmpKeeps
<1>4. ASSUME NEW c \in Containers, Files!OpensVisitors(c) \/ Files!FillsVisitors(c) \/ Files!Stops(c)
      PROVE  Files!TypeOK' /\ FilesInv'
  BY <1>4, OpensVisitorsKeeps, FillsVisitorsKeeps, StopsKeeps
<1>5. ASSUME NEW a \in Agents, Files!Expires(a) PROVE Files!TypeOK' /\ FilesInv'
  BY <1>5, ExpiresKeeps
<1> QED BY <1>1, <1>2, <1>3, <1>4, <1>5 DEF Files!Next

\* The invariant of the registers gives the properties
LEMMA FilesHold == ASSUME FilesInv PROVE Files!ListingsAreKept /\ Files!VisitorsAreRemembered
BY DEF FilesInv, ListingsAreCopied, VisitsAreCopied, Files!ListingsAreKept, Files!VisitorsAreRemembered, Greeting

-----------------------------------------------------------------------------
(* The theorems.                                                           *)

\* Whatever stopped, restarted or overlapped, the ledger has no holes: sync()
\* commits last_block only behind the rows of the window (chain_payments.py).
THEOREM NoHoles == Books!Spec => []Books!LedgerHasNoHoles
<1>1. Books!Init => BooksInv
  BY BooksStart
<1>2. BooksInv /\ [Books!Next]_(Books!ledgerVars) => BooksInv'
  BY BooksSteps DEF Books!ledgerVars, books
<1>3. BooksInv => Books!LedgerHasNoHoles
  BY DEF BooksInv
<1> QED BY <1>1, <1>2, <1>3, PTL DEF Books!Spec

RecordsInv ==
    /\ LimitsInv
    /\ BooksInv /\ BooksAreTrue
    /\ Files!TypeOK /\ FilesInv

\* Every part keeps its invariant in every step of Errands
LEMMA RecordsAreKept == (Init => RecordsInv) /\ (RecordsInv /\ [Next]_vars => RecordsInv')
<1>1. Init => RecordsInv
  BY LimitsStart, BooksStart, TruthStarts, FilesStart DEF Init, RecordsInv
<1>2. ASSUME RecordsInv, [Next]_vars PROVE RecordsInv'
  <2>1. LimitsInv'
    BY <1>2, LimitsStep DEF RecordsInv
  <2>2. BooksInv' /\ BooksAreTrue'
    BY <1>2, EachPartStepsOrStands, BooksSteps, TruthSteps DEF RecordsInv
  <2>3. Files!TypeOK' /\ FilesInv'
    BY <1>2, EachPartStepsOrStands, FilesSteps DEF RecordsInv
  <2> QED BY <2>1, <2>2, <2>3 DEF RecordsInv
<1> QED BY <1>1, <1>2

\* NothingIsForgotten (Errands.tla): a listing that was paid for and answered,
\* and the visits of an agent, stay in their files (agent_claim.py,
\* agent_salut.py), whatever stops, unless two containers have a file at once.
THEOREM NothingIsLost == Spec => []NothingIsForgotten
<1>1. RecordsInv => NothingIsForgotten
  BY FilesHold DEF RecordsInv, NothingIsForgotten
<1> QED BY <1>1, RecordsAreKept, PTL DEF Spec

\* SaidOnce (Errands.tla): the worker repeats no post that no fault excuses, the
\* ledger has no holes and no row that is not true, and a board tells a row to
\* no more callers, and has a text no more often, than there are containers.
THEOREM NothingIsSaidTwice == Spec => []SaidOnce
<1>1. RecordsInv => TypeOK
  BY DEF RecordsInv, LimitsInv, BooksAreTrue, TypeOK
<1>2. RecordsInv => Books!LedgerHasNoHoles /\ Books!RowsAreMined
  BY DEF RecordsInv, BooksInv, BooksAreTrue
<1>3. RecordsInv => SaidOnce
  BY <1>1, <1>2, BazaarHolds, BoardsHold DEF RecordsInv, LimitsInv, SaidOnce
<1> QED BY <1>3, RecordsAreKept, PTL DEF Spec
=============================================================================
