------------------------------ MODULE Errands ------------------------------
(***************************************************************************)
(* What the service does beside its paid routes: the marketplace worker,   *)
(* the copy of the seller's transfers, the limiter of OpenRouter, the      *)
(* budget of Claude, the free boards and the registers in files.  None     *)
(* reads what another writes, so a behaviour of this specification follows *)
(* one of them, chosen at the start.                                       *)
(***************************************************************************)
EXTENDS Naturals, Sequences, FiniteSets

CONSTANTS
    Offers, Demands, Contracts, DailyBidLimit, MaxPosts,                \* Market
    Syncs, Hashes, PerTx, MaxBlock, Backfill, Chunk, MinChunk,          \* Ledger
    Waiters, MaxCalls, Period, EndOfTime,                               \* Limiter
    Callers, Budget, MaxSales,                                          \* ClaudeBudget
    Sheets, Prints, Addresses, PerHour, MaxRows,                        \* Board
    Agents, MaxVisits, Torn, Absent,                                    \* Registers
    Containers                                                          \* both of them

VARIABLES
    part,
    file, memo, cycle, page, posts, today, left, tried, excused,
    head, mined, ledger, lastBlock, firstBlock, sync, unseen,
    now, calls, waiter, wakeAt, starts,
    call, tripped, logged, ungated, leaked, sales,
    rows, recent, desk, told,
    listed, tmp, visitors, clerk, bought, visits, overlapped, crashed

Bazaar == INSTANCE Market
Books == INSTANCE Ledger WITH rows <- ledger
Queue == INSTANCE Limiter WITH Callers <- Waiters
Purse == INSTANCE ClaudeBudget
Boards == INSTANCE Board
Files == INSTANCE Registers

ASSUME ErrandsConstants ==
    /\ Bazaar!MarketConstants /\ Books!LedgerConstants /\ Queue!LimiterConstants
    /\ Purse!BudgetConstants /\ Boards!BoardConstants /\ Files!RegisterConstants

bazaar == <<file, memo, cycle, page, posts, today, left, tried, excused>>
books == <<head, mined, ledger, lastBlock, firstBlock, sync, unseen>>
queue == <<now, calls, waiter, wakeAt, starts>>
purse == <<call, tripped, logged, ungated, leaked, sales>>
boards == <<rows, recent, desk, told>>
files == <<listed, tmp, visitors, clerk, bought, visits, overlapped, crashed>>

vars == <<part, bazaar, books, queue, purse, boards, files>>

Init ==
    /\ part \in {"bazaar", "books", "queue", "purse", "boards", "files"}
    /\ Bazaar!Init /\ Books!Init /\ Queue!Init
    /\ Purse!Init /\ Boards!Init /\ Files!Init

Only(p) ==
    /\ part = p /\ UNCHANGED part
    /\ p = "bazaar" \/ UNCHANGED bazaar
    /\ p = "books" \/ UNCHANGED books
    /\ p = "queue" \/ UNCHANGED queue
    /\ p = "purse" \/ UNCHANGED purse
    /\ p = "boards" \/ UNCHANGED boards
    /\ p = "files" \/ UNCHANGED files

Next ==
    \/ Only("bazaar") /\ Bazaar!Next
    \/ Only("books") /\ Books!Next
    \/ Only("queue") /\ Queue!Next
    \/ Only("purse") /\ Purse!Next
    \/ Only("boards") /\ Boards!Next
    \/ Only("files") /\ Files!Next

Spec == Init /\ [][Next]_vars

-----------------------------------------------------------------------------
\* The types of the parts
TypeOK ==
    /\ Bazaar!TypeOK /\ Books!TypeOK /\ Queue!TypeOK
    /\ Purse!TypeOK /\ Boards!TypeOK /\ Files!TypeOK

\* What was said is not said again, and what happened is written down once and
\* truly: posts of the worker, rows of chain_payments, claims and texts of the
\* boards.
SaidOnce ==
    /\ TypeOK
    /\ Bazaar!NothingPostedTwice
    /\ Books!LedgerHasNoHoles /\ Books!RowsAreMined
    /\ Boards!OneClaimPerContainer /\ Boards!RepeatsAreBounded

\* What was told an agent is remembered: its paid listing, its visits.
NothingIsForgotten == Files!ListingsAreKept /\ Files!VisitorsAreRemembered

\* The limits a setting states hold up to what is in flight: bids of a day,
\* calls in a period, dollars in a month, writes in an hour.
LimitsHold ==
    /\ Bazaar!BidsWithinTheDay
    /\ Queue!WithinTheRate
    /\ Purse!SpendingIsBounded
    /\ Boards!HourlyLimitsHold
=============================================================================
