-------------------------------- MODULE Ledger --------------------------------
(***************************************************************************)
(* chain_payments.py: USDC transfers to the seller's wallet are copied     *)
(* from the chain into chain_payments, a chunk of blocks at a time, by a   *)
(* cron job of the host and by each run of the comptable, which may        *)
(* overlap.  Any of several RPC providers may answer, and one that is      *)
(* behind answers for the blocks it has.                                   *)
(***************************************************************************)
EXTENDS Integers, FiniteSetsExt

CONSTANTS
    Syncs,          \* the processes that run sync()
    Hashes,         \* transactions
    PerTx,          \* transfers to the wallet in each of them
    MaxBlock,       \* bound: the height of the chain
    Backfill,       \* INITIAL_BACKFILL_BLOCKS
    Chunk,          \* BLOCK_CHUNK
    MinChunk        \* MIN_CHUNK

LedgerConstants ==
    /\ MaxBlock \in Nat \ {0} /\ Backfill \in Nat /\ PerTx \in Nat
    /\ MinChunk \in Nat \ {0} /\ Chunk \in Nat /\ MinChunk <= Chunk

Transfers == [tx : Hashes, nr : 1..PerTx]

VARIABLES
    head,       \* the newest block of the chain
    mined,      \* the block of each transfer, 0 while there is none
    rows,       \* chain_payments: the transfer recorded for each tx_hash
    lastBlock,  \* chain_sync_state "last_block", 0 for none
    firstBlock, \* history: where the last sync to find no last_block began
    sync,       \* where each process stands
    unseen      \* history: blocks a provider answered for without having them

ledgerVars == <<head, mined, rows, lastBlock, firstBlock, sync, unseen>>

Nothing == [tx |-> "none", nr |-> 0]
Idle == [at |-> "idle", latest |-> 0, current |-> 0, chunk |-> Chunk, logs |-> {}]

TypeOK ==
    /\ head \in 1..MaxBlock
    /\ mined \in [Transfers -> 0..MaxBlock]
    /\ rows \in [Hashes -> Transfers \cup {Nothing}]
    /\ lastBlock \in 0..MaxBlock
    /\ firstBlock \in 0..MaxBlock
    /\ sync \in [Syncs -> [at : {"idle", "asking", "writing"}, latest : 0..MaxBlock,
                           current : 0..(MaxBlock + 1), chunk : MinChunk..Chunk,
                           logs : SUBSET Transfers]]
    /\ unseen \subseteq 1..MaxBlock

Init ==
    /\ head = 1
    /\ mined = [t \in Transfers |-> 0]
    /\ rows = [h \in Hashes |-> Nothing]
    /\ lastBlock = 0
    /\ firstBlock = 0
    /\ sync = [p \in Syncs |-> Idle]
    /\ unseen = {}

-----------------------------------------------------------------------------
(* The chain: a block with the transfers of the transactions it takes.     *)

Mine(txs) ==
    /\ head < MaxBlock
    /\ head' = head + 1
    /\ \A t \in Transfers : t.tx \in txs => mined[t] = 0
    /\ mined' = [t \in Transfers |-> IF t.tx \in txs THEN head + 1 ELSE mined[t]]
    /\ UNCHANGED <<rows, lastBlock, firstBlock, sync, unseen>>

-----------------------------------------------------------------------------
(* sync(), between awaits.                                                 *)

To(p) == Min({sync[p].current + sync[p].chunk - 1, sync[p].latest})

\* eth_blockNumber has been answered by a provider at height latest
StartSync(p, latest) ==
    LET from == IF lastBlock # 0 THEN lastBlock + 1 ELSE Max({1, latest - Backfill})
    IN /\ sync[p] = Idle
       /\ latest \in 1..head
       /\ from <= latest
       /\ firstBlock' = IF lastBlock = 0 THEN Max({from, firstBlock}) ELSE firstBlock
       /\ sync' = [sync EXCEPT ![p] = [@ EXCEPT !.at = "asking", !.latest = latest, !.current = from]]
       /\ UNCHANGED <<head, mined, rows, lastBlock, unseen>>

\* eth_getLogs has been answered by a provider that has the blocks to height
GetLogs(p, height) ==
    /\ sync[p].at = "asking"
    /\ height \in 1..head
    /\ sync' = [sync EXCEPT ![p].at = "writing",
                            ![p].logs = {t \in Transfers : mined[t] \in sync[p].current..Min({To(p), height})}]
    /\ unseen' = unseen \cup {b \in sync[p].current..To(p) : b > height}
    /\ UNCHANGED <<head, mined, rows, lastBlock, firstBlock>>

\* Every provider has said 413
TooLarge(p) ==
    /\ sync[p].at = "asking"
    /\ sync[p].chunk > MinChunk
    /\ sync' = [sync EXCEPT ![p].chunk = Max({MinChunk, sync[p].chunk \div 2})]
    /\ UNCHANGED <<head, mined, rows, lastBlock, firstBlock, unseen>>

\* upsert_chain_payment, in the order of the chain; ON CONFLICT DO NOTHING
Upsert(p, t) ==
    /\ sync[p].at = "writing"
    /\ t \in sync[p].logs
    /\ \A u \in sync[p].logs : mined[t] < mined[u] \/ (mined[t] = mined[u] /\ t.nr <= u.nr)
    /\ rows' = [rows EXCEPT ![t.tx] = IF @ = Nothing THEN t ELSE @]
    /\ sync' = [sync EXCEPT ![p].logs = @ \ {t}]
    /\ UNCHANGED <<head, mined, lastBlock, firstBlock, unseen>>

\* The chunk is done: last_block is committed, the chunk grows back
SaveLastBlock(p) ==
    /\ sync[p].at = "writing"
    /\ sync[p].logs = {}
    /\ lastBlock' = To(p)
    /\ sync' = [sync EXCEPT ![p] =
           IF To(p) = sync[p].latest THEN Idle
           ELSE [sync[p] EXCEPT !.at = "asking", !.current = To(p) + 1, !.chunk = Min({Chunk, 2 * sync[p].chunk})]]
    /\ UNCHANGED <<head, mined, rows, firstBlock, unseen>>

\* Providers fail, the process or the container dies
SyncStops(p) ==
    /\ sync[p] # Idle
    /\ sync' = [sync EXCEPT ![p] = Idle]
    /\ UNCHANGED <<head, mined, rows, lastBlock, firstBlock, unseen>>

Next ==
    \/ \E txs \in SUBSET Hashes : Mine(txs)
    \/ \E p \in Syncs : \/ \E height \in 1..head : StartSync(p, height) \/ GetLogs(p, height)
                        \/ \E t \in Transfers : Upsert(p, t)
                        \/ TooLarge(p) \/ SaveLastBlock(p) \/ SyncStops(p)

Spec == Init /\ [][Next]_ledgerVars

-----------------------------------------------------------------------------
\* The ledger has no holes: every transaction mined from the start of the
\* backfill to last_block has its row, whatever stopped, restarted or overlapped,
\* except in a block some provider answered for without having it.
LedgerHasNoHoles ==
    \A t \in Transfers :
        mined[t] \in firstBlock..lastBlock /\ mined[t] > 0 =>
            rows[t.tx] # Nothing \/ mined[t] \in unseen

\* Rows tell the truth: a row is a transfer of its own transaction, and mined.
RowsAreMined ==
    \A h \in Hashes : rows[h] # Nothing =>
        rows[h].tx = h /\ mined[rows[h]] > 0
=============================================================================
