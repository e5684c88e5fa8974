--------------------------- MODULE CoinsRecovery ---------------------------
(***************************************************************************)
(* The chainstate on disk and how it survives a crash: blocks are          *)
(* connected and disconnected in the coins cache (validation.cpp),         *)
(* FlushStateToDisk writes block files, block index and coins in this      *)
(* order, CCoinsViewDB::BatchWrite (txdb.cpp) writes the coins in several  *)
(* batches between two head markers, and ReplayBlocks repairs what a crash *)
(* between two batches left.  Block files can be pruned by the flush: they *)
(* are unlinked once the index no longer names them and before the coins   *)
(* are written.                                                            *)
(*                                                                         *)
(* cs_main is held throughout, so a block is one step; the batches of a    *)
(* flush are steps of their own because the process can die between them.  *)
(* A coin is the height of its output, which is what distinguishes the     *)
(* same output created in two branches.  All blocks are valid, and outputs *)
(* that are provably unspendable are left out of them.                     *)
(***************************************************************************)
EXTENDS CoinsOps, Naturals, Sequences, SequencesExt

CONSTANTS Blocks,       \* block hashes: a tree with one root, the genesis block
          NoBlock,      \* uint256()
          Parent,       \* pprev of a block, NoBlock for genesis
          Height,       \* nHeight of a block
          Txs,          \* vtx of a block: a sequence of [ins, outs, coinbase]
          MaySync,      \* Sync is used, not only Flush
          MayFail,      \* flushes whose batches can fail: subset of {Flush, Sync}
          MIN_BLOCKS_TO_KEEP,
          PruneHeights  \* heights given to pruneblockchain; {} without -prune

ASSUME CoinsRecoveryAssumption ==
    /\ NoBlock \notin Blocks
    /\ Absent \notin Entry
    /\ Spent \notin Coins
    /\ Unspendable = {}
    /\ Parent \in [Blocks -> Blocks \cup {NoBlock}]
    /\ Height \in [Blocks -> Coins]
    /\ Coins \subseteq Nat
    /\ \A b \in Blocks : IF Parent[b] = NoBlock THEN Height[b] = 0
                                               ELSE Height[b] = Height[Parent[b]] + 1
    /\ MaySync \in BOOLEAN /\ MayFail \subseteq {"Flush", "Sync"}
    /\ MIN_BLOCKS_TO_KEEP \in Nat \ {0} /\ PruneHeights \subseteq Nat \ {0}

VARIABLES
    \* On disk.
    db, best, heads,    \* coins, DB_BEST_BLOCK, DB_HEAD_BLOCKS: <<>> or <<new, old>>
    files,              \* block and undo data that is flushed
    index,              \* the block index database: entries, and what they say
                        \* is in the files
    \* In memory.
    mode,               \* what the process is doing
    cache, tip,         \* cacheCoins of CoinsTip() or of ReplayBlocks, hashBlock
    mchain,             \* m_chain: "level" with tip, not yet moved to it while the
                        \* step that moved tip is "flushing", or "left" behind
                        \* because that flush failed
    status,             \* m_block_index: entries, BLOCK_HAVE_DATA, BLOCK_HAVE_UNDO
    rev,                \* the undo data of a block
    at,                 \* the block ReplayBlocks has reached
    todo, willErase,    \* the cursor of a running BatchWrite
    ahead               \* ghost: data the coins database may still need is pruned

disk == <<db, best, heads, files, index>>
cursor == <<todo, willErase>>
vars == <<db, best, heads, files, index, mode, cache, tip, mchain, status, rev,
          at, todo, willErase, ahead>>

Modes == {"down", "back", "forward", "run", "files", "flush", "replayflush"}

NoUndo == [o \in Outpoints |-> Spent]
Empty == [o \in Outpoints |-> Spent]

-----------------------------------------------------------------------------
\* What CoinsTip() answers, and so what lies below a view on it.
CoinsTip == [o \in Outpoints |-> CoinIn(cache, o, db[o])]

HeightOf(b) == IF b = NoBlock THEN 0 ELSE Height[b]

\* The ancestors of a block by height.
Ancestor[b \in Blocks, h \in Coins] ==
    IF h = Height[b] \/ Parent[b] = NoBlock THEN b ELSE Ancestor[Parent[b], h]

ChainOf == [b \in Blocks |-> {Ancestor[b, h] : h \in 0 .. Height[b]}]
Chain(b) == IF b = NoBlock THEN {} ELSE ChainOf[b]

\* The coin entries of map after f has changed those in S.
Changed(map, S, f(_)) == [o \in Outpoints |-> IF o \in S THEN f(o) ELSE map[o]]

\* SpendCoin, AddCoin and AddCoin after HaveCoin, for one outpoint.
Spend(map, below, o) == SpentIn(Fetched(map, o, below[o]), o)[o]
Add(map, o, c, overwrite) == Added(map, o, c, overwrite)[o]
AddOver(map, below, o, c) ==
    Added(Fetched(map, o, below[o]), o, c, CoinIn(map, o, below[o]) # Spent)[o]

\* UpdateCoins, on a record of the view's map and the undo data so far.
UpdateCoins(acc, below, tx, h) ==
    LET spent == Changed(acc.map, tx.ins, LAMBDA o : Spend(acc.map, below, o))
    IN  [map  |-> Changed(spent, tx.outs, LAMBDA o : Add(spent, o, h, tx.coinbase)),
         undo |-> Changed(acc.undo, tx.ins, LAMBDA o : CoinIn(acc.map, o, below[o]))]

\* ConnectBlock in a fresh view.  The genesis block's transactions are skipped.
ConnectBlock(below, b) ==
    LET start == [map |-> EmptyCache, undo |-> NoUndo]
    IN  IF Parent[b] = NoBlock THEN start
        ELSE FoldLeft(LAMBDA acc, tx : UpdateCoins(acc, below, tx, Height[b]),
                      start, Txs[b])

\* DisconnectBlock for one transaction: its outputs are spent, then its inputs
\* restored by ApplyTxInUndo.  clean tells that nothing was found missing,
\* different or in the way.
UndoTx(acc, below, tx, undo, h) ==
    LET spent == Changed(acc.map, tx.outs, LAMBDA o : Spend(acc.map, below, o))
    IN  [map   |-> Changed(spent, tx.ins, LAMBDA o : AddOver(spent, below, o, undo[o])),
         clean |-> /\ acc.clean
                   /\ \A o \in tx.outs : CoinIn(acc.map, o, below[o]) = h
                   /\ \A o \in tx.ins : CoinIn(spent, o, below[o]) = Spent]

\* DisconnectBlock_InOrder: the transactions are undone first to last.
DisconnectBlock_InOrder(map, below, b) ==
    FoldLeft(LAMBDA acc, tx : UndoTx(acc, below, tx, rev[b], Height[b]),
             [map |-> map, clean |-> TRUE], Txs[b])

DisconnectBlock(map, below, b) ==
    FoldLeft(LAMBDA acc, tx : UndoTx(acc, below, tx, rev[b], Height[b]),
             [map |-> map, clean |-> TRUE], Reverse(Txs[b]))

\* RollforwardBlock: every addition may be an overwrite.
RollforwardTx(map, below, tx, h) ==
    LET spent == Changed(map, tx.ins, LAMBDA o : Spend(map, below, o))
    IN  Changed(spent, tx.outs, LAMBDA o : AddOver(spent, below, o, h))

RollforwardBlock(map, below, b) ==
    FoldLeft(LAMBDA acc, tx : RollforwardTx(acc, below, tx, Height[b]), map, Txs[b])

\* The view is a cache on CoinsTip(): reading through it fills CoinsTip() too.
Touched(b) == UNION {tx.ins \cup tx.outs : tx \in Range(Txs[b])}
Warmed(b) == Changed(cache, Touched(b), LAMBDA o : Fetched(cache, o, db[o])[o])

-----------------------------------------------------------------------------
\* The operations of a running node.  After a failed flush, too, they go on until
\* Shutdown has stopped the threads: FatalError only asks for it.
\* ReceiveBlock stands for AcceptBlock: the block is written to a block file that
\* is not flushed yet, again if it was pruned.  Bound: blocks arrive once their
\* parent is in the active chain.
ReceiveBlock(b) ==
    /\ mode = "run" /\ mchain # "flushing"
    /\ <<b, "data">> \notin status
    /\ Parent[b] \in Chain(tip)
    /\ status' = status \cup {<<b, "entry">>, <<b, "data">>}
    /\ UNCHANGED <<disk, mode, cache, tip, mchain, rev, at, cursor, ahead>>

\* ConnectTip and DisconnectTip move m_chain only after their IF_NEEDED flush.
\* If that fails m_chain is left behind, and the next of them ends at the
\* assertion that it is level with the coins, which is a crash.
Moving(needed) ==
    /\ mode = "run" /\ mchain = "level"
    /\ mchain' = IF needed THEN "flushing" ELSE "level"

\* ConnectTip: the block is connected in a view, which is flushed to CoinsTip().
\* Undo data is written the first time.
ConnectTip(b, needed) ==
    LET done == ConnectBlock(CoinsTip, b)
    IN  /\ Moving(needed)
        /\ Parent[b] = tip
        /\ <<b, "data">> \in status
        /\ cache' = BatchWritten(Warmed(b), done.map)
        /\ tip' = b
        /\ IF Parent[b] = NoBlock \/ <<b, "undo">> \in status
             THEN UNCHANGED <<rev, status>>
             ELSE /\ rev' = [rev EXCEPT ![b] = done.undo]
                  /\ status' = status \cup {<<b, "undo">>}
        /\ UNCHANGED <<disk, mode, at, cursor, ahead>>

\* DisconnectTip: a block that cannot be read, or anything but a clean result,
\* leaves the tip where it is.
DisconnectTip(needed) ==
    /\ Moving(needed)
    /\ HeightOf(tip) > 0
    /\ {<<tip, "data">>, <<tip, "undo">>} \subseteq status
    /\ LET done == DisconnectBlock(EmptyCache, CoinsTip, tip)
       IN  /\ done.clean
           /\ cache' = BatchWritten(Warmed(tip), done.map)
    /\ tip' = Parent[tip]
    /\ UNCHANGED <<disk, mode, status, rev, at, cursor, ahead>>

-----------------------------------------------------------------------------
\* CCoinsViewDB::BatchWrite.  The old tip of the transition, which a replay
\* finds in the head markers it is about to write again.
OldTip == IF best = NoBlock /\ heads # <<>> THEN heads[2] ELSE best

\* FindFilesToPruneManual in the range of GetPruneRange: the blocks that lose
\* their data.  Each block has a file of its own, and the file in use, which is
\* spared, holds none of them.
FindFilesToPrune(h) ==
    {b \in Blocks : /\ tip # NoBlock
                    /\ <<b, "data">> \in status
                    /\ Height[b] <= h
                    /\ Height[b] = 0 \/ Height[b] + MIN_BLOCKS_TO_KEEP <= Height[tip]}

\* What ReplayBlocks reads to go from old to new.
Needed(new, old) ==
    ({b \in Chain(new) \ Chain(old) : Parent[b] # NoBlock} \X {"data"})
        \cup ((Chain(old) \ Chain(new)) \X {"data", "undo"})

MayReplay ==
    Needed(tip, OldTip) \cup IF heads = <<>> THEN {} ELSE Needed(heads[1], heads[2])

InFiles(set) == {x \in set : x[2] # "entry"}

\* FlushStateToDisk: files are chosen for pruning (h is 0 for none), then all
\* block and undo files are flushed; then comes the block index, and the coins
\* if this is a full flush and there is a best block.
\* Bound: no pruning by hand while m_chain is not level.
FlushBlockFiles(h) ==
    /\ mode = "run"
    /\ h # 0 => mchain = "level"
    /\ mode' = "files"
    /\ \E gone \in {IF h = 0 THEN {} ELSE FindFilesToPrune(h)} :
          /\ h # 0 => gone # {}
          /\ status' = status \ (gone \X {"data", "undo"})
          /\ rev' = [b \in Blocks |-> IF b \in gone THEN NoUndo ELSE rev[b]]
          /\ ahead' = (ahead \/ (gone \X {"data"}) \cap MayReplay # {})
    /\ files' = files \cup InFiles(status)
    /\ UNCHANGED <<db, best, heads, index, cache, tip, mchain, at, cursor>>

\* The files of blocks that are in the index and have no data any more.
setFilesToPrune == {x \in files : <<x[1], "entry">> \in status /\ x \notin status}

Flagged(map) == {o \in Outpoints : map[o] # Absent /\ (map[o].dirty \/ map[o].fresh)}

\* The flush is of the index only, or of the coins too with Flush or Sync.  That
\* of ConnectTip and DisconnectTip is for a cache that is over its limit.
StartCoins(kind) ==
    /\ mchain = "flushing" => kind = "Flush"
    /\ IF kind = "index" \/ tip = NoBlock
         THEN mode' = "run" /\ UNCHANGED cursor
         ELSE /\ mode' = "flush"
              /\ todo' = Flagged(cache)
              /\ willErase' = (kind = "Flush")

\* WriteBlockIndex_Skipped: the coins are flushed without the block index.
WriteBlockIndex_Skipped(kind) ==
    /\ mode = "files"
    /\ StartCoins(kind)
    /\ UNCHANGED <<disk, cache, tip, mchain, status, rev, at, ahead>>

\* The pruned files are unlinked once the index no longer names them, and
\* before the coins are flushed.  What a crash leaves of them is unlinked at
\* the next start (ScanAndUnlinkAlreadyPrunedFiles), so this is one step.
WriteBlockIndex(kind) ==
    /\ mode = "files"
    /\ setFilesToPrune # {} => kind # "index"
    /\ index' = status
    /\ files' = files \ setFilesToPrune
    /\ StartCoins(kind)
    /\ UNCHANGED <<db, best, heads, cache, tip, mchain, status, rev, at, ahead>>

Flushing == mode \in {"flush", "replayflush"}

\* The cursor has passed the entries S: without willErase it has erased the
\* spent ones and cleared the flags of the others.
Passed(S) == IF willErase THEN cache ELSE Changed(cache, S, LAMBDA o : Synced(cache)[o])

WithBatch(S) == Changed(db, S, LAMBDA o : Stored(db, cache)[o])

\* BatchWrite_NoAssert: the transition need not be the one the markers name.
BatchWrite_NoAssert == Flushing

\* BatchWrite is under way.  Head markers it finds must name the same new tip
\* (the assertion on old_heads[0]).
SameHeads == best = NoBlock /\ heads # <<>> => heads[1] = tip

BatchWrite == Flushing /\ SameHeads

\* The batch has grown too large and is written, with the head markers.
PartialBatch(S) ==
    /\ BatchWrite
    /\ S # {} /\ S \subseteq todo
    /\ db' = WithBatch(S)
    /\ heads' = <<tip, OldTip>>
    /\ best' = NoBlock
    /\ cache' = Passed(S)
    /\ todo' = todo \ S
    /\ UNCHANGED <<files, index, mode, tip, mchain, status, rev, at, willErase, ahead>>

\* Forget all memory; the block index is loaded from its database next time.
Stop ==
    /\ mode' = "down"
    /\ cache' = EmptyCache
    /\ tip' = NoBlock
    /\ mchain' = "level"
    /\ status' = index
    /\ rev' = [b \in Blocks |-> IF <<b, "undo">> \in index THEN rev[b] ELSE NoUndo]
    /\ at' = NoBlock
    /\ todo' = {}
    /\ willErase' = FALSE

\* The last batch, and what Flush or Sync does after it.
FinalBatch ==
    /\ BatchWrite
    /\ db' = WithBatch(todo)
    /\ heads' = <<>>
    /\ best' = tip
    /\ ahead' = FALSE
    /\ mode' = "run"
    /\ cache' = IF willErase THEN EmptyCache ELSE Passed(todo)
    /\ todo' = {}
    /\ willErase' = FALSE
    /\ at' = NoBlock
    /\ mchain' = IF mchain = "flushing" THEN "level" ELSE mchain
    /\ UNCHANGED <<files, index, tip, status, rev>>

\* WriteBatch throws.  FlushStateToDisk turns this into a fatal error, which
\* asks for a shutdown: the node goes on for a while with the cache it has.  In
\* ReplayBlocks the exception ends the start-up.
BatchFails(S) ==
    /\ (IF willErase THEN "Flush" ELSE "Sync") \in MayFail
    /\ BatchWrite
    /\ S \subseteq todo
    /\ UNCHANGED <<disk, ahead>>
    /\ IF mode = "replayflush" THEN Stop
       ELSE /\ mode' = "run"
            /\ cache' = Passed(S)
            /\ todo' = {}
            /\ willErase' = FALSE
            /\ mchain' = IF mchain = "flushing" THEN "left" ELSE mchain
            /\ UNCHANGED <<tip, status, rev, at>>

\* The assertion of BatchWrite ends the process.
AssertionFails ==
    /\ Flushing /\ ~SameHeads
    /\ Stop
    /\ UNCHANGED <<disk, ahead>>

\* The process dies, or Shutdown ends it: that flushes twice before, and goes on
\* whether its flushes fail or not.
Crash ==
    /\ mode # "down"
    /\ Stop
    /\ UNCHANGED <<disk, ahead>>

-----------------------------------------------------------------------------
\* Start-up: the block index is loaded; without head markers LoadChainTip takes
\* the tip from the database, with them ReplayBlocks comes first.  A block that
\* is not in the index, or whose data cannot be read, stops the start-up.
Known(b) == b = NoBlock \/ <<b, "entry">> \in status

Load ==
    /\ mode = "down"
    /\ IF heads = <<>>
         THEN /\ Known(best)
              /\ mode' = "run"
              /\ tip' = best
              /\ UNCHANGED at
         ELSE /\ Known(heads[1]) /\ Known(heads[2])
              /\ mode' = "back"
              /\ at' = heads[2]
              /\ UNCHANGED tip
    /\ ahead' = (ahead /\ heads # <<>>)
    /\ UNCHANGED <<disk, cache, mchain, status, rev, cursor>>

\* LastCommonAncestor.
Fork(old, new) ==
    IF old = NoBlock THEN NoBlock
    ELSE LET common == {h \in 0 .. Height[new] :
                           h <= Height[old] /\ Ancestor[old, h] = Ancestor[new, h]}
         IN  Ancestor[new, Max(common)]

\* RollBack_NoUndo: the block is read but not disconnected.
RollBack_NoUndo ==
    /\ mode = "back"
    /\ at # Fork(heads[2], heads[1])
    /\ <<at, "data">> \in status \cap files
    /\ <<at, "undo">> \in status \cap files
    /\ at' = Parent[at]
    /\ UNCHANGED <<disk, cache, mode, tip, mchain, status, rev, cursor, ahead>>

\* ReplayBlocks rolls back along the old branch.  An unclean result is accepted.
RollBack ==
    /\ mode = "back"
    /\ at # Fork(heads[2], heads[1])
    /\ <<at, "data">> \in status \cap files
    /\ <<at, "undo">> \in status \cap files
    /\ cache' = DisconnectBlock(cache, db, at).map
    /\ at' = Parent[at]
    /\ UNCHANGED <<disk, mode, tip, mchain, status, rev, cursor, ahead>>

TurnForward ==
    /\ mode = "back"
    /\ at = Fork(heads[2], heads[1])
    /\ mode' = "forward"
    /\ UNCHANGED <<disk, cache, tip, mchain, status, rev, at, cursor, ahead>>

\* RollForward_StopsShort: the loop ends before the new tip.
RollForward_StopsShort ==
    /\ mode = "forward"
    /\ HeightOf(at) + 1 < Height[heads[1]]
    /\ at' = Ancestor[heads[1], HeightOf(at) + 1]
    /\ <<at', "data">> \in status \cap files
    /\ cache' = RollforwardBlock(cache, db, at')
    /\ UNCHANGED <<disk, mode, tip, mchain, status, rev, cursor, ahead>>

\* It rolls forward from the fork, or from height 1 if there was no old tip.
RollForward ==
    /\ mode = "forward"
    /\ HeightOf(at) < Height[heads[1]]
    /\ at' = Ancestor[heads[1], HeightOf(at) + 1]
    /\ <<at', "data">> \in status \cap files
    /\ cache' = RollforwardBlock(cache, db, at')
    /\ UNCHANGED <<disk, mode, tip, mchain, status, rev, cursor, ahead>>

\* SetBestBlock and Flush.
ReplayFlush ==
    /\ mode = "forward"
    /\ HeightOf(at) = Height[heads[1]]
    /\ mode' = "replayflush"
    /\ tip' = heads[1]
    /\ todo' = Flagged(cache)
    /\ willErase' = TRUE
    /\ UNCHANGED <<disk, cache, mchain, status, rev, at, ahead>>

-----------------------------------------------------------------------------
\* A new data directory: the genesis block is in the index.
Init ==
    /\ db = Empty
    /\ best = NoBlock
    /\ heads = <<>>
    /\ index = {b \in Blocks : Parent[b] = NoBlock} \X {"entry", "data"}
    /\ files = InFiles(index)
    /\ mode = "down"
    /\ cache = EmptyCache
    /\ tip = NoBlock
    /\ mchain = "level"
    /\ status = index
    /\ rev = [b \in Blocks |-> NoUndo]
    /\ at = NoBlock
    /\ todo = {}
    /\ willErase = FALSE
    /\ ahead = FALSE

ChainStep ==
    \/ \E b \in Blocks : ReceiveBlock(b)
    \/ \E needed \in BOOLEAN :
          (\E b \in Blocks : ConnectTip(b, needed)) \/ DisconnectTip(needed)

Kinds == {"index", "Flush"} \cup IF MaySync THEN {"Sync"} ELSE {}

WriteIndexStep == \E kind \in Kinds : WriteBlockIndex(kind)

FlushStep ==
    \/ \E h \in PruneHeights \cup {0} : FlushBlockFiles(h)
    \/ WriteIndexStep
    \/ \E S \in SUBSET todo : PartialBatch(S) \/ BatchFails(S)
    \/ FinalBatch
    \/ AssertionFails

StartStep == Load \/ RollBack \/ TurnForward \/ RollForward \/ ReplayFlush

Next == ChainStep \/ FlushStep \/ StartStep \/ Crash

\* A start-up and a flush that are not cut short by a crash go on to their end:
\* each is one thread's sequential code.
Progress == StartStep \/ WriteIndexStep \/ FinalBatch \/ AssertionFails

Spec == Init /\ [][Next]_vars /\ WF_vars(Progress)

-----------------------------------------------------------------------------
\* Disk, cache and replay state have their types; in particular the head
\* markers are absent or a pair of a new tip and an old one (txdb.cpp:112-117).
TypeOK ==
    LET Have == Blocks \X {"entry", "data", "undo"}
    IN  /\ db \in [Outpoints -> CoinOrSpent]
        /\ best \in Blocks \cup {NoBlock}
        /\ heads \in {<<>>} \cup (Blocks \X (Blocks \cup {NoBlock}))
        /\ files \subseteq Have /\ index \subseteq Have /\ status \subseteq Have
        /\ mode \in Modes
        /\ cache \in CacheMap
        /\ tip \in Blocks \cup {NoBlock} /\ mchain \in {"level", "flushing", "left"}
        /\ rev \in [Blocks -> [Outpoints -> CoinOrSpent]]
        /\ at \in Blocks \cup {NoBlock}
        /\ todo \subseteq Outpoints
        /\ willErase \in BOOLEAN /\ ahead \in BOOLEAN

\* The UTXO set of a block, from the block chain alone.
TxResult(utxo, tx, h) ==
    [o \in Outpoints |-> CASE o \in tx.outs -> h
                           [] o \in tx.ins -> Spent
                           [] OTHER -> utxo[o]]

UtxoOf[b \in Blocks] ==
    IF Parent[b] = NoBlock THEN Empty
    ELSE FoldLeft(LAMBDA utxo, tx : TxResult(utxo, tx, Height[b]),
                  UtxoOf[Parent[b]], Txs[b])

UtxoAt(b) == IF b = NoBlock THEN Empty ELSE UtxoOf[b]

\* A database without head markers is exactly the UTXO set of its best block:
\* what the last batch of BatchWrite claims, also after any number of crashes,
\* reorganisations and replays.
DbConsistent == heads = <<>> => db = UtxoAt(best)

\* With head markers every coin is as in the old or as in the new state they
\* name, so that a replay has only two cases to cope with: also if the node goes
\* on after a failed write, and moves its tip, before it flushes again.
PartialIsMix ==
    heads # <<>> =>
        \A o \in Outpoints : db[o] \in {UtxoAt(heads[1])[o], UtxoAt(heads[2])[o]}

\* A running node's coins are those of its tip, and its tip can be disconnected
\* cleanly with the undo data it kept, unless a failed write has left the
\* database on the way to another tip.
TipCorrect ==
    mode = "run" /\ SameHeads =>
        /\ CoinsTip = UtxoAt(tip)
        /\ HeightOf(tip) > 0 /\ <<tip, "undo">> \in status
              => DisconnectBlock(EmptyCache, CoinsTip, tip).clean

\* The state has its types, and what the database names is on disk: a crash now
\* leaves a block index from which the chain tip can be taken, and block files
\* from which a replay can be read (FlushStateToDisk writes files, index and
\* coins in this order), unless blocks between the two tips of an unfinished
\* flush were pruned by that very flush.  Pruning blocks that both tips have in
\* common does no harm.
Recoverable ==
    /\ TypeOK
    /\ InFiles(index) \subseteq files
    /\ Chain(best) \X {"entry"} \subseteq index
    /\ heads # <<>> =>
          /\ (Chain(heads[1]) \cup Chain(heads[2])) \X {"entry"} \subseteq index
          /\ ahead \/ Needed(heads[1], heads[2]) \subseteq index

\* A node that is not for ever stopped by crashes, failed assertions or failed
\* writes (of which Crash is the effect, too) comes up and keeps coming back from
\* its flushes, whatever they left on disk, but for the same exception.
ComesUp == <>[][~Crash]_vars => []<>(mode = "run" \/ ahead)

=============================================================================
