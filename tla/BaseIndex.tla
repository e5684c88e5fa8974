------------------------------ MODULE BaseIndex ------------------------------
(***************************************************************************)
(* BaseIndex (index/base.cpp) with CoinStatsIndex (index/coinstatsindex    *)
(* .cpp) as the index built on it: the background thread that catches up   *)
(* with the active chain, the callbacks that take over once it has, the    *)
(* index database, and a caller of BlockUntilSyncedToCurrentChain.         *)
(*                                                                         *)
(* The statistics of a block, MuHash included, are the bag of blocks they  *)
(* were computed from.  Callbacks come in order and one at a time, which   *)
(* is what Scheduler shows of the queue behind them.  A failed assertion   *)
(* is a crash.  After a crash the node starts with the chain it last       *)
(* flushed and the index database as it is.                                *)
(***************************************************************************)
EXTENDS Integers, Sequences, FiniteSets

CONSTANTS Blocks, Genesis,
          Parent,       \* pprev, of every block but Genesis
          Height,       \* nHeight
          Null,
          MaxQueue, MaxCrashes, MaxFailures, MaxInvalidate   \* bounds: callbacks
                    \* queued, crashes, failed reads and writes, blocks disconnected alone

\* Heights go up from Genesis; Null is no block, no statistics and no entry.
ASSUME BaseIndexAssumption ==
    /\ Genesis \in Blocks /\ MaxQueue \in Nat
    /\ Parent \in [Blocks \ {Genesis} -> Blocks]
    /\ Height \in [Blocks -> Nat] /\ Height[Genesis] = 0
    /\ \A b \in Blocks \ {Genesis} : Height[b] = Height[Parent[b]] + 1
    /\ Null \notin Blocks \cup [Blocks -> Int] \cup [block : Blocks, stats : [Blocks -> Int]]

\* The blocks from t back to Genesis: those in every set that has t and, with
\* a block, its parent.
Closed(S) == \A c \in S \ {Genesis} : Parent[c] \in S
Ancestors == [t \in Blocks |-> {b \in Blocks : \A S \in SUBSET Blocks :
                                    t \in S /\ Closed(S) => b \in S}]
OnChain(b, t) == t # Null /\ b \in Ancestors[t]        \* t->GetAncestor is b
Heights == {Height[b] : b \in Blocks}

VARIABLES
    tip,                \* of the active chain
    flushed,            \* the tip and the block index on disk
    known,              \* the block index, m_block_index
    queue,              \* callbacks not yet delivered
    m_best_block_index, m_synced, m_interrupt,
    muhash,             \* the running statistics of CoinStatsIndex
    db,                 \* its database
    pc, pindex, pindex_next,    \* the sync thread
    caller, asked,      \* the caller, and the tip when it asked
    crashes, failures, invalidations,
    reverted            \* a Rewind has failed with statistics changed

chain == <<tip, flushed, known>>
index == <<m_best_block_index, m_synced, muhash, db>>
sync == <<pc, pindex, pindex_next>>
bounds == <<crashes, failures, invalidations, reverted>>
vars == <<chain, queue, index, m_interrupt, sync, caller, asked, bounds>>

NoStats == [b \in Blocks |-> 0]
Stats(b) == [c \in Blocks |-> IF c # Genesis /\ OnChain(c, b) THEN 1 ELSE 0]

EmptyDb == [height |-> [h \in Heights |-> Null],      \* height -> block, stats
            hash |-> [b \in Blocks |-> Null],         \* block -> stats
            best |-> Null, muhash |-> NoStats]

Init ==
    /\ tip \in {Null, Genesis}
    /\ known = {tip} \ {Null}
    /\ flushed = [tip |-> tip, known |-> known]
    /\ queue = <<>>
    /\ m_best_block_index = Null
    /\ m_synced = FALSE /\ m_interrupt = FALSE
    /\ muhash = NoStats /\ db = EmptyDb
    /\ pc = "init" /\ pindex = Null /\ pindex_next = Null
    /\ caller = "idle" /\ asked = Null
    /\ crashes = 0 /\ failures = 0 /\ invalidations = 0 /\ reverted = FALSE

-----------------------------------------------------------------------------
(* CoinStatsIndex.  Each operator is the value of the variables it changes. *)

\* LookUpOne: the entry at the block's height, or the one under its hash.
LookUpOne(d, b) ==
    LET e == d.height[Height[b]]
    IN  IF e = Null THEN Null ELSE IF e.block = b THEN e.stats ELSE d.hash[b]

\* The previous block's entry must be found in the height or the hash index.
AppendFails(d, b) == b # Genesis /\ LookUpOne(d, Parent[b]) = Null

Appended(m, b) == IF b = Genesis THEN m ELSE [m EXCEPT ![b] = @ + 1]

CustomAppend(d, m, b) ==
    [d EXCEPT !.height[Height[b]] = [block |-> b, stats |-> Appended(m, b)]]

\* RewindCopy_None: the entries are overwritten without a copy.
RewindCopy_None(d, old, new) == d

\* The height entries from the new tip's to the old tip's are also kept under
\* their hashes, since they are about to be overwritten.
RewindCopy(d, old, new) ==
    LET Held(b) == d.height[Height[b]] # Null /\ d.height[Height[b]].block = b
    IN  [d EXCEPT !.hash = [b \in Blocks |->
            IF Height[b] \in Height[new] .. Height[old] /\ Held(b)
              THEN d.height[Height[b]].stats ELSE d.hash[b]]]

Reversed(m, old, new) ==
    [b \in Blocks |-> IF OnChain(b, old) /\ ~OnChain(b, new) THEN m[b] - 1 ELSE m[b]]

\* ReverseBlock asserts, block by block, that what is left is what was stored.
ReverseAsserts(d, m, old, new) ==
    \A b \in Blocks : OnChain(b, old) /\ ~OnChain(b, new) =>
        LookUpOne(d, Parent[b]) = Reversed(m, old, Parent[b])

-----------------------------------------------------------------------------
(* BaseIndex *)

\* Commit writes the locator and, in the same batch, the running statistics.
Commit(d, best, m) == IF best = Null THEN d ELSE [d EXCEPT !.best = best, !.muhash = m]

\* A commit may fail, which changes nothing.
CommitTo(d, best, m) ==
    \/ /\ db' = Commit(d, best, m)
       /\ UNCHANGED failures
    \/ /\ failures < MaxFailures
       /\ failures' = failures + 1
       /\ db' = d

FatalError == m_interrupt' = TRUE

\* NextSyncBlock: the first block of the active chain that is not on p's, Null at
\* the tip.
NextSyncBlock(p) ==
    LET next == {b \in Blocks \ {Genesis} : OnChain(b, tip) /\ ~OnChain(b, p)
                                               /\ OnChain(Parent[b], p)}
    IN  IF p = Null THEN IF tip = Null THEN Null ELSE Genesis
        ELSE IF next = {} THEN Null ELSE CHOOSE b \in next : TRUE

\* The process ends at a failed assertion, or where m_best_block_index is
\* dereferenced while it is null.
AssertionFails ==
    /\ pc' = "aborted"
    /\ UNCHANGED <<chain, queue, index, m_interrupt, pindex, pindex_next, caller,
                   asked, bounds>>

\* The process ends, at any time, and is started again: memory is gone.
Crash ==
    /\ crashes < MaxCrashes
    /\ crashes' = crashes + 1
    /\ tip' = flushed.tip /\ known' = flushed.known
    /\ queue' = <<>>
    /\ m_best_block_index' = Null /\ m_synced' = FALSE /\ m_interrupt' = FALSE
    /\ muhash' = NoStats
    /\ pc' = "init" /\ pindex' = Null /\ pindex_next' = Null
    /\ caller' = "idle" /\ asked' = Null
    /\ UNCHANGED <<flushed, db, failures, invalidations, reverted>>

Up == pc \notin {"init", "error", "aborted"}

\* IndexInit_Fresh: the running statistics are not restored.
IndexInit_Fresh ==
    /\ pc = "init"
    /\ IF db.best # Null /\ (db.best \notin known \/ LookUpOne(db, db.best) # db.muhash)
         THEN /\ pc' = "error"
              /\ UNCHANGED <<m_best_block_index, m_synced, pindex>>
         ELSE /\ m_best_block_index' = db.best
              /\ m_synced' = (db.best = tip)
              /\ pindex' = db.best
              /\ pc' = IF m_synced' THEN "off" ELSE "loop"
    /\ UNCHANGED <<chain, queue, muhash, m_interrupt, db, pindex_next, caller, asked, bounds>>

\* BaseIndex::Init, with CustomInit.
IndexInit ==
    /\ pc = "init"
    /\ IF db.best # Null /\ (db.best \notin known \/ LookUpOne(db, db.best) # db.muhash)
         THEN /\ pc' = "error"
              /\ UNCHANGED <<m_best_block_index, m_synced, muhash, pindex>>
         ELSE /\ m_best_block_index' = db.best
              /\ muhash' = db.muhash
              /\ m_synced' = (db.best = tip)
              /\ pindex' = db.best
              /\ pc' = IF m_synced' THEN "off" ELSE "loop"
    /\ UNCHANGED <<chain, queue, m_interrupt, db, pindex_next, caller, asked, bounds>>

SyncNext ==
    /\ pc = "loop" /\ ~m_interrupt
    /\ pindex_next' = NextSyncBlock(pindex)
    /\ pc' = IF pindex_next' = Null THEN "settle" ELSE "have"
    /\ UNCHANGED <<chain, queue, index, m_interrupt, pindex, caller, asked, bounds>>

SyncInterrupted ==
    /\ pc = "loop" /\ m_interrupt
    /\ m_best_block_index' = pindex
    /\ CommitTo(db, pindex, muhash)
    /\ pc' = "off"
    /\ UNCHANGED <<chain, queue, m_synced, muhash, m_interrupt, pindex, pindex_next,
                   caller, asked, crashes, invalidations, reverted>>

SyncSettle ==
    /\ pc = "settle"
    /\ m_best_block_index' = pindex
    /\ CommitTo(db, pindex, muhash)
    /\ pc' = "recheck"
    /\ UNCHANGED <<chain, queue, m_synced, muhash, m_interrupt, pindex, pindex_next,
                   caller, asked, crashes, invalidations, reverted>>

\* Recheck_Leaves: Sync returns also if the chain has grown meanwhile.
Recheck_Leaves ==
    /\ pc = "recheck"
    /\ pindex_next' = NextSyncBlock(pindex)
    /\ m_synced' = (pindex_next' = Null)
    /\ pc' = "off"
    /\ UNCHANGED <<chain, queue, m_best_block_index, muhash, db, m_interrupt, pindex,
                   caller, asked, bounds>>

\* cs_main is held from the second look at the chain to the flag.
SyncRecheck ==
    /\ pc = "recheck"
    /\ pindex_next' = NextSyncBlock(pindex)
    /\ m_synced' = (pindex_next' = Null)
    /\ pc' = IF m_synced' THEN "off" ELSE "have"
    /\ UNCHANGED <<chain, queue, m_best_block_index, muhash, db, m_interrupt, pindex,
                   caller, asked, bounds>>

MustRewind == pindex # Null /\ Parent[pindex_next] # pindex

\* The assertions of Rewind and, under it, of ReverseBlock.
RewindAsserts(old, new) ==
    /\ old = m_best_block_index
    /\ OnChain(new, old)
    /\ ReverseAsserts(RewindCopy(db, old, new), muhash, old, new)

\* Rewind returns false: the copy cannot be written; or a block or its undo
\* data cannot be read once x is reached, with the next block's subsidy perhaps
\* off the statistics already; or the commit fails, at the new tip.
RewindFails(old, new) ==
    /\ failures < MaxFailures
    /\ failures' = failures + 1
    /\ FatalError
    /\ old = m_best_block_index /\ OnChain(new, old)
    /\ \/ UNCHANGED <<db, muhash, reverted>>
       \/ \E x \in Blocks :
             /\ OnChain(x, old) /\ OnChain(new, x)
             /\ db' = RewindCopy(db, old, new)
             /\ ReverseAsserts(db', muhash, old, x)
             /\ muhash' = Reversed(muhash, old, x)
             /\ reverted' \in {reverted \/ x # old, TRUE}
    /\ UNCHANGED m_best_block_index

SyncRewind ==
    /\ pc = "have" /\ MustRewind
    /\ LET new == Parent[pindex_next]
       IN  \/ /\ RewindFails(pindex, new)
              /\ pc' = "off"
              /\ UNCHANGED <<chain, queue, m_synced, pindex, pindex_next, caller, asked,
                             crashes, invalidations>>
           \/ IF ~RewindAsserts(pindex, new) THEN AssertionFails
              ELSE /\ muhash' = Reversed(muhash, pindex, new)
                   /\ db' = Commit(RewindCopy(db, pindex, new), new, muhash')
                   /\ m_best_block_index' = new
                   /\ pc' = "append"
                   /\ UNCHANGED <<chain, queue, m_synced, m_interrupt, pindex,
                                  pindex_next, caller, asked, bounds>>

\* CustomAppend fails, also if the block or its undo data cannot be read.
CustomAppendFails(d, b) ==
    /\ failures < MaxFailures \/ AppendFails(d, b)
    /\ failures' = IF AppendFails(d, b) THEN failures ELSE failures + 1

\* The locator is written every so often.
SyncAppend(commit) ==
    /\ pc = "append" \/ (pc = "have" /\ ~MustRewind)
    /\ pindex' = pindex_next
    /\ \/ /\ CustomAppendFails(db, pindex_next)
          /\ FatalError
          /\ pc' = "off"
          /\ UNCHANGED <<db, muhash, m_best_block_index>>
       \/ /\ ~AppendFails(db, pindex_next)
          /\ muhash' = Appended(muhash, pindex_next)
          /\ pc' = "loop"
          /\ IF commit
               THEN /\ m_best_block_index' = pindex_next
                    /\ CommitTo(CustomAppend(db, muhash, pindex_next), pindex_next, muhash')
               ELSE /\ db' = CustomAppend(db, muhash, pindex_next)
                    /\ UNCHANGED <<m_best_block_index, failures>>
          /\ UNCHANGED m_interrupt
    /\ UNCHANGED <<chain, queue, m_synced, pindex_next, caller, asked, crashes,
                   invalidations, reverted>>

-----------------------------------------------------------------------------
(* The callbacks, in the order of the queue. *)

Delivered(kind) == Up /\ queue # <<>> /\ Head(queue).kind = kind

\* The block's parent is an ancestor of the best block, or both are missing.
\* The parent of the genesis block is taken for an ancestor of any best block.
Connects(b) ==
    b = Genesis \/ (m_best_block_index # Null /\ OnChain(Parent[b], m_best_block_index))

IgnoreConnected ==
    /\ Delivered("connected")
    /\ ~m_synced \/ (m_best_block_index # Null /\ ~Connects(Head(queue).block))
    /\ queue' = Tail(queue)
    /\ UNCHANGED <<chain, index, m_interrupt, sync, caller, asked, bounds>>

FirstNotGenesis ==
    /\ Delivered("connected") /\ m_synced
    /\ m_best_block_index = Null /\ Head(queue).block # Genesis
    /\ FatalError
    /\ queue' = Tail(queue)
    /\ UNCHANGED <<chain, index, sync, caller, asked, bounds>>

\* The genesis block has no block to rewind to.
BlockConnected ==
    /\ Delivered("connected") /\ m_synced
    /\ LET b == Head(queue).block
           old == m_best_block_index
           rewind == old # Null /\ (b = Genesis \/ Parent[b] # old)
           m == IF rewind THEN Reversed(muhash, old, Parent[b]) ELSE muhash
           d == IF rewind THEN Commit(RewindCopy(db, old, Parent[b]), Parent[b], m) ELSE db
           Taken == /\ queue' = Tail(queue)
                    /\ UNCHANGED <<chain, m_synced, sync, caller, asked, crashes,
                                   invalidations>>
       IN  /\ Connects(b)
           /\ \/ rewind /\ b # Genesis /\ RewindFails(old, Parent[b]) /\ Taken
              \/ IF rewind /\ (b = Genesis \/ ~RewindAsserts(old, Parent[b]))
                   THEN AssertionFails
                 ELSE
                   /\ \/ /\ CustomAppendFails(d, b)
                         /\ FatalError
                         /\ db' = d /\ muhash' = m
                         /\ m_best_block_index' = IF rewind THEN Parent[b] ELSE old
                      \/ /\ ~AppendFails(d, b)
                         /\ db' = CustomAppend(d, m, b)
                         /\ muhash' = Appended(m, b)
                         /\ m_best_block_index' = b
                         /\ UNCHANGED <<failures, m_interrupt>>
                   /\ Taken /\ UNCHANGED reverted

NullBest == m_synced /\ m_best_block_index = Null

FlushedNullBest == Delivered("flushed") /\ NullBest /\ AssertionFails

\* The locator's block must be one the index has reached.
ChainStateFlushed ==
    /\ Delivered("flushed")
    /\ ~NullBest
    /\ queue' = Tail(queue)
    /\ IF m_synced /\ OnChain(Head(queue).block, m_best_block_index)
         THEN CommitTo(db, m_best_block_index, muhash)
         ELSE UNCHANGED <<db, failures>>
    /\ UNCHANGED <<chain, m_best_block_index, m_synced, muhash, m_interrupt, sync,
                   caller, asked, crashes, invalidations, reverted>>

-----------------------------------------------------------------------------
(* BlockUntilSyncedToCurrentChain *)

Ask ==
    /\ Up /\ caller = "idle" /\ m_synced /\ tip # Null /\ ~NullBest
    /\ asked' = tip
    /\ \/ /\ OnChain(tip, m_best_block_index)
          /\ caller' = "answered"
          /\ UNCHANGED queue
       \/ /\ ~OnChain(tip, m_best_block_index)
          /\ Len(queue) < MaxQueue
          /\ caller' = "waiting"
          /\ queue' = Append(queue, [kind |-> "promise", block |-> tip])
    /\ UNCHANGED <<chain, index, m_interrupt, sync, bounds>>

AskNullBest == Up /\ caller = "idle" /\ tip # Null /\ NullBest /\ AssertionFails

Promise ==
    /\ Delivered("promise")
    /\ queue' = Tail(queue)
    /\ caller' = "answered"
    /\ UNCHANGED <<chain, index, m_interrupt, sync, asked, bounds>>

Answered ==
    /\ caller = "answered"
    /\ caller' = "idle" /\ asked' = Null
    /\ UNCHANGED <<chain, queue, index, m_interrupt, sync, bounds>>

-----------------------------------------------------------------------------
(* The chain, external to the index: blocks are connected up to a new tip of *)
(* more work, or the tip is disconnected; the chainstate is flushed.         *)

Running == Up /\ ~m_interrupt

\* The blocks that are connected, lowest first.
ChainMoves(new) ==
    LET blocks == {b \in Ancestors[new] : ~OnChain(b, tip)}
        n == Cardinality(blocks)
    IN  /\ Running
        /\ tip # Null => Height[new] > Height[tip]
        /\ n \in 0 .. MaxQueue - Len(queue)
        /\ tip' = new
        /\ known' = known \cup blocks
        /\ \E path \in [1 .. n -> blocks] :
              /\ \A i, j \in 1 .. n : i < j => Height[path[i]] < Height[path[j]]
              /\ queue' = queue \o [i \in 1 .. n |-> [kind |-> "connected", block |-> path[i]]]
        /\ UNCHANGED <<flushed, index, m_interrupt, sync, caller, asked, bounds>>

Invalidated ==
    /\ Running /\ invalidations < MaxInvalidate
    /\ tip \notin {Null, Genesis}
    /\ invalidations' = invalidations + 1
    /\ tip' = Parent[tip]
    /\ UNCHANGED <<flushed, known, queue, index, m_interrupt, sync, caller, asked,
                   crashes, failures, reverted>>

FlushChain ==
    /\ Up /\ tip # Null
    /\ flushed.tip # tip /\ Len(queue) < MaxQueue
    /\ flushed' = [tip |-> tip, known |-> known]
    /\ queue' = Append(queue, [kind |-> "flushed", block |-> tip])
    /\ UNCHANGED <<tip, known, index, m_interrupt, sync, caller, asked, bounds>>

\* Interrupt, at shutdown; the chain no longer moves.
Interrupt ==
    /\ Running
    /\ m_interrupt' = TRUE
    /\ UNCHANGED <<chain, queue, index, sync, caller, asked, bounds>>

Ended ==
    /\ ~Up \/ (m_interrupt /\ pc = "off" /\ queue = <<>>)
    /\ UNCHANGED vars

-----------------------------------------------------------------------------
SyncStep ==
    \/ IndexInit \/ SyncNext \/ SyncInterrupted \/ SyncSettle \/ SyncRecheck
    \/ SyncRewind \/ \E commit \in BOOLEAN : SyncAppend(commit)

Deliver ==
    \/ IgnoreConnected \/ FirstNotGenesis \/ BlockConnected
    \/ ChainStateFlushed \/ FlushedNullBest \/ Promise

Next ==
    \/ SyncStep \/ Deliver
    \/ Ask \/ AskNullBest \/ Answered
    \/ \E new \in Blocks : ChainMoves(new)
    \/ Invalidated \/ FlushChain \/ Interrupt \/ Crash \/ Ended

\* The sync thread and the thread that delivers callbacks run.
Spec == Init /\ [][Next]_vars /\ WF_vars(SyncStep) /\ WF_vars(Deliver)

-----------------------------------------------------------------------------
\* The state has the types of the fields of BaseIndex and CoinStatsIndex, and
\* m_synced is set only once Sync has returned or there is nothing to sync.
TypeOK ==
    /\ tip \in Blocks \cup {Null} /\ flushed.tip \in Blocks \cup {Null}
    /\ flushed.known \subseteq Blocks /\ known \subseteq Blocks
    /\ m_best_block_index \in Blocks \cup {Null}
    /\ m_synced \in BOOLEAN /\ m_interrupt \in BOOLEAN
    /\ m_synced => pc \in {"off", "aborted"}
    /\ muhash \in [Blocks -> 0 .. 1] /\ db.muhash \in [Blocks -> 0 .. 1]
    /\ pc \in {"init", "loop", "have", "append", "settle", "recheck", "off", "error", "aborted"}
    /\ pindex \in Blocks \cup {Null} /\ pindex_next \in Blocks \cup {Null}

\* Every block up to the best block, in memory and on disk, can be looked up
\* and has the statistics of exactly the chain that ends in it, whatever
\* reorganizations, crashes and missed commits came before, short of a Rewind
\* that failed half way.  An index whose locator is a known block comes up: the
\* statistics committed with it are those of its entry (CustomInit).
IndexServesChain ==
    /\ TypeOK
    /\ ~reverted =>
          /\ \A b \in Blocks :
                OnChain(b, db.best) \/ OnChain(b, m_best_block_index)
                    => LookUpOne(db, b) = Stats(b)
          /\ db.best # Null => LookUpOne(db, db.best) = db.muhash

\* Once a caller is told that the index is synced, it finds the block that was
\* the tip when it asked.
SyncedMeansIndexed ==
    caller = "answered" /\ ~m_interrupt /\ ~reverted => LookUpOne(db, asked) = Stats(asked)

\* The index catches up: while the node runs it is, again and again, synced and
\* at or past the tip, also after callbacks of a stale branch were still queued
\* when the sync thread finished.
CatchesUp == []<>(Running /\ tip # Null => m_synced /\ OnChain(tip, m_best_block_index))

=============================================================================
