----------------------------- MODULE CoinsCache -----------------------------
(***************************************************************************)
(* The hierarchy of coins views of a chainstate:                           *)
(*                                                                         *)
(*    view (ConnectTip / DisconnectTip)  ->  CoinsTip()  ->  database      *)
(*                                                                         *)
(* view and tip are both CCoinsViewCache objects and run the same code     *)
(* (CoinsOps).  cs_main is held throughout, so an operation is one step.   *)
(* While a view is open everything goes through it; without one the same   *)
(* operations act on the tip cache (snapshot loading, ReplayBlocks, mempool*)
(* lookups).  Flushing the tip is atomic here; CoinsRecovery looks into    *)
(* the database's BatchWrite and at crashes during it.                     *)
(***************************************************************************)
EXTENDS CoinsOps

CONSTANTS Blocks,       \* block hashes
          NoBlock       \* uint256()

ASSUME CoinsCacheAssumption ==
    /\ Spent \notin Coins
    /\ Absent \notin Entry
    /\ Unspendable \subseteq Coins
    /\ NoBlock \notin Blocks

VARIABLES db,           \* coins in the database
          tip,          \* cacheCoins of CoinsTip()
          view,         \* cacheCoins of the block's view
          viewOpen,     \* such a view exists
          dbBest, tipBest, viewBest     \* DB_BEST_BLOCK, the two hashBlock

vars == <<db, tip, view, viewOpen, dbBest, tipBest, viewBest>>

Init ==
    /\ db \in [Outpoints -> (Coins \ Unspendable) \cup {Spent}]
    /\ tip = EmptyCache
    /\ view = EmptyCache
    /\ viewOpen = FALSE
    /\ dbBest \in Blocks \cup {NoBlock}
    /\ tipBest = NoBlock
    /\ viewBest = NoBlock

\* GetCoin and GetBestBlock of the two caches, as values.
TipCoin(o) == CoinIn(tip, o, db[o])
ViewCoin(o) == CoinIn(view, o, TipCoin(o))
TipBestBlock == IF tipBest = NoBlock THEN dbBest ELSE tipBest
ViewBestBlock == IF viewBest = NoBlock THEN TipBestBlock ELSE viewBest

\* The maps after FetchCoin(o) on the top cache: a miss in the view asks the
\* tip, which fetches too.
TipFetched(o) ==
    IF viewOpen /\ view[o] # Absent THEN tip ELSE Fetched(tip, o, db[o])
ViewFetched(o) == IF viewOpen THEN Fetched(view, o, TipCoin(o)) ELSE view

-----------------------------------------------------------------------------
\* GetCoin, HaveCoin, AccessCoin: reading fills the caches.
Fetch(o) ==
    /\ tip' = TipFetched(o)
    /\ view' = ViewFetched(o)
    /\ UNCHANGED <<db, viewOpen, dbBest, tipBest, viewBest>>

\* AddCoin on the top cache, without a fetch.
AddCoin(o, c, overwrite) ==
    /\ IF viewOpen
         THEN view' = Added(view, o, c, overwrite) /\ UNCHANGED tip
         ELSE tip' = Added(tip, o, c, overwrite) /\ UNCHANGED view
    /\ UNCHANGED <<db, viewOpen, dbBest, tipBest, viewBest>>

\* AddCoins with check_for_overwrite = false.  A coinbase may overwrite; for
\* any other transaction the caller has ruled out an unspent duplicate (the
\* BIP30 test of ConnectBlock).
AddOutput(o, c, coinbase) ==
    /\ coinbase \/ ViewCoin(o) = Spent
    /\ AddCoin(o, c, coinbase)

\* AddCoins with check_for_overwrite = true, and ApplyTxInUndo: HaveCoin
\* decides, and fetches.
AddChecked(o, c) ==
    LET have == ViewCoin(o) # Spent
    IN  /\ IF viewOpen
             THEN /\ tip' = TipFetched(o)
                  /\ view' = Added(ViewFetched(o), o, c, have)
             ELSE /\ tip' = Added(TipFetched(o), o, c, have)
                  /\ UNCHANGED view
        /\ UNCHANGED <<db, viewOpen, dbBest, tipBest, viewBest>>

SpendCoin(o) ==
    /\ IF viewOpen
         THEN tip' = TipFetched(o) /\ view' = SpentIn(ViewFetched(o), o)
         ELSE tip' = SpentIn(TipFetched(o), o) /\ UNCHANGED view
    /\ UNCHANGED <<db, viewOpen, dbBest, tipBest, viewBest>>

\* Uncache and EmplaceCoinInternalDANGER are used on the tip cache only.
Uncache(o) ==
    /\ ~viewOpen
    /\ tip' = Uncached(tip, o)
    /\ UNCHANGED <<db, view, viewOpen, dbBest, tipBest, viewBest>>

\* Snapshot loading: every coin of a snapshot is new to the cache.
EmplaceCoin(o, c) ==
    /\ ~viewOpen
    /\ tip[o] = Absent
    /\ c \notin Unspendable
    /\ tip' = Emplaced(tip, o, c)
    /\ UNCHANGED <<db, view, viewOpen, dbBest, tipBest, viewBest>>

\* GetBestBlock remembers the backing view's answer.
GetBestBlock ==
    /\ tipBest' = IF viewOpen /\ viewBest # NoBlock THEN tipBest
                                                   ELSE TipBestBlock
    /\ viewBest' = IF viewOpen THEN ViewBestBlock ELSE viewBest
    /\ UNCHANGED <<db, tip, view, viewOpen, dbBest>>

SetBestBlock(b) ==
    /\ IF viewOpen
         THEN viewBest' = b /\ UNCHANGED tipBest
         ELSE tipBest' = b /\ UNCHANGED viewBest
    /\ UNCHANGED <<db, tip, view, viewOpen, dbBest>>

-----------------------------------------------------------------------------
\* OpenView_OverDb: the view takes its best block from the database.
OpenView_OverDb ==
    /\ ~viewOpen
    /\ viewOpen' = TRUE
    /\ view' = EmptyCache
    /\ viewBest' = dbBest
    /\ UNCHANGED <<db, tip, dbBest, tipBest>>

\* CCoinsViewCache view(&CoinsTip()).
OpenView ==
    /\ ~viewOpen
    /\ viewOpen' = TRUE
    /\ view' = EmptyCache
    /\ viewBest' = NoBlock
    /\ UNCHANGED <<db, tip, dbBest, tipBest>>

\* view.Flush() and the end of its scope.  ConnectBlock and DisconnectBlock
\* have set the best block by then.
FlushView ==
    /\ viewOpen
    /\ viewBest # NoBlock
    /\ tip' = BatchWritten(tip, view)
    /\ tipBest' = viewBest
    /\ view' = EmptyCache
    /\ viewBest' = NoBlock
    /\ viewOpen' = FALSE
    /\ UNCHANGED <<db, dbBest>>

\* The block failed: the view goes out of scope without a flush.
DropView ==
    /\ viewOpen
    /\ view' = EmptyCache
    /\ viewBest' = NoBlock
    /\ viewOpen' = FALSE
    /\ UNCHANGED <<db, tip, dbBest, tipBest>>

\* FlushStateToDisk writes the coins only if there is a best block; Flush
\* empties the cache, Sync keeps it.
WriteTip(after) ==
    /\ ~viewOpen
    /\ TipBestBlock # NoBlock
    /\ db' = Stored(db, tip)
    /\ dbBest' = TipBestBlock
    /\ tipBest' = TipBestBlock
    /\ tip' = after
    /\ UNCHANGED <<view, viewOpen, viewBest>>

FlushTip == WriteTip(EmptyCache)
SyncTip == WriteTip(Synced(tip))

CoinStep(o) ==
    \/ Fetch(o) \/ SpendCoin(o) \/ Uncache(o)
    \/ \E c \in Coins :
          \/ \E coinbase \in BOOLEAN : AddOutput(o, c, coinbase)
          \/ AddChecked(o, c)
          \/ EmplaceCoin(o, c)

Next ==
    \/ \E o \in Outpoints : CoinStep(o)
    \/ GetBestBlock
    \/ \E b \in Blocks : SetBestBlock(b)
    \/ OpenView \/ FlushView \/ DropView \/ FlushTip \/ SyncTip

Spec == Init /\ [][Next]_vars

-----------------------------------------------------------------------------
\* Entries, coins and best blocks have their types: no call leaves an entry
\* with flags and no coin, or a spent coin where the maps hold none.
TypeOK ==
    /\ db \in [Outpoints -> CoinOrSpent]
    /\ tip \in CacheMap /\ view \in CacheMap
    /\ viewOpen \in BOOLEAN
    /\ dbBest \in Blocks \cup {NoBlock}
    /\ tipBest \in Blocks \cup {NoBlock}
    /\ viewBest \in Blocks \cup {NoBlock}

\* A cache entry never lies about what is below it (coins.h:149-167): FRESH
\* means no unspent coin below, not DIRTY means the same coin as below, and a
\* spent entry is DIRTY and not FRESH (one combination fewer than the five of
\* coins.h:101 and SanityCheck).
Faithful(e, below) ==
    /\ e.fresh => below = Spent
    /\ ~e.dirty => e.coin = below
    /\ e.coin = Spent => e.dirty /\ ~e.fresh
    /\ e.fresh => e.dirty

FlagsFaithful ==
    \A o \in Outpoints :
        /\ tip[o] # Absent => Faithful(tip[o], db[o])
        /\ view[o] # Absent => Faithful(view[o], TipCoin(o))

\* Neither of the two logic errors is thrown: flushing the view never meets a
\* FRESH coin that the tip cache holds unspent (coins.cpp:219), and a coin added
\* under the BIP30 rule never meets an unspent one (coins.cpp:84).
NeverThrows ==
    \A o \in Outpoints :
        /\ ~FreshMisapplied(tip[o], view[o])
        /\ ViewCoin(o) = Spent =>
              \A c \in Coins :
                  ~AddThrows(IF viewOpen THEN view ELSE tip, o, c, FALSE)

\* The caches are invisible: the views behave as three plain snapshots of the
\* UTXO set, of which commits and flushes copy one to the next.
Utxo == INSTANCE UtxoSet WITH
            disk <- db,
            chain <- [o \in Outpoints |-> TipCoin(o)],
            work <- [o \in Outpoints |-> ViewCoin(o)],
            diskBest <- dbBest,
            chainBest <- TipBestBlock,
            workBest <- ViewBestBlock,
            isOpen <- viewOpen

\* Every step of the cached views is a step of the plain ones.
ImplementsUtxoSet == Utxo!USpec

\* What each call may do to the plain views.
CallExact ==
    /\ \A o \in Outpoints :
          /\ Fetch(o) \/ Uncache(o) => UNCHANGED Utxo!uvars
          /\ SpendCoin(o) => Utxo!USpend(o)
          /\ \A c \in Coins :
                \/ \E coinbase \in BOOLEAN : AddOutput(o, c, coinbase)
                \/ AddChecked(o, c)
                \/ EmplaceCoin(o, c)
                => Utxo!UCreate(o, c)
    /\ GetBestBlock => UNCHANGED Utxo!uvars
    /\ \A b \in Blocks : SetBestBlock(b) => Utxo!USetBest(b)
    /\ FlushView => Utxo!UCommit
    /\ DropView => Utxo!UDiscard
    /\ FlushTip \/ SyncTip => Utxo!UPersist

\* Each call does to the plain views what it is called for and nothing else: a
\* read or an Uncache (the mempool's, coins.cpp:274) is not seen by anyone, a
\* SpendCoin or AddCoin changes its one coin in the view it is called on, and a
\* flush makes the level below equal to the one above.
CallsExact == [][CallExact]_vars

=============================================================================
