-------------------------- MODULE CoinsCacheProofs --------------------------
(***************************************************************************)
(* The coins caches are invisible, for any outpoints, coins and blocks:    *)
(* CoinsCache implements UtxoSet.                                          *)
(*                                                                         *)
(* The argument is one invariant, FlagsFaithful: every entry tells the     *)
(* truth about the level below it.  The first part shows, one lemma per    *)
(* operator of CoinsOps, that it keeps a map faithful and what it does to  *)
(* the coins the map stands for; the second part turns these into the      *)
(* invariant and the refinement.                                           *)
(***************************************************************************)
EXTENDS CoinsCache, TLAPS

\* Provers and seconds for the steps that name no prover of their own.
USE ZenonT(10), SMTT(20)

BelowMap == [Outpoints -> CoinOrSpent]

\* Every entry of m is faithful to the level b below it.
MapFaithful(m, b) ==
    \A o \in Outpoints : m[o] # Absent => Faithful(m[o], b[o])

USE CoinsCacheAssumption

\* The empty cache is a faithful map.
LEMMA EmptyOK ==
  ASSUME NEW b \in BelowMap
  PROVE  EmptyCache \in CacheMap /\ MapFaithful(EmptyCache, b)
  BY DEF EmptyCache, CacheMap, MapFaithful

\* FetchCoin keeps a map faithful and changes no answer.
LEMMA FetchedOK ==
  ASSUME NEW m \in CacheMap, NEW b \in BelowMap, MapFaithful(m, b),
         NEW o \in Outpoints
  PROVE  /\ Fetched(m, o, b[o]) \in CacheMap
         /\ MapFaithful(Fetched(m, o, b[o]), b)
         /\ \A p \in Outpoints :
               CoinIn(Fetched(m, o, b[o]), p, b[p]) = CoinIn(m, p, b[p])
         /\ Fetched(m, o, b[o])[o] = Absent => b[o] = Spent
<1>1. Clean(b[o]) \in Entry
  BY DEF Clean, Entry, BelowMap
<1>2. CASE m[o] = Absent /\ b[o] # Spent
  BY <1>1, <1>2
     DEF Fetched, Clean, CacheMap, BelowMap, MapFaithful, Faithful, CoinIn, Entry
<1>3. CASE ~(m[o] = Absent /\ b[o] # Spent)
  BY <1>3 DEF Fetched
<1> QED
  BY <1>2, <1>3

\* AddCoin keeps a map faithful if it may overwrite or the coin was spent, and
\* from then on the map answers the new coin.
LEMMA AddedOK ==
  ASSUME NEW m \in CacheMap, NEW b \in BelowMap, MapFaithful(m, b),
         NEW o \in Outpoints, NEW c \in Coins, NEW ow \in BOOLEAN,
         ow \/ CoinIn(m, o, b[o]) = Spent
  PROVE  /\ Added(m, o, c, ow) \in CacheMap
         /\ MapFaithful(Added(m, o, c, ow), b)
         /\ \A p \in Outpoints :
               CoinIn(Added(m, o, c, ow), p, b[p])
                 = IF p = o /\ c \notin Unspendable THEN c
                                                   ELSE CoinIn(m, p, b[p])
<1>1. CASE c \in Unspendable
  BY <1>1 DEF Added
<1>2. CASE c \notin Unspendable
  <2> DEFINE old == IF m[o] = Absent THEN Clean(Spent) ELSE m[o]
             fr == old.fresh \/ (~ow /\ ~old.dirty)
             e == [coin |-> c, dirty |-> TRUE, fresh |-> fr]
  <2>1. old \in Entry
    BY DEF Clean, Entry, CacheMap, CoinOrSpent
  <2>2. fr \in BOOLEAN
    BY <2>1 DEF Entry
  <2>3. e \in Entry
    BY <2>2 DEF Entry, CoinOrSpent
  <2>4. Added(m, o, c, ow) = [m EXCEPT ![o] = e]
    BY <1>2 DEF Added
  <2>5. fr => b[o] = Spent
    BY <2>1 DEF MapFaithful, Faithful, CoinIn, Clean
  <2>6. Faithful(e, b[o])
    BY <2>2, <2>5 DEF Faithful
  <2> HIDE DEF e, fr, old
  <2>7. e.coin = c
    BY DEF e
  <2> QED
    BY <1>2, <2>3, <2>4, <2>6, <2>7 DEF CacheMap, MapFaithful, CoinIn
<1> QED
  BY <1>1, <1>2

\* SpendCoin, after its fetch, keeps a map faithful and spends the coin.
LEMMA SpentOK ==
  ASSUME NEW m \in CacheMap, NEW b \in BelowMap, MapFaithful(m, b),
         NEW o \in Outpoints, m[o] = Absent => b[o] = Spent
  PROVE  /\ SpentIn(m, o) \in CacheMap
         /\ MapFaithful(SpentIn(m, o), b)
         /\ \A p \in Outpoints :
               CoinIn(SpentIn(m, o), p, b[p])
                 = IF p = o THEN Spent ELSE CoinIn(m, p, b[p])
<1>1. CASE m[o] = Absent
  BY <1>1 DEF SpentIn, CoinIn
<1>2. CASE m[o] # Absent /\ m[o].fresh
  <2>1. SpentIn(m, o) = [m EXCEPT ![o] = Absent]
    BY <1>2 DEF SpentIn
  <2> QED
    BY <1>2, <2>1 DEF CacheMap, MapFaithful, Faithful, CoinIn
<1>3. CASE m[o] # Absent /\ ~m[o].fresh
  <2> DEFINE e == [coin |-> Spent, dirty |-> TRUE, fresh |-> FALSE]
  <2>1. SpentIn(m, o) = [m EXCEPT ![o] = e]
    BY <1>3 DEF SpentIn
  <2>2. e \in Entry /\ Faithful(e, b[o]) /\ e.coin = Spent
    BY DEF Entry, CoinOrSpent, Faithful
  <2> HIDE DEF e
  <2> QED
    BY <2>1, <2>2 DEF CacheMap, MapFaithful, CoinIn
<1> QED
  BY <1>1, <1>2, <1>3


\* Uncache keeps a map faithful and changes no answer.
LEMMA UncachedOK ==
  ASSUME NEW m \in CacheMap, NEW b \in BelowMap, MapFaithful(m, b),
         NEW o \in Outpoints
  PROVE  /\ Uncached(m, o) \in CacheMap
         /\ MapFaithful(Uncached(m, o), b)
         /\ \A p \in Outpoints : CoinIn(Uncached(m, o), p, b[p]) = CoinIn(m, p, b[p])
<1>1. CASE m[o] # Absent /\ ~m[o].dirty /\ ~m[o].fresh
  BY <1>1 DEF Uncached, CacheMap, MapFaithful, Faithful, CoinIn
<1>2. CASE ~(m[o] # Absent /\ ~m[o].dirty /\ ~m[o].fresh)
  BY <1>2 DEF Uncached
<1> QED
  BY <1>1, <1>2

\* EmplaceCoinInternalDANGER of a coin new to the map keeps it faithful.
LEMMA EmplacedOK ==
  ASSUME NEW m \in CacheMap, NEW b \in BelowMap, MapFaithful(m, b),
         NEW o \in Outpoints, NEW c \in Coins, m[o] = Absent
  PROVE  /\ Emplaced(m, o, c) \in CacheMap
         /\ MapFaithful(Emplaced(m, o, c), b)
         /\ \A p \in Outpoints :
               CoinIn(Emplaced(m, o, c), p, b[p])
                 = IF p = o THEN c ELSE CoinIn(m, p, b[p])
<1> DEFINE e == [coin |-> c, dirty |-> TRUE, fresh |-> FALSE]
<1>1. Emplaced(m, o, c) = [m EXCEPT ![o] = e]
  BY DEF Emplaced
<1>2. e \in Entry /\ Faithful(e, b[o]) /\ e.coin = c
  BY DEF Entry, CoinOrSpent, Faithful
<1> HIDE DEF e
<1> QED
  BY <1>1, <1>2 DEF CacheMap, MapFaithful, CoinIn

\* BatchWrite into a parent cache, one entry: us over b, them over what us
\* and b answer.  The merged entry answers what them did and is faithful to b.
LEMMA MergedOK ==
  ASSUME NEW us \in Entry \cup {Absent}, NEW them \in Entry \cup {Absent},
         NEW b \in CoinOrSpent, NEW mid,
         mid = IF us = Absent THEN b ELSE us.coin,
         us # Absent => Faithful(us, b),
         them # Absent => Faithful(them, mid)
  PROVE  /\ Merged(us, them) \in Entry \cup {Absent}
         /\ Merged(us, them) # Absent => Faithful(Merged(us, them), b)
         /\ (IF Merged(us, them) = Absent THEN b ELSE Merged(us, them).coin)
              = IF them = Absent THEN mid ELSE them.coin
<1>1. CASE them = Absent \/ ~them.dirty
  BY <1>1 DEF Merged, Faithful
<1>2. CASE them # Absent /\ them.dirty /\ us = Absent /\ them.fresh /\ them.coin = Spent
  BY <1>2 DEF Merged, Faithful
<1>3. CASE /\ them # Absent /\ them.dirty /\ us = Absent
           /\ ~(them.fresh /\ them.coin = Spent)
  <2> DEFINE e == [coin |-> them.coin, dirty |-> TRUE, fresh |-> them.fresh]
  <2>1. Merged(us, them) = e
    BY <1>3 DEF Merged
  <2>2. them.coin \in CoinOrSpent /\ them.fresh \in BOOLEAN
    BY <1>3 DEF Entry
  <2>3. e \in Entry
    BY <2>2 DEF Entry
  <2>4. e # Absent
    BY <2>3
  <2>5. Faithful(e, b)
    BY <1>3, <2>2 DEF Faithful
  <2> QED
    BY <1>3, <2>1, <2>3, <2>4, <2>5
<1>4. CASE them # Absent /\ them.dirty /\ us # Absent /\ us.fresh /\ them.coin = Spent
  BY <1>4 DEF Merged, Faithful
<1>5. CASE /\ them # Absent /\ them.dirty /\ us # Absent
           /\ ~(us.fresh /\ them.coin = Spent)
  <2> DEFINE e == [coin |-> them.coin, dirty |-> TRUE, fresh |-> us.fresh]
  <2>1. Merged(us, them) = e
    BY <1>5 DEF Merged
  <2>2. them.coin \in CoinOrSpent /\ us.fresh \in BOOLEAN
    BY <1>5 DEF Entry
  <2>3. e \in Entry
    BY <2>2 DEF Entry
  <2>4. e # Absent
    BY <2>3
  <2>5. Faithful(e, b)
    BY <1>5, <2>2 DEF Faithful
  <2> QED
    BY <1>5, <2>1, <2>3, <2>4, <2>5
<1> QED
  BY <1>1, <1>2, <1>3, <1>4, <1>5

\* BatchWrite into a parent cache: the parent is faithful again and answers
\* what the child did.
LEMMA BatchOK ==
  ASSUME NEW parent \in CacheMap, NEW child \in CacheMap,
         NEW b \in BelowMap, NEW mid \in BelowMap,
         mid = [o \in Outpoints |-> CoinIn(parent, o, b[o])],
         MapFaithful(parent, b), MapFaithful(child, mid)
  PROVE  /\ BatchWritten(parent, child) \in CacheMap
         /\ MapFaithful(BatchWritten(parent, child), b)
         /\ \A o \in Outpoints :
               CoinIn(BatchWritten(parent, child), o, b[o])
                 = CoinIn(child, o, mid[o])
<1> DEFINE new == BatchWritten(parent, child)
<1>1. ASSUME NEW o \in Outpoints
      PROVE  /\ new[o] = Merged(parent[o], child[o])
             /\ new[o] \in Entry \cup {Absent}
             /\ new[o] # Absent => Faithful(new[o], b[o])
             /\ CoinIn(new, o, b[o]) = CoinIn(child, o, mid[o])
  <2>1. new[o] = Merged(parent[o], child[o])
    BY DEF BatchWritten
  <2>2. /\ parent[o] \in Entry \cup {Absent} /\ child[o] \in Entry \cup {Absent}
        /\ b[o] \in CoinOrSpent
        /\ mid[o] = IF parent[o] = Absent THEN b[o] ELSE parent[o].coin
        /\ parent[o] # Absent => Faithful(parent[o], b[o])
        /\ child[o] # Absent => Faithful(child[o], mid[o])
    BY DEF CacheMap, BelowMap, MapFaithful, CoinIn
  <2> QED
    BY <2>1, <2>2, MergedOK, SMTT(20) DEF CoinIn
<1>2. new = [o \in Outpoints |-> Merged(parent[o], child[o])]
  BY DEF BatchWritten
<1> QED
  BY <1>1, <1>2 DEF CacheMap, MapFaithful

\* The database after its BatchWrite holds what the cache answered.
LEMMA StoredOK ==
  ASSUME NEW m \in CacheMap, NEW b \in BelowMap, MapFaithful(m, b)
  PROVE  /\ Stored(b, m) = [o \in Outpoints |-> CoinIn(m, o, b[o])]
         /\ Stored(b, m) \in BelowMap
  BY DEF Stored, CoinIn, MapFaithful, Faithful, CacheMap, BelowMap, Entry

\* Sync leaves a map that is faithful to the new database and answers as before.
LEMMA SyncedOK ==
  ASSUME NEW m \in CacheMap, NEW b \in BelowMap, MapFaithful(m, b)
  PROVE  /\ Synced(m) \in CacheMap
         /\ MapFaithful(Synced(m), Stored(b, m))
         /\ \A o \in Outpoints :
               CoinIn(Synced(m), o, Stored(b, m)[o]) = CoinIn(m, o, b[o])
<1>1. ASSUME NEW o \in Outpoints
      PROVE  /\ Synced(m)[o] \in Entry \cup {Absent}
             /\ Synced(m)[o] # Absent =>
                   Faithful(Synced(m)[o], Stored(b, m)[o])
             /\ CoinIn(Synced(m), o, Stored(b, m)[o]) = CoinIn(m, o, b[o])
  <2>1. Stored(b, m)[o] = CoinIn(m, o, b[o])
    BY StoredOK
  <2>2. CASE m[o] = Absent
    BY <2>1, <2>2 DEF Synced, CoinIn
  <2>3. CASE m[o] # Absent /\ m[o].coin = Spent
    <3>1. Synced(m)[o] = Absent
      BY <2>3 DEF Synced, MapFaithful, Faithful
    <3> QED
      BY <2>1, <2>3, <3>1 DEF CoinIn
  <2>4. CASE m[o] # Absent /\ m[o].coin # Spent
    <3>1. Synced(m)[o] = Clean(m[o].coin)
      BY <2>4 DEF Synced
    <3>2. m[o].coin \in CoinOrSpent
      BY <2>4 DEF CacheMap, Entry
    <3>3. Clean(m[o].coin) \in Entry
      BY <3>2 DEF Clean, Entry
    <3>4. Clean(m[o].coin) # Absent
      BY <3>3
    <3> QED
      BY <2>1, <2>4, <3>1, <3>3, <3>4 DEF CoinIn, Clean, Faithful
  <2> QED
    BY <2>2, <2>3, <2>4
<1>2. Synced(m) = [o \in Outpoints |-> Synced(m)[o]]
  BY DEF Synced
<1> QED
  BY <1>1, <1>2 DEF CacheMap, MapFaithful


-----------------------------------------------------------------------------
\* A view that is not open holds nothing.
Closed == ~viewOpen => view = EmptyCache /\ viewBest = NoBlock

IInv == TypeOK /\ FlagsFaithful /\ Closed

\* The states the two caches stand for.
TipMap == [o \in Outpoints |-> CoinIn(tip, o, db[o])]
WorkMap == [o \in Outpoints |-> CoinIn(view, o, TipMap[o])]

\* The refinement mapping is TipMap and WorkMap.
LEMMA Mapping ==
  /\ [o \in Outpoints |-> TipCoin(o)] = TipMap
  /\ [o \in Outpoints |-> ViewCoin(o)] = WorkMap
  /\ \A o \in Outpoints : TipCoin(o) = TipMap[o] /\ ViewCoin(o) = WorkMap[o]
  BY DEF TipMap, WorkMap, TipCoin, ViewCoin

\* What the invariant says, in the terms of the lemmas above.
LEMMA Levels ==
  ASSUME IInv
  PROVE  /\ db \in BelowMap /\ TipMap \in BelowMap /\ WorkMap \in BelowMap
         /\ tip \in CacheMap /\ view \in CacheMap
         /\ MapFaithful(tip, db) /\ MapFaithful(view, TipMap)
         /\ ~viewOpen => WorkMap = TipMap
<1>1. db \in BelowMap /\ tip \in CacheMap /\ view \in CacheMap
  BY DEF IInv, TypeOK, BelowMap
<1>2. TipMap \in BelowMap
  BY <1>1 DEF TipMap, BelowMap, CoinIn, CacheMap, Entry
<1>3. WorkMap \in BelowMap
  BY <1>1, <1>2 DEF WorkMap, BelowMap, CoinIn, CacheMap, Entry
<1>4. MapFaithful(tip, db) /\ MapFaithful(view, TipMap)
  BY Mapping DEF IInv, FlagsFaithful, MapFaithful
<1>5. ASSUME ~viewOpen PROVE WorkMap = TipMap
  BY <1>5 DEF IInv, Closed, WorkMap, TipMap, CoinIn, EmptyCache
<1> QED
  BY <1>1, <1>2, <1>3, <1>4, <1>5

\* The converse, for the next state.
LEMMA LevelsNext ==
  ASSUME db' \in BelowMap, tip' \in CacheMap, view' \in CacheMap,
         MapFaithful(tip', db'), MapFaithful(view', TipMap'),
         viewOpen' \in BOOLEAN,
         dbBest' \in Blocks \cup {NoBlock}, tipBest' \in Blocks \cup {NoBlock},
         viewBest' \in Blocks \cup {NoBlock},
         ~viewOpen' => view' = EmptyCache /\ viewBest' = NoBlock
  PROVE  IInv'
<1>1. TypeOK'
  BY DEF TypeOK, BelowMap
<1>2. FlagsFaithful'
  BY DEF FlagsFaithful, MapFaithful, TipMap, TipCoin
<1>3. Closed'
  BY DEF Closed, EmptyCache
<1> QED
  BY <1>1, <1>2, <1>3 DEF IInv

\* FetchCoin(o) on the top cache changes no answer of either cache.
LEMMA TopFetched ==
  ASSUME IInv, NEW o \in Outpoints
  PROVE  /\ TipFetched(o) \in CacheMap /\ MapFaithful(TipFetched(o), db)
         /\ \A p \in Outpoints : CoinIn(TipFetched(o), p, db[p]) = TipMap[p]
         /\ ViewFetched(o) \in CacheMap /\ MapFaithful(ViewFetched(o), TipMap)
         /\ \A p \in Outpoints : CoinIn(ViewFetched(o), p, TipMap[p]) = WorkMap[p]
         /\ viewOpen => (ViewFetched(o)[o] = Absent => TipMap[o] = Spent)
         /\ ~viewOpen => /\ TipFetched(o)[o] = Absent => db[o] = Spent
                         /\ ViewFetched(o) = view
<1>1. /\ TipFetched(o) \in CacheMap /\ MapFaithful(TipFetched(o), db)
      /\ \A p \in Outpoints : CoinIn(TipFetched(o), p, db[p]) = TipMap[p]
      /\ ~viewOpen => (TipFetched(o)[o] = Absent => db[o] = Spent)
  BY Levels, FetchedOK, SMTT(20) DEF TipFetched, TipMap
<1>2. /\ ViewFetched(o) \in CacheMap /\ MapFaithful(ViewFetched(o), TipMap)
      /\ \A p \in Outpoints : CoinIn(ViewFetched(o), p, TipMap[p]) = WorkMap[p]
      /\ viewOpen => (ViewFetched(o)[o] = Absent => TipMap[o] = Spent)
      /\ ~viewOpen => ViewFetched(o) = view
  BY Levels, FetchedOK, Mapping, SMTT(20) DEF ViewFetched, WorkMap
<1> QED
  BY <1>1, <1>2


-----------------------------------------------------------------------------
\* A step of the plain views, or none.
AbsStep == Utxo!UNext \/ UNCHANGED Utxo!uvars

\* The best blocks do not change with the coins.
BestUnchanged == UNCHANGED <<db, viewOpen, dbBest, tipBest, viewBest>>

\* Steps that change no answer are no step of the plain views.
LEMMA AbsNone ==
  ASSUME BestUnchanged, TipMap' = TipMap, WorkMap' = WorkMap
  PROVE  UNCHANGED Utxo!uvars
  BY Mapping DEF AbsStep, Utxo!uvars, BestUnchanged, TipBestBlock,
     ViewBestBlock, TipMap, WorkMap, TipCoin, ViewCoin

\* A change of the working state, which is also one of the tip if no view is
\* open, is a Write.
LEMMA AbsWrite ==
  ASSUME NEW newWork, NEW newBest,
         WorkMap' = newWork, ViewBestBlock' = newBest,
         TipMap' = IF viewOpen THEN TipMap ELSE newWork,
         TipBestBlock' = IF viewOpen THEN TipBestBlock ELSE newBest,
         UNCHANGED <<db, dbBest, viewOpen>>
  PROVE  Utxo!Write(newWork, newBest)
  BY Mapping DEF Utxo!Write, TipMap, WorkMap, TipCoin, ViewCoin

\* A coin created, or spent, in the working state.
CoinAct(o, c) == IF c = Spent THEN Utxo!USpend(o) ELSE Utxo!UCreate(o, c)

\* A step that changes one coin of the top view and no best block is that
\* creation or spending in the UTXO set.
LEMMA AbsCoin ==
  ASSUME IInv, BestUnchanged, NEW o \in Outpoints, NEW c \in CoinOrSpent,
         WorkMap' = IF c \in Unspendable THEN WorkMap
                                         ELSE [WorkMap EXCEPT ![o] = c],
         TipMap' = IF viewOpen THEN TipMap ELSE WorkMap'
  PROVE  CoinAct(o, c)
<1>1. /\ ViewBestBlock' = ViewBestBlock
      /\ TipBestBlock' = IF viewOpen THEN TipBestBlock ELSE ViewBestBlock
      /\ UNCHANGED <<db, dbBest, viewOpen>>
  BY DEF BestUnchanged, TipBestBlock, ViewBestBlock, IInv, Closed
<1>2. Utxo!Write(WorkMap', ViewBestBlock)
  BY <1>1, AbsWrite
<1>3. CASE c # Spent
  BY <1>2, <1>3, Mapping DEF Utxo!UCreate, CoinAct
<1>4. CASE c = Spent
  <2>1. Spent \notin Unspendable
    OBVIOUS
  <2> QED
    BY <1>2, <1>4, <2>1, Mapping DEF Utxo!USpend, CoinAct
<1> QED
  BY <1>3, <1>4

-----------------------------------------------------------------------------
\* One lemma per group of actions: the invariant is kept, and the step is one
\* of the plain views.  First, an operation that changes the view's map alone.
LEMMA ViewCoinStep ==
  ASSUME IInv, viewOpen, BestUnchanged,
         tip' \in CacheMap, MapFaithful(tip', db),
         \A p \in Outpoints : CoinIn(tip', p, db[p]) = TipMap[p],
         view' \in CacheMap, MapFaithful(view', TipMap),
         NEW o \in Outpoints, NEW c \in CoinOrSpent,
         \A p \in Outpoints :
            CoinIn(view', p, TipMap[p])
              = IF p = o /\ c \notin Unspendable THEN c ELSE WorkMap[p]
  PROVE  IInv' /\ CoinAct(o, c)
<1>1. TipMap' = TipMap
  <2>1. TipMap' = [p \in Outpoints |-> CoinIn(tip', p, db[p])]
    BY DEF TipMap, CoinIn, BestUnchanged
  <2> QED
    BY <2>1 DEF TipMap
<1>2. WorkMap' = [p \in Outpoints |-> CoinIn(view', p, TipMap[p])]
  BY <1>1 DEF WorkMap, CoinIn
<1>3. WorkMap' = IF c \in Unspendable THEN WorkMap ELSE [WorkMap EXCEPT ![o] = c]
  BY <1>2 DEF WorkMap
<1>4. CoinAct(o, c)
  BY <1>1, <1>3, AbsCoin
<1>5. IInv'
  BY <1>1, Levels, LevelsNext DEF BestUnchanged, IInv, TypeOK
<1> QED
  BY <1>4, <1>5

\* Then, an operation on the tip's map without an open view.
LEMMA TipCoinStep ==
  ASSUME IInv, ~viewOpen, BestUnchanged, view' = view,
         tip' \in CacheMap, MapFaithful(tip', db),
         NEW o \in Outpoints, NEW c \in CoinOrSpent,
         \A p \in Outpoints :
            CoinIn(tip', p, db[p])
              = IF p = o /\ c \notin Unspendable THEN c ELSE TipMap[p]
  PROVE  IInv' /\ CoinAct(o, c)
<1>1. TipMap' = [p \in Outpoints |-> CoinIn(tip', p, db[p])]
  BY DEF TipMap, CoinIn, BestUnchanged
<1>2. TipMap' = IF c \in Unspendable THEN TipMap ELSE [TipMap EXCEPT ![o] = c]
  BY <1>1 DEF TipMap
<1>3. view' = EmptyCache
  BY DEF IInv, Closed
<1>4. WorkMap' = TipMap'
  BY <1>1, <1>3 DEF WorkMap, CoinIn, EmptyCache
<1>5. CoinAct(o, c)
  BY <1>2, <1>4, Levels, AbsCoin
<1>6. TipMap' \in BelowMap
  BY <1>2, Levels DEF BelowMap
<1>7. MapFaithful(view', TipMap')
  BY <1>3, <1>6, EmptyOK
<1>8. IInv'
  BY <1>3, <1>7, Levels, LevelsNext DEF BestUnchanged, IInv, TypeOK, Closed
<1> QED
  BY <1>5, <1>8

\* What a coin may be, and which step of the UTXO set it stands for.
LEMMA CoinValues ==
  /\ Spent \in CoinOrSpent /\ Spent \notin Unspendable /\ Coins \subseteq CoinOrSpent
  /\ \A o : CoinAct(o, Spent) = Utxo!USpend(o)
  /\ \A o : \A c \in Coins : CoinAct(o, c) = Utxo!UCreate(o, c)
  BY DEF CoinOrSpent, CoinAct

\* GetCoin, HaveCoin, AccessCoin.
LEMMA FetchOK ==
  ASSUME IInv, NEW o \in Outpoints, Fetch(o)
  PROVE  IInv' /\ UNCHANGED Utxo!uvars
<1>1. BestUnchanged /\ tip' = TipFetched(o) /\ view' = ViewFetched(o)
  BY DEF Fetch, BestUnchanged
<1>2. TipMap' = TipMap
  BY <1>1, TopFetched DEF TipMap, CoinIn, BestUnchanged
<1>3. WorkMap' = WorkMap
  BY <1>1, <1>2, TopFetched DEF WorkMap, CoinIn
<1>4. UNCHANGED Utxo!uvars
  BY <1>1, <1>2, <1>3, AbsNone
<1>5. IInv'
  BY <1>1, <1>2, TopFetched, Levels, LevelsNext
  DEF BestUnchanged, IInv, TypeOK, Closed
<1> QED
  BY <1>4, <1>5

\* SpendCoin.
LEMMA SpendCoinOK ==
  ASSUME IInv, NEW o \in Outpoints, SpendCoin(o)
  PROVE  IInv' /\ Utxo!USpend(o)
<1>1. BestUnchanged
  BY DEF SpendCoin, BestUnchanged
<1>2. CASE viewOpen
  <2>1. tip' = TipFetched(o) /\ view' = SpentIn(ViewFetched(o), o)
    BY <1>2 DEF SpendCoin
  <2>2. /\ view' \in CacheMap /\ MapFaithful(view', TipMap)
        /\ \A p \in Outpoints :
              CoinIn(view', p, TipMap[p]) = IF p = o THEN Spent ELSE WorkMap[p]
    BY <1>2, <2>1, TopFetched, Levels, SpentOK, SMTT(20)
  <2> QED
    BY CoinValues, <1>1, <1>2, <2>1, <2>2, TopFetched, ViewCoinStep
<1>3. CASE ~viewOpen
  <2>1. tip' = SpentIn(TipFetched(o), o) /\ view' = view
    BY <1>3 DEF SpendCoin
  <2>2. /\ tip' \in CacheMap /\ MapFaithful(tip', db)
        /\ \A p \in Outpoints :
              CoinIn(tip', p, db[p]) = IF p = o THEN Spent ELSE TipMap[p]
    BY <1>3, <2>1, TopFetched, Levels, SpentOK, SMTT(20)
  <2> QED
    BY CoinValues, <1>1, <1>3, <2>1, <2>2, TipCoinStep
<1> QED
  BY <1>2, <1>3

\* Uncache.
LEMMA UncacheOK ==
  ASSUME IInv, NEW o \in Outpoints, Uncache(o)
  PROVE  IInv' /\ UNCHANGED Utxo!uvars
<1>1. BestUnchanged /\ ~viewOpen /\ tip' = Uncached(tip, o) /\ view' = view
  BY DEF Uncache, BestUnchanged
<1>2. /\ tip' \in CacheMap /\ MapFaithful(tip', db)
      /\ \A p \in Outpoints : CoinIn(tip', p, db[p]) = TipMap[p]
  BY <1>1, Levels, UncachedOK DEF TipMap
<1>3. TipMap' = TipMap
  BY <1>1, <1>2 DEF TipMap, CoinIn, BestUnchanged
<1>4. WorkMap' = WorkMap
  BY <1>1, <1>3 DEF WorkMap, CoinIn
<1>5. IInv'
  BY <1>1, <1>2, <1>3, Levels, LevelsNext DEF BestUnchanged, IInv, TypeOK, Closed
<1> QED
  BY <1>1, <1>3, <1>4, <1>5, AbsNone

\* AddCoins without a check.
LEMMA AddOutputOK ==
  ASSUME IInv, NEW o \in Outpoints, NEW c \in Coins, NEW coinbase \in BOOLEAN,
         AddOutput(o, c, coinbase)
  PROVE  IInv' /\ Utxo!UCreate(o, c)
<1>1. BestUnchanged /\ (coinbase \/ WorkMap[o] = Spent)
  BY Mapping DEF AddOutput, AddCoin, BestUnchanged
<1>2. CASE viewOpen
  <2>1. view' = Added(view, o, c, coinbase) /\ tip' = tip
    BY <1>2 DEF AddOutput, AddCoin
  <2>2. coinbase \/ CoinIn(view, o, TipMap[o]) = Spent
    BY <1>1 DEF WorkMap
  <2>3. /\ view' \in CacheMap /\ MapFaithful(view', TipMap)
        /\ \A p \in Outpoints :
              CoinIn(view', p, TipMap[p])
                = IF p = o /\ c \notin Unspendable THEN c ELSE WorkMap[p]
    BY <2>1, <2>2, Levels, AddedOK, SMTT(20) DEF WorkMap
  <2>4. \A p \in Outpoints : CoinIn(tip', p, db[p]) = TipMap[p]
    BY <2>1 DEF TipMap
  <2> QED
    BY CoinValues, <1>1, <1>2, <2>1, <2>3, <2>4, Levels, ViewCoinStep
<1>3. CASE ~viewOpen
  <2>1. tip' = Added(tip, o, c, coinbase) /\ view' = view
    BY <1>3 DEF AddOutput, AddCoin
  <2>2. coinbase \/ CoinIn(tip, o, db[o]) = Spent
    BY <1>1, <1>3, Levels DEF TipMap
  <2>3. /\ tip' \in CacheMap /\ MapFaithful(tip', db)
        /\ \A p \in Outpoints :
              CoinIn(tip', p, db[p])
                = IF p = o /\ c \notin Unspendable THEN c ELSE TipMap[p]
    BY <2>1, <2>2, Levels, AddedOK, SMTT(20) DEF TipMap
  <2> QED
    BY CoinValues, <1>1, <1>3, <2>1, <2>3, TipCoinStep
<1> QED
  BY <1>2, <1>3

\* AddCoins with a check, and ApplyTxInUndo.
LEMMA AddCheckedOK ==
  ASSUME IInv, NEW o \in Outpoints, NEW c \in Coins, AddChecked(o, c)
  PROVE  IInv' /\ Utxo!UCreate(o, c)
<1> DEFINE have == WorkMap[o] # Spent
<1>1. BestUnchanged /\ have \in BOOLEAN /\ (have \/ WorkMap[o] = Spent)
  BY DEF AddChecked, BestUnchanged
<1> HIDE DEF have
<1>2. CASE viewOpen
  <2>1. tip' = TipFetched(o) /\ view' = Added(ViewFetched(o), o, c, have)
    BY <1>2, Mapping DEF AddChecked, have
  <2>2. /\ view' \in CacheMap /\ MapFaithful(view', TipMap)
        /\ \A p \in Outpoints :
              CoinIn(view', p, TipMap[p])
                = IF p = o /\ c \notin Unspendable THEN c ELSE WorkMap[p]
    BY <1>1, <2>1, TopFetched, Levels, AddedOK, SMTT(20)
  <2>3. /\ tip' \in CacheMap /\ MapFaithful(tip', db)
        /\ \A p \in Outpoints : CoinIn(tip', p, db[p]) = TipMap[p]
    BY <2>1, TopFetched
  <2> QED
    BY CoinValues, <1>1, <1>2, <2>2, <2>3, ViewCoinStep
<1>3. CASE ~viewOpen
  <2>1. tip' = Added(TipFetched(o), o, c, have) /\ view' = view
    BY <1>3, Mapping DEF AddChecked, have
  <2>2. /\ tip' \in CacheMap /\ MapFaithful(tip', db)
        /\ \A p \in Outpoints :
              CoinIn(tip', p, db[p])
                = IF p = o /\ c \notin Unspendable THEN c ELSE TipMap[p]
    BY <1>1, <1>3, <2>1, TopFetched, Levels, AddedOK, SMTT(20)
  <2> QED
    BY CoinValues, <1>1, <1>3, <2>1, <2>2, TipCoinStep
<1> QED
  BY <1>2, <1>3

\* EmplaceCoinInternalDANGER.
LEMMA EmplaceCoinOK ==
  ASSUME IInv, NEW o \in Outpoints, NEW c \in Coins, EmplaceCoin(o, c)
  PROVE  IInv' /\ Utxo!UCreate(o, c)
<1>1. /\ BestUnchanged /\ ~viewOpen /\ tip[o] = Absent /\ c \notin Unspendable
      /\ tip' = Emplaced(tip, o, c) /\ view' = view
  BY DEF EmplaceCoin, BestUnchanged
<1>2. /\ tip' \in CacheMap /\ MapFaithful(tip', db)
      /\ \A p \in Outpoints :
            CoinIn(tip', p, db[p]) = IF p = o THEN c ELSE TipMap[p]
  BY <1>1, Levels, EmplacedOK, SMTT(20) DEF TipMap
<1> QED
  BY CoinValues, <1>1, <1>2, TipCoinStep

\* All of them together.
LEMMA CoinStepOK ==
  ASSUME IInv, NEW o \in Outpoints, CoinStep(o)
  PROVE  IInv' /\ AbsStep
<1>1. CASE Fetch(o) \/ SpendCoin(o) \/ Uncache(o)
  BY <1>1, FetchOK, SpendCoinOK, UncacheOK DEF AbsStep, Utxo!UNext
<1>2. ASSUME NEW c \in Coins,
             \/ \E coinbase \in BOOLEAN : AddOutput(o, c, coinbase)
             \/ AddChecked(o, c) \/ EmplaceCoin(o, c)
      PROVE  IInv' /\ AbsStep
  <2>1. IInv' /\ Utxo!UCreate(o, c)
    BY <1>2, AddOutputOK, AddCheckedOK, EmplaceCoinOK
  <2> QED
    BY <2>1 DEF AbsStep, Utxo!UNext
<1> QED
  BY <1>1, <1>2 DEF CoinStep

\* GetBestBlock and SetBestBlock touch no coin.
LEMMA BestKeepsCoins ==
  ASSUME UNCHANGED <<db, tip, view>>
  PROVE  TipMap' = TipMap /\ WorkMap' = WorkMap
<1>1. TipMap' = TipMap
  BY DEF TipMap, CoinIn
<1> QED
  BY <1>1 DEF WorkMap, CoinIn

\* GetBestBlock fills hashBlock on the way up and changes no answer.
LEMMA GetBestBlockOK ==
  ASSUME IInv, GetBestBlock
  PROVE  IInv' /\ UNCHANGED Utxo!uvars
<1>1. /\ UNCHANGED <<db, tip, view, viewOpen, dbBest>>
      /\ TipMap' = TipMap /\ WorkMap' = WorkMap
  BY BestKeepsCoins DEF GetBestBlock
<1>2. TipBestBlock' = TipBestBlock /\ ViewBestBlock' = ViewBestBlock
  BY DEF GetBestBlock, TipBestBlock, ViewBestBlock
<1>3. UNCHANGED Utxo!uvars
  BY <1>1, <1>2, Mapping DEF Utxo!uvars, TipMap, WorkMap, TipCoin, ViewCoin
<1>4. IInv'
  BY <1>1, Levels, LevelsNext, SMTT(20)
  DEF GetBestBlock, TipBestBlock, ViewBestBlock, IInv, TypeOK, Closed
<1> QED
  BY <1>3, <1>4

\* SetBestBlock moves the best block of the top view.
LEMMA SetBestBlockOK ==
  ASSUME IInv, NEW b \in Blocks, SetBestBlock(b)
  PROVE  IInv' /\ Utxo!USetBest(b)
<1>1. /\ UNCHANGED <<db, tip, view, viewOpen, dbBest>>
      /\ TipMap' = TipMap /\ WorkMap' = WorkMap
  BY BestKeepsCoins DEF SetBestBlock
<1>2. /\ ViewBestBlock' = b
      /\ TipBestBlock' = IF viewOpen THEN TipBestBlock ELSE b
  BY <1>1 DEF SetBestBlock, TipBestBlock, ViewBestBlock, IInv, Closed
<1>3. WorkMap = TipMap \/ viewOpen
  BY Levels
<1>4. Utxo!USetBest(b)
  BY <1>1, <1>2, <1>3, Levels, Mapping, AbsWrite DEF Utxo!USetBest
<1>5. IInv'
  BY <1>1, Levels, LevelsNext, SMTT(20) DEF SetBestBlock, IInv, TypeOK, Closed
<1> QED
  BY <1>4, <1>5

\* The view is opened, flushed or dropped.
LEMMA OpenViewOK ==
  ASSUME IInv, OpenView
  PROVE  IInv' /\ Utxo!UOpen
<1>1. /\ ~viewOpen /\ viewOpen' = TRUE /\ view = EmptyCache /\ viewBest = NoBlock
      /\ UNCHANGED <<db, tip, view, dbBest, tipBest, viewBest>>
  BY DEF OpenView, IInv, Closed
<1>2. TipMap' = TipMap /\ WorkMap' = WorkMap
  BY <1>1 DEF TipMap, WorkMap, CoinIn
<1>3. Utxo!UOpen
  BY <1>1, <1>2, Mapping
  DEF Utxo!UOpen, TipMap, WorkMap, TipCoin, ViewCoin, TipBestBlock, ViewBestBlock
<1>4. IInv'
  BY <1>1, <1>2, Levels, LevelsNext DEF IInv, TypeOK
<1> QED
  BY <1>3, <1>4

\* Flush of the view hands its coins and best block down to CoinsTip: the
\* working state is committed.
LEMMA FlushViewOK ==
  ASSUME IInv, FlushView
  PROVE  IInv' /\ Utxo!UCommit
<1>1. /\ viewOpen /\ viewOpen' = FALSE /\ viewBest # NoBlock
      /\ tip' = BatchWritten(tip, view) /\ tipBest' = viewBest
      /\ view' = EmptyCache /\ viewBest' = NoBlock /\ db' = db /\ dbBest' = dbBest
  BY DEF FlushView
<1>2. /\ tip' \in CacheMap /\ MapFaithful(tip', db)
      /\ \A o \in Outpoints : CoinIn(tip', o, db[o]) = WorkMap[o]
  BY <1>1, Levels, BatchOK, SMTT(20) DEF TipMap, WorkMap
<1>3. TipMap' = WorkMap
  BY <1>1, <1>2 DEF TipMap, WorkMap, CoinIn
<1>4. WorkMap' = WorkMap
  <2>1. WorkMap' = TipMap'
    BY <1>1 DEF WorkMap, TipMap, CoinIn, EmptyCache
  <2> QED
    BY <1>3, <2>1
<1>5. Utxo!UCommit
  BY <1>1, <1>3, <1>4, Mapping
  DEF Utxo!UCommit, TipMap, WorkMap, TipCoin, ViewCoin, TipBestBlock, ViewBestBlock
<1>6. MapFaithful(view', TipMap') /\ view' \in CacheMap
  BY <1>1, <1>3, Levels, EmptyOK
<1>7. IInv'
  BY <1>1, <1>2, <1>6, Levels, LevelsNext DEF IInv, TypeOK
<1> QED
  BY <1>5, <1>7

\* A view destroyed without Flush takes its changes with it.
LEMMA DropViewOK ==
  ASSUME IInv, DropView
  PROVE  IInv' /\ Utxo!UDiscard
<1>1. /\ viewOpen /\ viewOpen' = FALSE /\ view' = EmptyCache /\ viewBest' = NoBlock
      /\ UNCHANGED <<db, tip, dbBest, tipBest>>
  BY DEF DropView
<1>2. TipMap' = TipMap
  BY <1>1 DEF TipMap, CoinIn
<1>3. WorkMap' = TipMap
  <2>1. WorkMap' = TipMap'
    BY <1>1 DEF WorkMap, TipMap, CoinIn, EmptyCache
  <2> QED
    BY <1>2, <2>1
<1>4. Utxo!UDiscard
  BY <1>1, <1>2, <1>3, Mapping
  DEF Utxo!UDiscard, TipMap, WorkMap, TipCoin, ViewCoin, TipBestBlock, ViewBestBlock
<1>5. MapFaithful(view', TipMap') /\ view' \in CacheMap
  BY <1>1, <1>2, Levels, EmptyOK
<1>6. IInv'
  BY <1>1, <1>5, Levels, LevelsNext DEF IInv, TypeOK
<1> QED
  BY <1>4, <1>6

\* The tip is written to the database, by Flush or by Sync.
LEMMA WriteStepOK ==
  ASSUME IInv, FlushTip \/ SyncTip
  PROVE  IInv' /\ Utxo!UPersist
<1>1. /\ ~viewOpen /\ db' = Stored(db, tip) /\ dbBest' = TipBestBlock
      /\ tipBest' = TipBestBlock /\ view = EmptyCache /\ viewBest = NoBlock
      /\ UNCHANGED <<view, viewOpen, viewBest>>
  BY DEF FlushTip, SyncTip, WriteTip, IInv, Closed
<1>2. db' = TipMap /\ db' \in BelowMap
  BY <1>1, Levels, StoredOK DEF TipMap
<1>3. /\ tip' \in CacheMap /\ MapFaithful(tip', db')
      /\ \A o \in Outpoints : CoinIn(tip', o, db'[o]) = TipMap[o]
  <2>1. CASE FlushTip
    <3>1. tip' = EmptyCache
      BY <2>1 DEF FlushTip, WriteTip
    <3> QED
      BY <1>2, <3>1, EmptyOK DEF CoinIn, EmptyCache
  <2>2. CASE SyncTip
    <3>1. tip' = Synced(tip)
      BY <2>2 DEF SyncTip, WriteTip
    <3> QED
      BY <1>1, <3>1, Levels, SyncedOK DEF TipMap
  <2> QED
    BY <2>1, <2>2
<1>4. TipMap' = TipMap
  <2>1. TipMap' = [o \in Outpoints |-> CoinIn(tip', o, db'[o])]
    BY DEF TipMap, CoinIn
  <2> QED
    BY <1>3, <2>1 DEF TipMap
<1>5. WorkMap' = WorkMap
  BY <1>1, <1>4 DEF WorkMap, CoinIn
<1>6. Utxo!UPersist
  BY <1>1, <1>2, <1>4, <1>5, Mapping
  DEF Utxo!UPersist, TipMap, WorkMap, TipCoin, ViewCoin, TipBestBlock, ViewBestBlock
<1>7. TipBestBlock \in Blocks \cup {NoBlock}
  BY DEF TipBestBlock, IInv, TypeOK
<1>8. IInv'
  BY <1>1, <1>2, <1>3, <1>4, <1>7, Levels, LevelsNext DEF IInv, TypeOK
<1> QED
  BY <1>6, <1>8

\* Every step keeps the invariant and is a step of the plain views.
LEMMA StepOK ==
  ASSUME IInv, [Next]_vars
  PROVE  IInv' /\ AbsStep
<1>1. CASE Next
  BY <1>1, CoinStepOK, GetBestBlockOK, SetBestBlockOK, OpenViewOK, FlushViewOK,
     DropViewOK, WriteStepOK DEF Next, AbsStep, Utxo!UNext
<1>2. CASE UNCHANGED vars
  <2>1. BestUnchanged /\ tip' = tip /\ view' = view
    BY <1>2 DEF vars, BestUnchanged
  <2>2. TipMap' = TipMap
    BY <2>1 DEF TipMap, CoinIn, BestUnchanged
  <2>3. WorkMap' = WorkMap
    BY <2>1, <2>2 DEF WorkMap, CoinIn
  <2>4. IInv'
    BY <2>1, <2>2, Levels, LevelsNext DEF BestUnchanged, IInv, TypeOK, Closed
  <2> QED
    BY <2>1, <2>2, <2>3, <2>4, AbsNone DEF AbsStep
<1> QED
  BY <1>1, <1>2

\* The initial states satisfy the invariant and map to initial states.
LEMMA InitOK ==
  ASSUME Init
  PROVE  IInv /\ Utxo!UInit
<1>1. db \in BelowMap
  BY DEF Init, BelowMap, CoinOrSpent
<1>2. TipMap = db
  BY <1>1 DEF Init, TipMap, CoinIn, EmptyCache, BelowMap
<1>3. WorkMap = db
  BY <1>1, <1>2 DEF Init, WorkMap, CoinIn, EmptyCache, BelowMap
<1>4. TypeOK
  BY <1>1, EmptyOK DEF Init, TypeOK, BelowMap
<1>5. IInv
  BY <1>4 DEF Init, IInv, FlagsFaithful, Closed, EmptyCache
<1>6. Utxo!UInit
  BY <1>2, <1>3, Mapping DEF Init, Utxo!UInit, TipBestBlock, ViewBestBlock
<1> QED
  BY <1>5, <1>6

\* The inductive invariant holds in every state.
THEOREM CoinsInvariant == Spec => []IInv
<1>1. Init => IInv
  BY InitOK
<1>2. IInv /\ [Next]_vars => IInv'
  BY StepOK
<1> QED
  BY <1>1, <1>2, PTL DEF Spec

\* The coins caches and best-block hashes always have their types.
THEOREM CoinsTypeCorrect == Spec => []TypeOK
<1>1. IInv => TypeOK
  BY DEF IInv
<1> QED
  BY <1>1, CoinsInvariant, PTL

\* DIRTY and FRESH (coins.h:149-167) never lie about the level below, whatever
\* sequence of operations, commits, failed blocks and flushes led there.
THEOREM CoinsFlagsFaithful == Spec => []FlagsFaithful
<1>1. IInv => FlagsFaithful
  BY DEF IInv
<1> QED
  BY <1>1, CoinsInvariant, PTL

\* The two logic errors of coins.cpp (lines 84 and 219) are unreachable.
THEOREM CoinsNeverThrows == Spec => []NeverThrows
<1>1. IInv => NeverThrows
  <2> SUFFICES ASSUME IInv, NEW o \in Outpoints
               PROVE  /\ ~FreshMisapplied(tip[o], view[o])
                      /\ ViewCoin(o) = Spent =>
                            \A c \in Coins :
                               ~AddThrows(IF viewOpen THEN view ELSE tip, o, c, FALSE)
    BY DEF NeverThrows
  <2>1. ~FreshMisapplied(tip[o], view[o])
    BY DEF FreshMisapplied, IInv, FlagsFaithful, Faithful, TipCoin, CoinIn
  <2>2. ViewCoin(o) = Spent => view[o] = Absent \/ view[o].coin = Spent
    BY DEF ViewCoin, CoinIn
  <2>3. ViewCoin(o) = Spent /\ ~viewOpen => tip[o] = Absent \/ tip[o].coin = Spent
    BY DEF ViewCoin, TipCoin, CoinIn, IInv, Closed, EmptyCache
  <2> QED
    BY <2>1, <2>2, <2>3 DEF AddThrows
<1> QED
  BY <1>1, CoinsInvariant, PTL

\* Every call of the views' interface has its plain effect, on the coin it names
\* and on the level it is called on.
THEOREM CoinsCallsExact == Spec => CallsExact
<1>1. ASSUME IInv PROVE CallExact
  <2>1. ASSUME NEW o \in Outpoints
        PROVE  /\ Fetch(o) \/ Uncache(o) => UNCHANGED Utxo!uvars
               /\ SpendCoin(o) => Utxo!USpend(o)
    BY <1>1, FetchOK, UncacheOK, SpendCoinOK
  <2>2. ASSUME NEW o \in Outpoints, NEW c \in Coins,
               \/ \E coinbase \in BOOLEAN : AddOutput(o, c, coinbase)
               \/ AddChecked(o, c)
               \/ EmplaceCoin(o, c)
        PROVE  Utxo!UCreate(o, c)
    BY <1>1, <2>2, AddOutputOK, AddCheckedOK, EmplaceCoinOK
  <2>3. /\ GetBestBlock => UNCHANGED Utxo!uvars
        /\ \A b \in Blocks : SetBestBlock(b) => Utxo!USetBest(b)
    BY <1>1, GetBestBlockOK, SetBestBlockOK
  <2>4. /\ FlushView => Utxo!UCommit
        /\ DropView => Utxo!UDiscard
        /\ FlushTip \/ SyncTip => Utxo!UPersist
    BY <1>1, FlushViewOK, DropViewOK, WriteStepOK
  <2> QED
    BY <2>1, <2>2, <2>3, <2>4 DEF CallExact
<1>2. IInv => [CallExact]_vars
  BY <1>1
<1> QED
  BY <1>2, CoinsInvariant, PTL DEF CallsExact

\* The layered caches implement the plain views of UtxoSet: no read through
\* them, and no flush, ever shows anything but the coins that were written.
THEOREM CoinsImplementUtxoSet == Spec => ImplementsUtxoSet
<1>1. Init => Utxo!UInit
  BY InitOK
<1>2. IInv /\ [Next]_vars => [Utxo!UNext]_(Utxo!uvars)
  BY StepOK DEF AbsStep
<1> QED
  BY <1>1, <1>2, CoinsInvariant, PTL DEF Spec, Utxo!USpec, ImplementsUtxoSet

=============================================================================
