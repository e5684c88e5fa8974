------------------------------ MODULE CoinsOps ------------------------------
(***************************************************************************)
(* CCoinsViewCache (coins.h, coins.cpp) as operators on a cache map: a     *)
(* function from outpoints to an entry or Absent.  An entry is a coin (or  *)
(* Spent) with the flags DIRTY and FRESH.  What the backing view answers   *)
(* for an outpoint is passed in as "below": a coin, or Spent for nullopt.  *)
(***************************************************************************)

CONSTANTS Outpoints,    \* COutPoint
          Coins,        \* unspent Coin objects
          Unspendable,  \* the coins whose script is provably unspendable
          Spent,        \* a cleared Coin, or no coin at all
          Absent        \* no entry in the cache map

CoinOrSpent == Coins \cup {Spent}

Entry == [coin : CoinOrSpent, dirty : BOOLEAN, fresh : BOOLEAN]

CacheMap == [Outpoints -> Entry \cup {Absent}]

Clean(c) == [coin |-> c, dirty |-> FALSE, fresh |-> FALSE]

EmptyCache == [o \in Outpoints |-> Absent]

\* What a view with this cache map answers for o (GetCoin).
CoinIn(map, o, below) == IF map[o] = Absent THEN below ELSE map[o].coin

\* FetchCoin: an unspent coin of the backing view is copied into the map.
Fetched(map, o, below) ==
    IF map[o] = Absent /\ below # Spent
      THEN [map EXCEPT ![o] = Clean(below)]
      ELSE map

\* Added_AlwaysFresh: possible_overwrite is ignored.
Added_AlwaysFresh(map, o, c, overwrite) ==
    LET old == IF map[o] = Absent THEN Clean(Spent) ELSE map[o]
    IN  IF c \in Unspendable
          THEN map
          ELSE [map EXCEPT ![o] = [coin  |-> c,
                                   dirty |-> TRUE,
                                   fresh |-> old.fresh \/ ~old.dirty]]

\* AddCoin.  Flags are only ever added; FRESH is set when the entry was not
\* dirty before and the caller rules out an unspent coin below.
Added(map, o, c, overwrite) ==
    LET old == IF map[o] = Absent THEN Clean(Spent) ELSE map[o]
    IN  IF c \in Unspendable
          THEN map
          ELSE [map EXCEPT ![o] = [coin  |-> c,
                                   dirty |-> TRUE,
                                   fresh |-> old.fresh \/ (~overwrite /\ ~old.dirty)]]

\* AddCoin throws: an unspent coin would be overwritten unannounced.
AddThrows(map, o, c, overwrite) ==
    /\ c \notin Unspendable
    /\ ~overwrite
    /\ map[o] # Absent
    /\ map[o].coin # Spent

\* SpendCoin after its FetchCoin: a FRESH entry is erased, any other becomes
\* a DIRTY spent entry.
SpentIn(map, o) ==
    CASE map[o] = Absent -> map
      [] map[o] # Absent /\ map[o].fresh -> [map EXCEPT ![o] = Absent]
      [] OTHER -> [map EXCEPT ![o] = [coin  |-> Spent,
                                      dirty |-> TRUE,
                                      fresh |-> FALSE]]

\* Uncached_Dirty: modified entries are forgotten too.
Uncached_Dirty(map, o) == [map EXCEPT ![o] = Absent]

\* Uncache: forgets an unmodified entry.
Uncached(map, o) ==
    IF map[o] # Absent /\ ~map[o].dirty /\ ~map[o].fresh
      THEN [map EXCEPT ![o] = Absent]
      ELSE map

\* EmplaceCoinInternalDANGER: no checks, DIRTY only.
Emplaced(map, o, c) ==
    IF map[o] = Absent
      THEN [map EXCEPT ![o] = [coin |-> c, dirty |-> TRUE, fresh |-> FALSE]]
      ELSE map

\* CCoinsViewCache::BatchWrite, one entry of the child.
Merged(us, them) ==
    IF them = Absent \/ ~them.dirty THEN us
    ELSE IF us = Absent
      THEN IF them.fresh /\ them.coin = Spent
             THEN Absent
             ELSE [coin |-> them.coin, dirty |-> TRUE, fresh |-> them.fresh]
      ELSE IF us.fresh /\ them.coin = Spent
             THEN Absent
             ELSE [coin |-> them.coin, dirty |-> TRUE, fresh |-> us.fresh]

BatchWritten(parent, child) ==
    [o \in Outpoints |-> Merged(parent[o], child[o])]

\* BatchWrite throws: a FRESH coin exists unspent in the parent cache.
FreshMisapplied(us, them) ==
    /\ them # Absent /\ them.dirty /\ them.fresh
    /\ us # Absent /\ us.coin # Spent

\* What CCoinsViewDB::BatchWrite leaves in the database: dirty entries only.
Stored(db, child) ==
    [o \in Outpoints |->
        IF child[o] # Absent /\ child[o].dirty THEN child[o].coin ELSE db[o]]

\* The cache after Sync: the cursor erases spent flagged entries and clears
\* the flags of the others.
Synced(map) ==
    [o \in Outpoints |->
        IF map[o] = Absent THEN Absent
        ELSE IF (map[o].dirty \/ map[o].fresh) /\ map[o].coin = Spent
          THEN Absent
          ELSE Clean(map[o].coin)]

=============================================================================
