--------------------------- MODULE BaseIndexProofs ---------------------------
(***************************************************************************)
(* The entries of the index are those of the chain, for any blocks, any    *)
(* reorganizations, crashes and failed commits: BaseIndexServesChain.      *)
(***************************************************************************)
EXTENDS BaseIndex, TLAPS

\* Provers and seconds for the steps that name no prover of their own.
USE ZenonT(10), SMTT(20)

-----------------------------------------------------------------------------
(* The invariant.  r stands for reverted. *)

Statistics == [Blocks -> 0 .. 1]

\* m counts nothing but blocks of the chain that ends in b.
Within(m, b) ==
    /\ m \in Statistics
    /\ \A c \in Blocks : m[c] = 1 => c # Genesis /\ OnChain(c, b)

Good(r, m, b) == Within(m, b) /\ (~r => m = Stats(b))

DbType(d) == d \in [height : [Heights -> [block : Blocks, stats : Statistics] \cup {Null}],
                    hash : [Blocks -> Statistics \cup {Null}],
                    best : Blocks \cup {Null},
                    muhash : Statistics]

\* What an entry says is right, whether or not its block is on a chain.
DbOK(r, d) ==
    /\ DbType(d)
    /\ \A h \in Heights : d.height[h] # Null =>
          Height[d.height[h].block] = h /\ Good(r, d.height[h].stats, d.height[h].block)
    /\ \A b \in Blocks : d.hash[b] # Null => Good(r, d.hash[b], b)

\* Every block up to t has an entry.
Served(d, t) == \A b \in Blocks : OnChain(b, t) => LookUpOne(d, b) # Null

Upto(a, b) == a = Null \/ OnChain(a, b)

Callback == [kind : {"connected", "flushed", "promise"}, block : Blocks]

SyncPc == pc \in {"loop", "have", "settle", "recheck"}

Types ==
    /\ tip \in Blocks \cup {Null} /\ known \subseteq Blocks
    /\ flushed \in [tip : Blocks \cup {Null}, known : SUBSET Blocks]
    /\ queue \in Seq(Callback)
    /\ m_best_block_index \in Blocks \cup {Null}
    /\ m_synced \in BOOLEAN /\ m_interrupt \in BOOLEAN /\ reverted \in BOOLEAN
    /\ m_synced => pc \in {"off", "aborted"}
    /\ muhash \in Statistics
    /\ pc \in {"init", "loop", "have", "append", "settle", "recheck", "off", "error", "aborted"}
    /\ pindex \in Blocks \cup {Null} /\ pindex_next \in Blocks \cup {Null}
    /\ failures \in Nat

\* The running statistics are those of the block they are said to be of, and
\* the sync thread has where it goes on from.
Counted ==
    /\ db.best = Null => db.muhash = NoStats
    /\ ~reverted => db.muhash = Stats(db.best)
    /\ SyncPc => Good(reverted, muhash, pindex)
    /\ pc = "append" => pindex_next # Genesis /\ Good(reverted, muhash, Parent[pindex_next])
    /\ m_synced => Good(reverted, muhash, m_best_block_index)
    /\ pc \in {"have", "append"} =>
          pindex_next \in Blocks /\ (pindex_next = Genesis <=> pindex = Null)
    /\ pc = "recheck" => m_best_block_index = pindex

\* What the locator and the best block point at is behind what was appended.
Reached ==
    /\ Served(db, db.best) /\ Served(db, m_best_block_index)
    /\ SyncPc => /\ Served(db, pindex)
                 /\ Upto(m_best_block_index, pindex) /\ Upto(db.best, pindex)
    /\ pc = "append" => /\ m_best_block_index = Parent[pindex_next]
                        /\ db.best = Parent[pindex_next]
    /\ m_synced => Upto(db.best, m_best_block_index)

IndexInv == Types /\ DbOK(reverted, db) /\ Counted /\ (~reverted => Reached)

-----------------------------------------------------------------------------
(* Ancestors *)

\* A set that has t and is closed under Parent has every ancestor of t.
LEMMA AncestorsLeast ==
    ASSUME NEW t \in Blocks, NEW S \in SUBSET Blocks, t \in S, Closed(S)
    PROVE  Ancestors[t] \subseteq S
BY DEF Ancestors

\* The ancestors of t are such a set.
LEMMA AncestorsClosed ==
    ASSUME NEW t \in Blocks
    PROVE  t \in Ancestors[t] /\ Ancestors[t] \in SUBSET Blocks /\ Closed(Ancestors[t])
<1>1. t \in Ancestors[t] /\ Ancestors[t] \in SUBSET Blocks
    BY DEF Ancestors
<1>2. ASSUME NEW c \in Ancestors[t], c # Genesis
      PROVE  Parent[c] \in Ancestors[t]
    <2>1. c \in Blocks /\ Parent[c] \in Blocks
        BY <1>1, <1>2, BaseIndexAssumption
    <2>2. ASSUME NEW S \in SUBSET Blocks, t \in S, Closed(S)
          PROVE  Parent[c] \in S
        BY <1>2, <2>2, AncestorsLeast DEF Closed
    <2> QED
        BY <2>1, <2>2 DEF Ancestors
<1> QED
    BY <1>1, <1>2 DEF Closed

\* The chain that ends in b is its parent's chain and b.
LEMMA AncestorsStep ==
    ASSUME NEW b \in Blocks, b # Genesis
    PROVE  Ancestors[b] = Ancestors[Parent[b]] \cup {b}
<1>1. Parent[b] \in Blocks
    BY BaseIndexAssumption
<1>2. Ancestors[b] \subseteq Ancestors[Parent[b]] \cup {b}
    <2>1. Ancestors[Parent[b]] \cup {b} \in SUBSET Blocks
        BY <1>1, AncestorsClosed
    <2>2. Closed(Ancestors[Parent[b]] \cup {b})
        BY <1>1, AncestorsClosed DEF Closed
    <2> QED
        BY <2>1, <2>2, AncestorsLeast
<1>3. Ancestors[Parent[b]] \subseteq Ancestors[b]
    BY <1>1, AncestorsClosed, AncestorsLeast DEF Closed
<1> QED
    BY <1>2, <1>3, AncestorsClosed

\* Genesis is a chain of one block.
LEMMA AncestorsGenesis == Ancestors[Genesis] = {Genesis}
<1>1. Genesis \in Blocks /\ Closed({Genesis})
    BY BaseIndexAssumption DEF Closed
<1> QED
    BY <1>1, AncestorsClosed, AncestorsLeast, SMTT(20)

\* An ancestor's ancestors are ancestors.
LEMMA AncestorsTransitive ==
    ASSUME NEW a \in Blocks, NEW b \in Ancestors[a]
    PROVE  Ancestors[b] \subseteq Ancestors[a]
BY AncestorsClosed, AncestorsLeast

\* An ancestor is lower than the block.
LEMMA AncestorsLower ==
    ASSUME NEW t \in Blocks, NEW c \in Ancestors[t], c # t
    PROVE  Height[c] < Height[t]
<1> DEFINE S == {b \in Blocks : Height[b] < Height[t]} \cup {t}
<1>1. S \in SUBSET Blocks /\ t \in S
    OBVIOUS
<1>2. Closed(S)
    <2> SUFFICES ASSUME NEW b \in S, b # Genesis
                 PROVE  Parent[b] \in S
        BY DEF Closed
    <2>1. Parent[b] \in Blocks /\ Height[b] \in Nat /\ Height[Parent[b]] \in Nat
          /\ Height[t] \in Nat /\ Height[b] = Height[Parent[b]] + 1
        BY BaseIndexAssumption
    <2> QED
        BY <2>1, SMTT(20)
<1>3. Ancestors[t] \subseteq S
    BY <1>1, <1>2, AncestorsLeast
<1> QED
    BY <1>3

\* Of two ancestors of a block one is an ancestor of the other.
LEMMA AncestorsLinear ==
    ASSUME NEW a \in Blocks, NEW b \in Ancestors[a], NEW c \in Ancestors[a]
    PROVE  b \in Ancestors[c] \/ c \in Ancestors[b]
<1> DEFINE S == {x \in Ancestors[a] : x \in Ancestors[c] \/ c \in Ancestors[x]}
<1>0. Ancestors[a] \in SUBSET Blocks /\ Closed(Ancestors[a]) /\ c \in Blocks
      /\ a \in Ancestors[a]
    BY AncestorsClosed
<1>1. S \in SUBSET Blocks /\ a \in S
    BY <1>0
<1>2. Closed(S)
    <2> SUFFICES ASSUME NEW x \in S, x # Genesis
                 PROVE  Parent[x] \in S
        BY DEF Closed
    <2>1. x \in Blocks /\ Parent[x] \in Ancestors[a] /\ Parent[x] \in Blocks
        BY <1>0 DEF Closed
    <2>2. CASE x \in Ancestors[c]
        BY <1>0, <2>1, <2>2, AncestorsClosed DEF Closed
    <2>3. CASE c \in Ancestors[x] /\ c # x
        BY <2>1, <2>3, AncestorsStep, SMTT(20)
    <2>4. CASE c = x
        BY <1>0, <2>1, <2>4, AncestorsClosed DEF Closed
    <2> QED
        BY <2>2, <2>3, <2>4
<1>3. Ancestors[a] \subseteq S
    BY <1>1, <1>2, AncestorsLeast
<1> QED
    BY <1>3

\* From an ancestor there is a next block on the way to the tip.
LEMMA AncestorsNext ==
    ASSUME NEW t \in Blocks, NEW p \in Ancestors[t], p # t
    PROVE  \E b \in Ancestors[t] : b # Genesis /\ Parent[b] = p /\ b \notin Ancestors[p]
<1> SUFFICES ASSUME \A b \in Ancestors[t] : b # Genesis /\ Parent[b] = p => b \in Ancestors[p]
             PROVE  FALSE
    OBVIOUS
<1> DEFINE S == {x \in Ancestors[t] : x \notin Ancestors[p]}
<1>0. Ancestors[t] \in SUBSET Blocks /\ Closed(Ancestors[t]) /\ p \in Blocks
      /\ t \in Ancestors[t] /\ p \in Ancestors[p]
    BY AncestorsClosed
<1>1. t \notin Ancestors[p]
    BY <1>0, AncestorsLower, BaseIndexAssumption, SMTT(20)
<1>2. Closed(S)
    <2> SUFFICES ASSUME NEW x \in S, x # Genesis
                 PROVE  Parent[x] \in S
        BY DEF Closed
    <2>1. x \in Blocks /\ Parent[x] \in Ancestors[t] /\ Parent[x] \in Blocks
        BY <1>0 DEF Closed
    <2>2. p \in Ancestors[x]
        BY <1>0, AncestorsLinear
    <2>3. p \in Ancestors[Parent[x]]
        BY <1>0, <2>1, <2>2, AncestorsStep, SMTT(20)
    <2>4. Parent[x] # p
        OBVIOUS
    <2>5. Height[p] < Height[Parent[x]]
        BY <2>1, <2>3, <2>4, AncestorsLower
    <2>6. Parent[x] \notin Ancestors[p]
        BY <1>0, <2>1, <2>5, AncestorsLower, BaseIndexAssumption, SMTT(20)
    <2> QED
        BY <2>1, <2>6
<1>3. Ancestors[t] \subseteq S
    BY <1>0, <1>1, <1>2, AncestorsLeast
<1> QED
    BY <1>0, <1>3

-----------------------------------------------------------------------------
(* The operators of CoinStatsIndex *)

\* The block before b, for which the index must have an entry.
Before(b) == IF b = Genesis THEN Null ELSE Parent[b]

\* Null is told apart from statistics and entries.
LEMMA NullApart ==
    /\ Null \notin Blocks /\ Null \notin Statistics
    /\ Null \notin [block : Blocks, stats : Statistics]
<1>1. Statistics \subseteq [Blocks -> Int]
    BY DEF Statistics
<1>2. [block : Blocks, stats : Statistics] \subseteq [block : Blocks, stats : [Blocks -> Int]]
    BY <1>1
<1> QED
    BY <1>1, <1>2, BaseIndexAssumption

\* The statistics of a chain count blocks of that chain.
LEMMA StatsGood ==
    ASSUME NEW r, NEW b
    PROVE  Good(r, Stats(b), b) /\ Stats(Null) = NoStats
BY DEF Good, Within, Stats, Statistics, NoStats, OnChain

\* Statistics within a chain are within a longer one.
LEMMA WithinLonger ==
    ASSUME NEW b \in Blocks, NEW a, OnChain(a, b), NEW m, Within(m, a)
    PROVE  Within(m, b)
BY AncestorsTransitive DEF Within, OnChain

\* A block added to the statistics of the chain before it.
LEMMA AppendedGood ==
    ASSUME NEW r, NEW b \in Blocks, NEW m, Good(r, m, Before(b))
    PROVE  Good(r, Appended(m, b), b)
<1>0. Null \notin Blocks /\ Genesis \in Blocks
    BY BaseIndexAssumption
<1>1. CASE b = Genesis
    <2>1. Ancestors[b] = {Genesis}
        BY <1>1, AncestorsGenesis
    <2>2. \A c \in Blocks : m[c] # 1
        BY <1>1 DEF Good, Within, Before, OnChain
    <2>3. m \in Statistics /\ Appended(m, b) = m
        BY <1>1 DEF Good, Within, Appended
    <2>4. m = Stats(b)
        BY <2>1, <2>2, <2>3, SMTT(20) DEF Statistics, Stats, OnChain
    <2> QED
        BY <2>3, <2>4, StatsGood
<1>2. CASE b # Genesis
    <2>1. Parent[b] \in Blocks /\ Ancestors[b] = Ancestors[Parent[b]] \cup {b}
        BY <1>2, BaseIndexAssumption, AncestorsStep
    <2>2. b \notin Ancestors[Parent[b]]
        BY <1>2, <2>1, AncestorsLower, BaseIndexAssumption, SMTT(20)
    <2>3. m \in Statistics /\ Appended(m, b) = [m EXCEPT ![b] = @ + 1]
        BY <1>2 DEF Good, Within, Appended
    <2>4. \A c \in Blocks : m[c] = 1 => c # Genesis /\ c \in Ancestors[Parent[b]]
        BY <1>2 DEF Good, Within, Before, OnChain
    <2>5. m[b] = 0
        BY <2>2, <2>3, <2>4, SMTT(20) DEF Statistics
    <2>6. Within(Appended(m, b), b)
        BY <1>0, <1>2, <2>1, <2>3, <2>4, <2>5, SMTT(20) DEF Within, Statistics, OnChain
    <2>7. ASSUME ~r PROVE Appended(m, b) = Stats(b)
        <3>1. m = Stats(Parent[b])
            BY <1>2, <2>7 DEF Good, Before
        <3> QED
            BY <1>0, <1>2, <2>1, <2>3, <2>5, <3>1, SMTT(20) DEF Stats, OnChain
    <2> QED
        BY <2>6, <2>7 DEF Good
<1> QED
    BY <1>1, <1>2

\* What is found for a block is right for it.
LEMMA LookUpGood ==
    ASSUME NEW r, NEW d, DbOK(r, d), NEW b \in Blocks, LookUpOne(d, b) # Null
    PROVE  Good(r, LookUpOne(d, b), b)
<1>1. Height[b] \in Heights
    BY DEF Heights
<1>2. d.height[Height[b]] # Null
    BY DEF LookUpOne
<1>3. CASE d.height[Height[b]].block = b
    BY <1>1, <1>2, <1>3 DEF LookUpOne, DbOK
<1>4. CASE d.height[Height[b]].block # b
    BY <1>1, <1>2, <1>4 DEF LookUpOne, DbOK
<1> QED
    BY <1>3, <1>4

\* An entry is added at the block's height; no block before it loses its own.
LEMMA CustomAppendOK ==
    ASSUME NEW r, NEW d, DbOK(r, d), NEW b \in Blocks, NEW m, Good(r, m, Before(b))
    PROVE  LET e == CustomAppend(d, m, b) IN
           /\ DbOK(r, e) /\ e.best = d.best /\ e.muhash = d.muhash
           /\ LookUpOne(e, b) # Null
           /\ \A c \in Blocks : OnChain(c, Before(b)) => LookUpOne(e, c) = LookUpOne(d, c)
<1> DEFINE s == Appended(m, b)
           n == [block |-> b, stats |-> s]
           e == CustomAppend(d, m, b)
<1>1. Good(r, s, b) /\ s \in Statistics
    BY AppendedGood DEF Good, Within
<1> HIDE DEF s
<1>2. n \in [block : Blocks, stats : Statistics] /\ n # Null /\ s # Null
    BY <1>1, NullApart
<1>3. DbType(d) /\ Height[b] \in Heights
    BY DEF DbOK, Heights
<1>4. /\ e = [d EXCEPT !.height = [d.height EXCEPT ![Height[b]] = n]]
      /\ e.height = [d.height EXCEPT ![Height[b]] = n]
      /\ e.hash = d.hash /\ e.best = d.best /\ e.muhash = d.muhash
    BY <1>3 DEF CustomAppend, DbType, s
<1>5. DbType(e)
    <2>1. e.height \in [Heights -> [block : Blocks, stats : Statistics] \cup {Null}]
        BY <1>2, <1>3, <1>4 DEF DbType
    <2> QED
        BY <1>3, <1>4, <2>1 DEF DbType
<1> HIDE DEF e
<1>6. \A h \in Heights : e.height[h] = IF h = Height[b] THEN n ELSE d.height[h]
    BY <1>3, <1>4 DEF DbType
<1>7. DbOK(r, e)
    <2>1. ASSUME NEW h \in Heights, e.height[h] # Null
          PROVE  Height[e.height[h].block] = h /\ Good(r, e.height[h].stats, e.height[h].block)
        <3>1. CASE h = Height[b]
            BY <1>1, <1>6, <3>1, SMTT(20)
        <3>2. CASE h # Height[b]
            BY <1>6, <2>1, <3>2 DEF DbOK
        <3> QED
            BY <3>1, <3>2
    <2>2. \A c \in Blocks : e.hash[c] # Null => Good(r, e.hash[c], c)
        BY <1>4 DEF DbOK
    <2> QED
        BY <1>5, <2>1, <2>2 DEF DbOK
<1>8. LookUpOne(e, b) # Null
    BY <1>2, <1>3, <1>6, SMTT(20) DEF LookUpOne
<1>9. ASSUME NEW c \in Blocks, OnChain(c, Before(b))
      PROVE  LookUpOne(e, c) = LookUpOne(d, c)
    <2>1. b # Genesis /\ Parent[b] \in Blocks /\ c \in Ancestors[Parent[b]]
        BY <1>9, BaseIndexAssumption DEF Before, OnChain
    <2>2. Height[c] < Height[b] \/ c = Parent[b]
        BY <2>1, AncestorsLower, BaseIndexAssumption, SMTT(20)
    <2>3. Height[c] # Height[b] /\ Height[c] \in Heights
        BY <2>1, <2>2, BaseIndexAssumption, SMTT(20) DEF Heights
    <2> QED
        BY <1>4, <1>6, <2>3, SMTT(20) DEF LookUpOne
<1> QED
    BY <1>4, <1>7, <1>8, <1>9 DEF e

\* The copy adds what the entry at the height says already.
LEMMA RewindCopyOK ==
    ASSUME NEW r, NEW d, DbOK(r, d), NEW old \in Blocks, NEW new \in Blocks
    PROVE  LET e == RewindCopy(d, old, new) IN
           /\ DbOK(r, e) /\ e.best = d.best /\ e.muhash = d.muhash
           /\ \A c \in Blocks : LookUpOne(e, c) = LookUpOne(d, c)
<1> DEFINE Held(b) == d.height[Height[b]] # Null /\ d.height[Height[b]].block = b
           Copied(b) == Height[b] \in Height[new] .. Height[old] /\ Held(b)
           hash == [b \in Blocks |-> IF Copied(b) THEN d.height[Height[b]].stats ELSE d.hash[b]]
           e == RewindCopy(d, old, new)
<1>1. DbType(d) /\ \A b \in Blocks : Height[b] \in Heights
    BY DEF DbOK, Heights
<1>2. e = [d EXCEPT !.hash = hash]
    BY DEF RewindCopy
<1>3. e.height = d.height /\ e.hash = hash /\ e.best = d.best /\ e.muhash = d.muhash
    BY <1>1, <1>2 DEF DbType
<1>4. ASSUME NEW b \in Blocks
      PROVE  /\ hash[b] \in Statistics \cup {Null}
             /\ hash[b] # Null => Good(r, hash[b], b)
    <2>1. CASE Copied(b)
        <3>1. hash[b] = d.height[Height[b]].stats /\ d.height[Height[b]] # Null
              /\ d.height[Height[b]].block = b
            BY <2>1
        <3>2. d.height[Height[b]] \in [block : Blocks, stats : Statistics]
            BY <1>1, <3>1 DEF DbType
        <3> HIDE DEF hash, Copied
        <3> QED
            BY <1>1, <3>1, <3>2 DEF DbOK
    <2>2. CASE ~Copied(b)
        <3>1. hash[b] = d.hash[b]
            BY <2>2
        <3> HIDE DEF hash, Copied
        <3> QED
            BY <1>1, <3>1 DEF DbOK, DbType
    <2> QED
        BY <2>1, <2>2
<1>5. ASSUME NEW c \in Blocks
      PROVE  LookUpOne(e, c) = LookUpOne(d, c)
    <2>1. CASE Held(c)
        BY <1>3, <2>1 DEF LookUpOne
    <2>2. CASE ~Held(c)
        <3>1. hash[c] = d.hash[c]
            BY <2>2
        <3> HIDE DEF hash, e
        <3> QED
            BY <1>3, <2>2, <3>1 DEF LookUpOne
    <2> QED
        BY <2>1, <2>2
<1>6. DbType(e)
    <2>1. hash \in [Blocks -> Statistics \cup {Null}]
        BY <1>4
    <2> HIDE DEF hash
    <2> QED
        BY <1>1, <1>2, <2>1 DEF DbType
<1>7. DbOK(r, e)
    <2> HIDE DEF hash, e
    <2> QED
        BY <1>3, <1>4, <1>6 DEF DbOK
<1> QED
    BY <1>3, <1>5, <1>7

\* Where ReverseBlock's assertions hold, what is left are the new tip's
\* statistics.
LEMMA ReversedGood ==
    ASSUME NEW r, NEW d, DbOK(r, d), NEW m \in Statistics,
           NEW old \in Blocks, NEW new, OnChain(new, old), new # old,
           ReverseAsserts(d, m, old, new)
    PROVE  new \in Blocks /\ Good(r, Reversed(m, old, new), new)
<1>1. new \in Ancestors[old] /\ new \in Blocks /\ Ancestors[old] \in SUBSET Blocks
      /\ new # Null /\ old # Null
    BY AncestorsClosed, NullApart DEF OnChain
<1>2. PICK b \in Ancestors[old] : b # Genesis /\ Parent[b] = new /\ b \notin Ancestors[new]
    BY <1>1, AncestorsNext
<1>3. b \in Blocks /\ OnChain(b, old) /\ ~OnChain(b, new)
    BY <1>1, <1>2 DEF OnChain
<1>4. LookUpOne(d, new) = Reversed(m, old, new)
    BY <1>2, <1>3 DEF ReverseAsserts
<1>5. Reversed(m, old, new) \in [Blocks -> Int]
    BY DEF Reversed, Statistics
<1>6. LookUpOne(d, new) # Null
    BY <1>4, <1>5, BaseIndexAssumption
<1> QED
    BY <1>1, <1>4, <1>6, LookUpGood

\* A commit changes the locator and the statistics committed, no entry.
LEMMA CommitOK ==
    ASSUME NEW r, NEW d, DbOK(r, d), NEW best \in Blocks \cup {Null}, NEW m \in Statistics
    PROVE  LET e == Commit(d, best, m) IN
           /\ DbOK(r, e)
           /\ best = Null => e = d
           /\ best # Null => e.best = best /\ e.muhash = m
           /\ \A c \in Blocks : LookUpOne(e, c) = LookUpOne(d, c)
<1> DEFINE e == Commit(d, best, m)
<1>1. CASE best = Null
    BY <1>1 DEF Commit
<1>2. CASE best # Null
    <2>1. e = [d EXCEPT !.best = best, !.muhash = m] /\ DbType(d)
        BY <1>2 DEF Commit, DbOK
    <2>2. e.height = d.height /\ e.hash = d.hash /\ e.best = best /\ e.muhash = m
        BY <2>1 DEF DbType
    <2>3. DbType(e)
        BY <2>1 DEF DbType
    <2> HIDE DEF e
    <2>4. DbOK(r, e)
        BY <2>2, <2>3 DEF DbOK
    <2>5. \A c \in Blocks : LookUpOne(e, c) = LookUpOne(d, c)
        BY <2>2 DEF LookUpOne
    <2> QED
        BY <1>2, <2>2, <2>4, <2>5 DEF e
<1> QED
    BY <1>1, <1>2

\* A commit that may fail.
LEMMA CommitToOK ==
    ASSUME NEW r, NEW d, DbOK(r, d), NEW best \in Blocks \cup {Null}, NEW m \in Statistics,
           failures \in Nat, CommitTo(d, best, m)
    PROVE  /\ DbOK(r, db') /\ failures' \in Nat
           /\ \/ db'.best = d.best /\ db'.muhash = d.muhash
              \/ best # Null /\ db'.best = best /\ db'.muhash = m
           /\ failures' = failures /\ best # Null => db'.best = best /\ db'.muhash = m
           /\ \A c \in Blocks : LookUpOne(db', c) = LookUpOne(d, c)
<1>1. CASE db' = Commit(d, best, m) /\ failures' = failures
    BY <1>1, CommitOK, SMTT(20)
<1>2. CASE db' = d /\ failures' = failures + 1
    BY <1>2
<1> QED
    BY <1>1, <1>2 DEF CommitTo

\* The chain that ends in b is b on the chain before it.
LEMMA OnChainBefore ==
    ASSUME NEW b \in Blocks, NEW c
    PROVE  OnChain(c, b) <=> c = b \/ OnChain(c, Before(b))
<1>1. b # Null /\ (b # Genesis => Parent[b] \in Blocks /\ Parent[b] # Null)
    BY BaseIndexAssumption
<1>2. CASE b = Genesis
    BY <1>1, <1>2, AncestorsGenesis DEF OnChain, Before
<1>3. CASE b # Genesis
    BY <1>1, <1>3, AncestorsStep DEF OnChain, Before
<1> QED
    BY <1>2, <1>3

\* A chain that is served up to a block is served up to an ancestor of it.
LEMMA ServedUpto ==
    ASSUME NEW d, NEW b \in Blocks \cup {Null}, Served(d, b), NEW a, Upto(a, b)
    PROVE  Served(d, a)
BY AncestorsTransitive, AncestorsClosed DEF Served, Upto, OnChain

\* A block appended to a chain that is served.
LEMMA AppendStep ==
    ASSUME NEW r, NEW d, DbOK(r, d), NEW b \in Blocks, NEW m, Good(r, m, Before(b))
    PROVE  LET e == CustomAppend(d, m, b) IN
           /\ DbOK(r, e) /\ e.best = d.best /\ e.muhash = d.muhash
           /\ Good(r, Appended(m, b), b)
           /\ Served(d, Before(b)) => Served(e, b)
           /\ \A x : Upto(x, Before(b)) => Upto(x, b)
<1>1. Good(r, Appended(m, b), b)
    BY AppendedGood
<1>2. \A x : Upto(x, Before(b)) => Upto(x, b)
    BY OnChainBefore DEF Upto
<1> QED
    BY <1>1, <1>2, CustomAppendOK, OnChainBefore, SMTT(20) DEF Served

-----------------------------------------------------------------------------
(* The steps.  First those that leave the index alone. *)

\* A step that changes neither the index nor the sync thread.
LEMMA Framed ==
    ASSUME IndexInv, Types', UNCHANGED <<index, sync, reverted>>
    PROVE  IndexInv'
BY DEF IndexInv, index, sync, Counted, Reached, SyncPc

\* A step that ends the sync thread or the process.
LEMMA Halted ==
    ASSUME IndexInv, Types', UNCHANGED <<m_best_block_index, db, reverted>>,
           pc' \in {"init", "off", "error", "aborted"},
           ~m_synced' \/ UNCHANGED <<m_synced, muhash>>
    PROVE  IndexInv'
BY DEF IndexInv, Counted, Reached, SyncPc

\* Init, where nothing is indexed.
LEMMA InitIndex ==
    ASSUME Init
    PROVE  IndexInv
<1>1. Types
    <2>1. tip \in Blocks \cup {Null} /\ known \subseteq Blocks
        BY BaseIndexAssumption DEF Init
    <2>2. flushed \in [tip : Blocks \cup {Null}, known : SUBSET Blocks]
        BY <2>1 DEF Init
    <2>3. muhash \in Statistics
        BY DEF Init, NoStats, Statistics
    <2>4. queue \in Seq(Callback)
        BY DEF Init
    <2> QED
        BY <2>1, <2>2, <2>3, <2>4 DEF Init, Types
<1>2. DbType(db)
    BY DEF Init, EmptyDb, DbType, NoStats, Statistics
<1>3. DbOK(reverted, db)
    <2>1. \A h \in Heights : db.height[h] = Null
        BY DEF Init, EmptyDb
    <2>2. \A b \in Blocks : db.hash[b] = Null
        BY DEF Init, EmptyDb
    <2> QED
        BY <1>2, <2>1, <2>2 DEF DbOK
<1>4. db.best = Null /\ db.muhash = NoStats
    BY DEF Init, EmptyDb
<1>5. Counted
    BY <1>4, StatsGood DEF Init, Counted, SyncPc
<1>6. Reached
    BY <1>4 DEF Init, Reached, Served, OnChain, SyncPc
<1> QED
    BY <1>1, <1>3, <1>5, <1>6 DEF IndexInv

\* A failed assertion.
LEMMA AssertionFailsOK ==
    ASSUME IndexInv, AssertionFails
    PROVE  IndexInv'
<1>1. Types'
    BY DEF IndexInv, Types, AssertionFails, chain, index, bounds
<1> QED
    BY <1>1, Halted DEF AssertionFails, index, bounds

\* A crash: the database is what is left.
LEMMA CrashOK ==
    ASSUME IndexInv, Crash
    PROVE  IndexInv'
<1>1. Types'
    <2>1. Types
        BY DEF IndexInv
    <2>2. muhash' \in Statistics
        BY DEF Crash, NoStats, Statistics
    <2>3. tip' \in Blocks \cup {Null} /\ known' \subseteq Blocks /\ queue' \in Seq(Callback)
        BY <2>1, SMTT(20) DEF Types, Crash
    <2> QED
        BY <2>1, <2>2, <2>3 DEF Types, Crash
<1>2. Counted'
    BY DEF IndexInv, Counted, Crash, SyncPc
<1>3. ~reverted => Reached'
    <2>1. Served(db, Null)
        BY DEF Served, OnChain
    <2> QED
        BY <2>1 DEF IndexInv, Reached, Crash, SyncPc
<1> QED
    BY <1>1, <1>2, <1>3 DEF IndexInv, Crash

\* The chain, its callers and the callbacks that are dropped.
LEMMA OtherOK ==
    ASSUME IndexInv,
           \/ IgnoreConnected \/ FirstNotGenesis \/ Promise
           \/ Ask \/ Answered
           \/ \E new \in Blocks : ChainMoves(new)
           \/ Invalidated \/ FlushChain \/ Interrupt \/ Ended
    PROVE  IndexInv'
<1> USE DEF IndexInv
<1>0. Types
    OBVIOUS
<1> DEFINE Same == UNCHANGED <<index, sync, reverted>>
<1>1. CASE IgnoreConnected
    <2>1. Same /\ Types'
        BY <1>0, <1>1, SMTT(20) DEF IgnoreConnected, Delivered, Types, chain, index, sync, bounds
    <2> QED
        BY <2>1, Framed
<1>2. CASE FirstNotGenesis
    <2>1. Same /\ Types'
        BY <1>0, <1>2, SMTT(20) DEF FirstNotGenesis, FatalError, Delivered, Types, chain, index, sync, bounds
    <2> QED
        BY <2>1, Framed
<1>3. CASE Promise
    <2>1. Same /\ Types'
        BY <1>0, <1>3, SMTT(20) DEF Promise, Delivered, Types, chain, index, sync, bounds
    <2> QED
        BY <2>1, Framed
<1>4. CASE Ask
    <2>1. [kind |-> "promise", block |-> tip] \in Callback
        BY <1>0, <1>4 DEF Ask, Types, Callback
    <2>2. Same /\ Types'
        BY <1>0, <1>4, <2>1, SMTT(20) DEF Ask, Types, chain, index, sync, bounds
    <2> QED
        BY <2>2, Framed
<1>5. CASE Answered
    <2>1. Same /\ Types'
        BY <1>0, <1>5 DEF Answered, Types, chain, index, sync, bounds
    <2> QED
        BY <2>1, Framed
<1>6. CASE \E new \in Blocks : ChainMoves(new)
    <2>1. PICK new \in Blocks : ChainMoves(new)
        BY <1>6
    <2> DEFINE blocks == {b \in Ancestors[new] : ~OnChain(b, tip)}
               n == Cardinality(blocks)
    <2>2. blocks \subseteq Blocks
        BY AncestorsClosed
    <2>3. n \in Nat
        <3>1. n \in 0 .. MaxQueue - Len(queue)
            BY <2>1 DEF ChainMoves
        <3>2. Len(queue) \in Nat
            BY <1>0, SMTT(20) DEF Types
        <3> HIDE DEF n
        <3> QED
            BY <3>1, <3>2, BaseIndexAssumption, SMTT(20)
    <2>4. Same /\ tip' = new /\ known' = known \cup blocks
          /\ UNCHANGED <<flushed, m_interrupt, failures>>
        BY <2>1 DEF ChainMoves, index, sync, bounds
    <2>5. PICK path \in [1 .. n -> blocks] :
             queue' = queue \o [i \in 1 .. n |-> [kind |-> "connected", block |-> path[i]]]
        BY <2>1 DEF ChainMoves
    <2>6. [i \in 1 .. n |-> [kind |-> "connected", block |-> path[i]]] \in Seq(Callback)
        <3> HIDE DEF n, blocks
        <3>1. \A i \in 1 .. n : [kind |-> "connected", block |-> path[i]] \in Callback
            BY <2>2 DEF Callback
        <3> QED
            BY <2>3, <3>1
    <2> HIDE DEF n, blocks
    <2>7. queue' \in Seq(Callback)
        <3> DEFINE s == [i \in 1 .. n |-> [kind |-> "connected", block |-> path[i]]]
        <3>1. s \in Seq(Callback) /\ queue \in Seq(Callback) /\ queue' = queue \o s
            BY <1>0, <2>5, <2>6 DEF Types
        <3> HIDE DEF s
        <3> QED
            BY <3>1
    <2>8. Types'
        BY <1>0, <2>2, <2>4, <2>7 DEF Types, index, sync
    <2> QED
        BY <2>4, <2>8, Framed
<1>7. CASE Invalidated
    <2>1. Same /\ Types'
        BY <1>0, <1>7, BaseIndexAssumption DEF Invalidated, Types, index, sync
    <2> QED
        BY <2>1, Framed
<1>8. CASE FlushChain
    <2>1. [kind |-> "flushed", block |-> tip] \in Callback
        BY <1>0, <1>8 DEF FlushChain, Types, Callback
    <2>2. Same /\ Types'
        BY <1>0, <1>8, <2>1, SMTT(20) DEF FlushChain, Types, index, sync, bounds
    <2> QED
        BY <2>2, Framed
<1>9. CASE Interrupt
    <2>1. Same /\ Types'
        BY <1>0, <1>9 DEF Interrupt, Types, chain, index, sync, bounds
    <2> QED
        BY <2>1, Framed
<1>10. CASE Ended
    <2>1. Same /\ Types'
        BY <1>0, <1>10 DEF Ended, Types, vars, chain, index, sync, bounds
    <2> QED
        BY <2>1, Framed
<1> QED
    BY <1>1, <1>2, <1>3, <1>4, <1>5, <1>6, <1>7, <1>8, <1>9, <1>10

-----------------------------------------------------------------------------
(* The sync thread. *)

\* NextSyncBlock is Null or a block, and Genesis only at the start.
LEMMA NextSyncBlockOK ==
    ASSUME tip \in Blocks \cup {Null}, NEW p \in Blocks \cup {Null}, NextSyncBlock(p) # Null
    PROVE  NextSyncBlock(p) \in Blocks /\ (NextSyncBlock(p) = Genesis <=> p = Null)
<1> DEFINE next == {b \in Blocks \ {Genesis} : OnChain(b, tip) /\ ~OnChain(b, p)
                                                 /\ OnChain(Parent[b], p)}
<1>1. CASE p = Null
    BY <1>1, BaseIndexAssumption DEF NextSyncBlock
<1>2. CASE p # Null
    <2>1. next # {} /\ NextSyncBlock(p) = CHOOSE b \in next : TRUE
        BY <1>2 DEF NextSyncBlock
    <2>2. NextSyncBlock(p) \in next
        BY <2>1
    <2> QED
        BY <1>2, <2>2
<1> QED
    BY <1>1, <1>2

\* Init restores the statistics of the locator's block.
LEMMA IndexInitOK ==
    ASSUME IndexInv, IndexInit
    PROVE  IndexInv'
<1>0. Types /\ DbOK(reverted, db) /\ Counted /\ DbType(db)
    BY DEF IndexInv, DbOK
<1>1. CASE pc' = "error" /\ UNCHANGED <<m_best_block_index, m_synced, muhash, pindex>>
    <2>1. Types'
        BY <1>0, <1>1 DEF IndexInit, Types, chain, bounds
    <2> QED
        BY <1>1, <2>1, Halted DEF IndexInit, bounds
<1>2. CASE /\ db.best # Null => LookUpOne(db, db.best) = db.muhash
           /\ m_best_block_index' = db.best /\ muhash' = db.muhash
           /\ m_synced' = (db.best = tip) /\ pindex' = db.best
           /\ pc' = IF m_synced' THEN "off" ELSE "loop"
    <2>1. UNCHANGED <<db, reverted, failures, tip, known, flushed, queue, m_interrupt, pindex_next>>
        BY DEF IndexInit, bounds, chain
    <2>2. db.best \in Blocks \cup {Null} /\ db.muhash \in Statistics
        BY <1>0 DEF DbType
    <2>3. Types'
        BY <1>0, <1>2, <2>1, <2>2 DEF Types
    <2>4. Good(reverted, db.muhash, db.best)
        <3>1. CASE db.best = Null
            BY <1>0, <3>1, StatsGood DEF Counted
        <3>2. CASE db.best # Null
            BY <1>0, <1>2, <2>2, <3>2, LookUpGood, NullApart
        <3> QED
            BY <3>1, <3>2
    <2>5. Counted'
        BY <1>0, <1>2, <2>1, <2>4 DEF Counted, SyncPc
    <2>6. Upto(db.best, db.best)
        BY <2>2, AncestorsClosed, NullApart DEF Upto, OnChain
    <2>7. ~reverted => Reached'
        BY <1>2, <2>1, <2>6 DEF IndexInv, Reached, SyncPc
    <2> QED
        BY <1>0, <2>1, <2>3, <2>5, <2>7 DEF IndexInv
<1> QED
    BY <1>1, <1>2 DEF IndexInit

\* The next block of the active chain.
LEMMA SyncNextOK ==
    ASSUME IndexInv, SyncNext
    PROVE  IndexInv'
<1>0. Types /\ Counted
    BY DEF IndexInv
<1>1. UNCHANGED <<db, reverted, failures, tip, known, flushed, queue, m_interrupt, pindex,
                  m_best_block_index, m_synced, muhash>>
      /\ pc = "loop" /\ pc' = (IF pindex_next' = Null THEN "settle" ELSE "have")
      /\ pindex_next' = NextSyncBlock(pindex)
    BY DEF SyncNext, chain, index, bounds
<1>2. pindex_next' # Null => pindex_next' \in Blocks /\ (pindex_next' = Genesis <=> pindex = Null)
    BY <1>0, <1>1, NextSyncBlockOK DEF Types
<1>3. Types'
    BY <1>0, <1>1, <1>2 DEF Types
<1>4. Counted'
    BY <1>0, <1>1, <1>2 DEF Counted, SyncPc
<1>5. ~reverted => Reached'
    BY <1>1 DEF IndexInv, Reached, SyncPc
<1> QED
    BY <1>1, <1>3, <1>4, <1>5 DEF IndexInv

\* The second look at the chain, with cs_main held up to the flag.
LEMMA SyncRecheckOK ==
    ASSUME IndexInv, SyncRecheck
    PROVE  IndexInv'
<1>0. Types /\ Counted
    BY DEF IndexInv
<1>1. UNCHANGED <<db, reverted, failures, tip, known, flushed, queue, m_interrupt, pindex,
                  m_best_block_index, muhash>>
      /\ pc = "recheck" /\ pc' = (IF m_synced' THEN "off" ELSE "have")
      /\ m_synced' = (pindex_next' = Null)
      /\ pindex_next' = NextSyncBlock(pindex)
    BY DEF SyncRecheck, chain, bounds
<1>2. pindex_next' # Null => pindex_next' \in Blocks /\ (pindex_next' = Genesis <=> pindex = Null)
    BY <1>0, <1>1, NextSyncBlockOK DEF Types
<1>3. Types'
    BY <1>0, <1>1, <1>2 DEF Types
<1>4. Counted'
    BY <1>0, <1>1, <1>2 DEF Counted, SyncPc
<1>5. ~reverted => Reached'
    BY <1>0, <1>1 DEF IndexInv, Reached, Counted, SyncPc
<1> QED
    BY <1>1, <1>3, <1>4, <1>5 DEF IndexInv

\* The best block becomes what the sync thread has reached, and is committed.
LEMMA SyncCommitOK ==
    ASSUME IndexInv, SyncInterrupted \/ SyncSettle
    PROVE  IndexInv'
<1>0. Types /\ Counted /\ DbOK(reverted, db) /\ DbOK(reverted, db)
    BY DEF IndexInv
<1>1. UNCHANGED <<reverted, tip, known, flushed, queue, m_interrupt, pindex, pindex_next,
                  m_synced, muhash>>
      /\ CommitTo(db, pindex, muhash)
      /\ SyncPc /\ pc' \in {"off", "recheck"}
      /\ m_best_block_index' = pindex
    BY DEF SyncInterrupted, SyncSettle, chain, SyncPc
<1>2. /\ DbOK(reverted, db') /\ failures' \in Nat
      /\ \/ db'.best = db.best /\ db'.muhash = db.muhash
         \/ pindex # Null /\ db'.best = pindex /\ db'.muhash = muhash
      /\ \A c \in Blocks : LookUpOne(db', c) = LookUpOne(db, c)
    BY <1>0, <1>1, CommitToOK DEF Types
<1>3. Types'
    BY <1>0, <1>1, <1>2 DEF Types, SyncPc
<1>4. Counted'
    <2>1. Good(reverted, muhash, pindex) /\ ~m_synced
        BY <1>0, <1>1 DEF Counted, Types, SyncPc
    <2> QED
        BY <1>0, <1>1, <1>2, <2>1 DEF Counted, SyncPc, Good
<1>5. ASSUME ~reverted PROVE Reached'
    <2>1. Served(db, pindex) /\ Upto(db.best, pindex) /\ Served(db, db.best) /\ ~m_synced
        BY <1>0, <1>1, <1>5 DEF IndexInv, Reached, SyncPc, Types
    <2>2. \A x : Served(db, x) => Served(db', x)
        BY <1>2 DEF Served
    <2>3. Upto(pindex, pindex)
        BY <1>0, AncestorsClosed, NullApart DEF Types, Upto, OnChain
    <2>4. Served(db', db'.best) /\ Served(db', pindex) /\ Upto(db'.best, pindex)
        BY <1>2, <2>1, <2>2, <2>3
    <2> QED
        BY <1>1, <2>1, <2>3, <2>4 DEF Reached, SyncPc
<1> QED
    BY <1>1, <1>2, <1>3, <1>4, <1>5 DEF IndexInv

\* Rewind, where its assertions hold: the copy and the statistics of the new
\* tip.
LEMMA RewindStep ==
    ASSUME IndexInv, NEW old \in Blocks, NEW new \in Blocks, new # old,
           RewindAsserts(old, new)
    PROVE  LET d == RewindCopy(db, old, new)
               m == Reversed(muhash, old, new)
           IN  /\ DbOK(reverted, d) /\ d.best = db.best /\ d.muhash = db.muhash
               /\ Good(reverted, m, new) /\ m \in Statistics
               /\ \A x : Served(db, x) => Served(d, x)
               /\ OnChain(new, old) /\ old = m_best_block_index
<1> DEFINE d == RewindCopy(db, old, new)
           m == Reversed(muhash, old, new)
<1>1. DbOK(reverted, db) /\ muhash \in Statistics
    BY DEF IndexInv, Types
<1>2. DbOK(reverted, d) /\ d.best = db.best /\ d.muhash = db.muhash
      /\ \A c \in Blocks : LookUpOne(d, c) = LookUpOne(db, c)
    BY <1>1, RewindCopyOK
<1>3. OnChain(new, old) /\ old = m_best_block_index /\ ReverseAsserts(d, muhash, old, new)
    BY DEF RewindAsserts
<1> HIDE DEF d
<1>4. Good(reverted, m, new)
    BY <1>1, <1>2, <1>3, ReversedGood
<1> HIDE DEF m
<1>5. m \in Statistics
    BY <1>4 DEF Good, Within
<1>6. \A x : Served(db, x) => Served(d, x)
    BY <1>2 DEF Served
<1> QED
    BY <1>2, <1>3, <1>4, <1>5, <1>6 DEF d, m

\* A rewind that fails leaves every entry and the locator, and statistics that
\* count nothing but blocks of the old tip's chain.
LEMMA RewindFailsOK ==
    ASSUME IndexInv, NEW old \in Blocks, NEW new \in Blocks, RewindFails(old, new),
           Good(reverted, muhash, old)
    PROVE  /\ DbOK(reverted', db') /\ db'.best = db.best /\ db'.muhash = db.muhash
           /\ Good(reverted', muhash', old) /\ muhash' \in Statistics
           /\ \A x : Served(db, x) => Served(db', x)
           /\ reverted' \in BOOLEAN /\ (reverted => reverted')
           /\ failures' \in Nat /\ m_interrupt' = TRUE
           /\ m_best_block_index' = m_best_block_index
<1>0. DbOK(reverted, db) /\ muhash \in Statistics /\ failures \in Nat /\ reverted \in BOOLEAN
    BY DEF IndexInv, Types
<1>1. failures' \in Nat /\ m_interrupt' = TRUE /\ m_best_block_index' = m_best_block_index
    BY <1>0, SMTT(20) DEF RewindFails, FatalError
<1>2. CASE UNCHANGED <<db, muhash, reverted>>
    BY <1>0, <1>1, <1>2
<1>3. ASSUME NEW x \in Blocks, OnChain(x, old),
             db' = RewindCopy(db, old, new),
             ReverseAsserts(db', muhash, old, x),
             muhash' = Reversed(muhash, old, x),
             reverted' \in {reverted \/ x # old, TRUE}
      PROVE  /\ DbOK(reverted', db') /\ db'.best = db.best /\ db'.muhash = db.muhash
             /\ Good(reverted', muhash', old) /\ muhash' \in Statistics
             /\ \A y : Served(db, y) => Served(db', y)
             /\ reverted' \in BOOLEAN /\ (reverted => reverted')
    <2> DEFINE d == RewindCopy(db, old, new)
    <2>0. DbOK(reverted, d) /\ d.best = db.best /\ d.muhash = db.muhash
          /\ \A c \in Blocks : LookUpOne(d, c) = LookUpOne(db, c)
        BY <1>0, RewindCopyOK
    <2>1. DbOK(reverted, db') /\ db'.best = db.best /\ db'.muhash = db.muhash
          /\ \A c \in Blocks : LookUpOne(db', c) = LookUpOne(db, c)
      <3>1. db' = d
        BY <1>3
      <3> HIDE DEF d
      <3> QED
        BY <2>0, <3>1
    <2>2. reverted' \in BOOLEAN /\ (reverted => reverted') /\ (x # old => reverted')
        BY <1>0, <1>3
    <2>3. Good(reverted', muhash', old) /\ muhash' \in Statistics
        <3>1. CASE x = old
            <4>1. \A c \in Blocks : ~(OnChain(c, old) /\ ~OnChain(c, x))
                BY <3>1
            <4>2. muhash' = muhash
                BY <1>0, <1>3, <4>1 DEF Reversed, Statistics
            <4> QED
                BY <1>0, <2>2, <4>2 DEF Good
        <3>2. CASE x # old
            <4>1. Good(reverted, muhash', x)
                BY <1>0, <1>3, <2>1, <3>2, ReversedGood
            <4>2. Within(muhash', old)
                BY <1>3, <4>1, WithinLonger DEF Good
            <4> QED
                BY <2>2, <3>2, <4>2 DEF Good, Within
        <3> QED
            BY <3>1, <3>2
    <2>4. DbOK(reverted', db')
        BY <2>1, <2>2 DEF DbOK, Good
    <2>5. \A y : Served(db, y) => Served(db', y)
        BY <2>1 DEF Served
    <2> QED
        BY <2>1, <2>2, <2>3, <2>4, <2>5
<1>4. \/ UNCHANGED <<db, muhash, reverted>>
      \/ \E x \in Blocks :
            /\ OnChain(x, old)
            /\ db' = RewindCopy(db, old, new)
            /\ ReverseAsserts(db', muhash, old, x)
            /\ muhash' = Reversed(muhash, old, x)
            /\ reverted' \in {reverted \/ x # old, TRUE}
    BY DEF RewindFails
<1> QED
    BY <1>1, <1>2, <1>3, <1>4

\* The sync thread rewinds to the parent of the block it will append.
LEMMA SyncRewindOK ==
    ASSUME IndexInv, SyncRewind
    PROVE  IndexInv'
<1> DEFINE new == Parent[pindex_next]
           d == RewindCopy(db, pindex, new)
           m == Reversed(muhash, pindex, new)
           Done == /\ muhash' = m /\ db' = Commit(d, new, m)
                   /\ m_best_block_index' = new /\ pc' = "append"
                   /\ UNCHANGED <<tip, known, flushed, queue, m_synced, m_interrupt, pindex,
                                  pindex_next, failures, reverted>>
<1>0. Types /\ Counted /\ DbOK(reverted, db) /\ pc = "have" /\ MustRewind /\ ~m_synced
    BY DEF IndexInv, SyncRewind, Types
<1>1. pindex \in Blocks /\ pindex_next \in Blocks /\ pindex_next # Genesis
      /\ new \in Blocks /\ new # pindex /\ new # Null
    BY <1>0, BaseIndexAssumption DEF Types, Counted, MustRewind
<1>2. \/ /\ RewindFails(pindex, new) /\ pc' = "off"
         /\ UNCHANGED <<tip, known, flushed, queue, m_synced, pindex, pindex_next>>
      \/ AssertionFails
      \/ RewindAsserts(pindex, new) /\ Done
    BY DEF SyncRewind, chain, bounds
<1> HIDE DEF Done
<1>3. CASE AssertionFails
    BY <1>3, AssertionFailsOK
<1>4. CASE /\ RewindFails(pindex, new) /\ pc' = "off"
           /\ UNCHANGED <<tip, known, flushed, queue, m_synced, pindex, pindex_next>>
    <2>1. Good(reverted, muhash, pindex)
        BY <1>0 DEF Counted, SyncPc
    <2>2. /\ DbOK(reverted', db') /\ db'.best = db.best /\ db'.muhash = db.muhash
          /\ muhash' \in Statistics /\ \A x : Served(db, x) => Served(db', x)
          /\ reverted' \in BOOLEAN /\ (reverted => reverted')
          /\ failures' \in Nat /\ m_interrupt' = TRUE
          /\ m_best_block_index' = m_best_block_index
        BY <1>1, <1>4, <2>1, RewindFailsOK
    <2>3. Types'
        BY <1>0, <1>4, <2>2 DEF Types
    <2>4. Counted'
        BY <1>0, <1>4, <2>2 DEF Counted, SyncPc
    <2>5. ASSUME ~reverted' PROVE Reached'
        BY <1>0, <1>4, <2>2, <2>5 DEF IndexInv, Reached, SyncPc
    <2> QED
        BY <2>2, <2>3, <2>4, <2>5 DEF IndexInv
<1>5. CASE RewindAsserts(pindex, new) /\ Done
    <2>1. /\ DbOK(reverted, d) /\ d.best = db.best /\ d.muhash = db.muhash
          /\ Good(reverted, m, new) /\ m \in Statistics
          /\ \A x : Served(db, x) => Served(d, x)
          /\ OnChain(new, pindex) /\ pindex = m_best_block_index
        BY <1>1, <1>5, RewindStep
    <2> HIDE DEF new, d, m
    <2>2. /\ DbOK(reverted, db') /\ db'.best = new /\ db'.muhash = m
          /\ \A c \in Blocks : LookUpOne(db', c) = LookUpOne(d, c)
        BY <1>1, <1>5, <2>1, CommitOK, SMTT(20) DEF Done
    <2>3. Types'
        BY <1>0, <1>1, <1>5, <2>1 DEF Types, Done
    <2>4. Counted'
        BY <1>0, <1>1, <1>5, <2>1, <2>2 DEF Counted, SyncPc, Good, Done, new
    <2>5. ASSUME ~reverted PROVE Reached'
        <3>1. Served(db, pindex)
            BY <1>0, <2>5 DEF IndexInv, Reached, SyncPc
        <3>2. Served(d, new)
            BY <1>1, <2>1, <3>1, ServedUpto DEF Upto
        <3>3. Served(db', new)
            BY <2>2, <3>2 DEF Served
        <3> QED
            BY <1>0, <1>5, <2>2, <3>3 DEF Reached, SyncPc, Done, new
    <2> QED
        BY <1>5, <2>2, <2>3, <2>4, <2>5 DEF IndexInv, Done
<1> QED
    BY <1>2, <1>3, <1>4, <1>5

\* Where the sync thread appends, it has the statistics of the block before.
LEMMA SyncAppendFrom ==
    ASSUME IndexInv, pc = "append" \/ (pc = "have" /\ ~MustRewind)
    PROVE  LET p == Before(pindex_next) IN
           /\ pindex_next \in Blocks /\ Good(reverted, muhash, p)
           /\ ~reverted => /\ Served(db, p) /\ Upto(m_best_block_index, p) /\ Upto(db.best, p)
<1> DEFINE p == Before(pindex_next)
<1>0. Types /\ Counted
    BY DEF IndexInv
<1>1. pindex_next \in Blocks /\ (pindex_next = Genesis <=> pindex = Null)
    BY <1>0 DEF Counted
<1>2. CASE pc = "append"
    <2>1. pindex_next # Genesis /\ Good(reverted, muhash, Parent[pindex_next])
          /\ p = Parent[pindex_next]
        BY <1>0, <1>2 DEF Counted, Before
    <2>2. p \in Blocks
        BY <1>1, <2>1, BaseIndexAssumption
    <2>3. Upto(p, p)
        BY <2>2, AncestorsClosed, NullApart DEF Upto, OnChain
    <2>4. ~reverted => Served(db, db.best) /\ m_best_block_index = p /\ db.best = p
        BY <1>2, <2>1 DEF IndexInv, Reached
    <2> QED
        BY <1>1, <2>1, <2>3, <2>4
<1>3. CASE pc = "have" /\ ~MustRewind
    <2>1. p = pindex
        BY <1>1, <1>3 DEF MustRewind, Before
    <2> QED
        BY <1>0, <1>1, <1>3, <2>1 DEF IndexInv, Counted, Reached, SyncPc
<1> QED
    BY <1>2, <1>3

\* A block is appended by the sync thread, with or without a commit.
LEMMA SyncAppendOK ==
    ASSUME IndexInv, NEW commit \in BOOLEAN, SyncAppend(commit)
    PROVE  IndexInv'
<1> DEFINE b == pindex_next
           e == CustomAppend(db, muhash, b)
           m == Appended(muhash, b)
<1>0. Types /\ Counted /\ DbOK(reverted, db) /\ ~m_synced
      /\ (pc = "append" \/ (pc = "have" /\ ~MustRewind))
    BY DEF IndexInv, SyncAppend, Types
<1>1. /\ b \in Blocks /\ Good(reverted, muhash, Before(b))
      /\ ~reverted => /\ Served(db, Before(b)) /\ Upto(m_best_block_index, Before(b))
                      /\ Upto(db.best, Before(b))
    BY <1>0, SyncAppendFrom
<1>2. /\ UNCHANGED <<tip, known, flushed, queue, m_synced, pindex_next, reverted>>
      /\ pindex' = b
    BY DEF SyncAppend, chain
<1>3. CASE /\ failures' \in {failures, failures + 1} /\ m_interrupt' = TRUE /\ pc' = "off"
           /\ UNCHANGED <<db, muhash, m_best_block_index>>
    <2>1. Types'
        BY <1>0, <1>1, <1>2, <1>3, SMTT(20) DEF Types
    <2> QED
        BY <1>2, <1>3, <2>1, Halted
<1>4. CASE /\ muhash' = m /\ pc' = "loop" /\ UNCHANGED m_interrupt
           /\ \/ m_best_block_index' = b /\ CommitTo(e, b, m)
              \/ db' = e /\ UNCHANGED <<m_best_block_index, failures>>
    <2>1. /\ DbOK(reverted, e) /\ e.best = db.best /\ e.muhash = db.muhash
          /\ Good(reverted, m, b)
          /\ Served(db, Before(b)) => Served(e, b)
          /\ \A x : Upto(x, Before(b)) => Upto(x, b)
        BY <1>0, <1>1, AppendStep
    <2> HIDE DEF e, m
    <2>2. m \in Statistics /\ b # Null
        BY <1>1, <2>1, NullApart DEF Good, Within
    <2>3. /\ DbOK(reverted, db') /\ failures' \in Nat
          /\ m_best_block_index' \in {m_best_block_index, b}
          /\ \/ db'.best = db.best /\ db'.muhash = db.muhash
             \/ db'.best = b /\ db'.muhash = m
          /\ \A c \in Blocks : LookUpOne(db', c) = LookUpOne(e, c)
        <3>1. CASE m_best_block_index' = b /\ CommitTo(e, b, m)
            BY <1>0, <1>1, <2>1, <2>2, <3>1, CommitToOK DEF Types
        <3>2. CASE db' = e /\ UNCHANGED <<m_best_block_index, failures>>
            BY <1>0, <2>1, <3>2 DEF Types
        <3> QED
            BY <1>4, <3>1, <3>2
    <2>4. Types'
        BY <1>0, <1>1, <1>2, <1>4, <2>2, <2>3 DEF Types
    <2>5. Counted'
        BY <1>0, <1>2, <1>4, <2>1, <2>2, <2>3 DEF Counted, SyncPc, Good
    <2>6. ASSUME ~reverted PROVE Reached'
        <3>1. Served(db', b)
            BY <1>1, <2>1, <2>3, <2>6 DEF Served
        <3>2. Upto(b, b)
            BY <1>1, <2>2, AncestorsClosed DEF Upto, OnChain
        <3>3. Upto(m_best_block_index', b) /\ Upto(db'.best, b)
            BY <1>1, <2>1, <2>3, <2>6, <3>2
        <3>4. Served(db', m_best_block_index') /\ Served(db', db'.best)
            BY <1>1, <3>1, <3>3, ServedUpto
        <3> QED
            BY <1>0, <1>2, <1>4, <3>1, <3>3, <3>4 DEF Reached, SyncPc
    <2> QED
        BY <1>2, <2>3, <2>4, <2>5, <2>6 DEF IndexInv
<1>5. ASSUME CustomAppendFails(db, pindex_next)
      PROVE  failures' \in {failures, failures + 1}
    BY <1>5 DEF CustomAppendFails
<1> QED
    BY <1>3, <1>4, <1>5 DEF SyncAppend, FatalError

-----------------------------------------------------------------------------
(* The callbacks. *)

\* BlockConnected, with the rewind before it if the block is not the next one.
LEMMA BlockConnectedOK ==
    ASSUME IndexInv, BlockConnected
    PROVE  IndexInv'
<1> DEFINE b == Head(queue).block
           old == m_best_block_index
           rewind == old # Null /\ (b = Genesis \/ Parent[b] # old)
           d == IF rewind THEN RewindCopy(db, old, Parent[b]) ELSE db
           m == IF rewind THEN Reversed(muhash, old, Parent[b]) ELSE muhash
           c == IF rewind THEN Commit(d, Parent[b], m) ELSE d
           p == Before(b)
           Taken == /\ queue' = Tail(queue)
                    /\ UNCHANGED <<tip, known, flushed, m_synced, pc, pindex, pindex_next>>
           Failed == rewind /\ b # Genesis /\ RewindFails(old, Parent[b])
           AppendFailed ==
               /\ CustomAppendFails(c, b) /\ m_interrupt' = TRUE
               /\ db' = c /\ muhash' = m
               /\ m_best_block_index' = (IF rewind THEN Parent[b] ELSE old)
               /\ reverted' = reverted
           Added ==
               /\ db' = CustomAppend(c, m, b) /\ muhash' = Appended(m, b)
               /\ m_best_block_index' = b
               /\ failures' = failures /\ m_interrupt' = m_interrupt /\ reverted' = reverted
<1>0. Types /\ Counted /\ DbOK(reverted, db) /\ Delivered("connected") /\ m_synced /\ Connects(b)
    BY DEF IndexInv, BlockConnected
<1>1. b \in Blocks /\ Tail(queue) \in Seq(Callback)
    <2>1. queue \in Seq(Callback) /\ queue # <<>>
        BY <1>0 DEF Types, Delivered
    <2>2. Head(queue) \in Callback /\ Tail(queue) \in Seq(Callback)
        BY <2>1
    <2> QED
        BY <2>2 DEF Callback
<1>2. /\ old \in Blocks \cup {Null}
      /\ old = Null => b = Genesis
      /\ old # Null /\ b # Genesis => OnChain(Parent[b], old) /\ Parent[b] \in Blocks
    BY <1>0, <1>1, BaseIndexAssumption DEF Types, Connects
<1>3. \/ AssertionFails
      \/ Failed /\ Taken
      \/ /\ rewind => b # Genesis /\ RewindAsserts(old, Parent[b])
         /\ AppendFailed \/ Added
         /\ Taken
    BY DEF BlockConnected, FatalError, chain, sync
<1>4. Upto(old, old)
    BY <1>2, AncestorsClosed, NullApart DEF Upto, OnChain
<1>5. /\ rewind => /\ d = RewindCopy(db, old, Parent[b])
                   /\ m = Reversed(muhash, old, Parent[b])
                   /\ c = Commit(d, Parent[b], m)
                   /\ old # Null /\ (b # Genesis => Parent[b] # old)
      /\ ~rewind => d = db /\ m = muhash /\ c = d
      /\ ~rewind /\ old # Null => b # Genesis /\ Parent[b] = old
    OBVIOUS
<1> HIDE DEF b, rewind, d, m, c, Failed, AppendFailed, Added
<1>6. CASE AssertionFails
    BY <1>6, AssertionFailsOK
<1>7. CASE /\ rewind => b # Genesis /\ RewindAsserts(old, Parent[b])
           /\ AppendFailed \/ Added
           /\ Taken
    <2>0. /\ p = IF rewind THEN Parent[b] ELSE old
          /\ p \in Blocks \cup {Null} /\ Upto(p, old)
        BY <1>2, <1>4, <1>5, <1>7 DEF Before, Upto
    <2> HIDE DEF p
    <2>1. /\ DbOK(reverted, d) /\ d.best = db.best /\ d.muhash = db.muhash
          /\ Good(reverted, m, p) /\ m \in Statistics
          /\ \A x : Served(db, x) => Served(d, x)
        <3>1. CASE rewind
            <4>1. old \in Blocks /\ Parent[b] \in Blocks /\ p = Parent[b]
                BY <1>2, <1>5, <1>7, <2>0, <3>1
            <4> QED
                BY <1>5, <1>7, <3>1, <4>1, RewindStep
        <3>2. CASE ~rewind
            BY <1>0, <1>5, <2>0, <3>2 DEF Counted, Types
        <3> QED
            BY <3>1, <3>2
    <2>2. /\ DbOK(reverted, c)
          /\ \/ c.best = db.best /\ c.muhash = db.muhash
             \/ p # Null /\ c.best = p /\ c.muhash = m
          /\ rewind => c.best = p
          /\ \A x : Served(db, x) => Served(c, x)
        <3>1. CASE rewind
            <4>1. p \in Blocks /\ p # Null /\ c = Commit(d, p, m)
                BY <1>2, <1>5, <1>7, <2>0, <3>1, NullApart
            <4>2. DbOK(reverted, c) /\ c.best = p /\ c.muhash = m
                  /\ \A x \in Blocks : LookUpOne(c, x) = LookUpOne(d, x)
                BY <2>1, <4>1, CommitOK, SMTT(20)
            <4> QED
                BY <2>1, <4>1, <4>2 DEF Served
        <3>2. CASE ~rewind
            BY <1>5, <2>1, <3>2
        <3> QED
            BY <3>1, <3>2
    <2>3. /\ c.best = Null => c.muhash = NoStats
          /\ ~reverted => c.muhash = Stats(c.best)
        BY <1>0, <2>1, <2>2 DEF Counted, Good
    <2>4. ASSUME ~reverted PROVE Served(c, p) /\ Upto(c.best, p)
        <3>1. Served(db, old) /\ Upto(db.best, old)
            BY <1>0, <2>4 DEF IndexInv, Reached
        <3>2. Served(c, p)
            BY <1>2, <2>0, <2>2, <3>1, ServedUpto
        <3>3. Upto(p, p)
            BY <2>0, AncestorsClosed, NullApart DEF Upto, OnChain
        <3>4. CASE rewind
            BY <2>2, <3>2, <3>3, <3>4
        <3>5. CASE ~rewind
            BY <1>5, <2>0, <2>1, <3>1, <3>2, <3>5
        <3> QED
            BY <3>4, <3>5
    <2>5. CASE AppendFailed
        <3>1. m_best_block_index' = p /\ failures' \in Nat
            BY <1>0, <2>0, <2>5, SMTT(20) DEF CustomAppendFails, Types, AppendFailed
        <3>2. Types'
            BY <1>0, <1>1, <1>7, <2>0, <2>1, <2>5, <3>1 DEF Types, AppendFailed
        <3>3. Counted'
            BY <1>0, <1>7, <2>1, <2>3, <2>5, <3>1 DEF Counted, Types, SyncPc, AppendFailed
        <3>4. ASSUME ~reverted PROVE Reached'
            <4>1. Served(c, c.best)
                BY <2>0, <2>4, <3>4, ServedUpto
            <4> QED
                BY <1>0, <1>7, <2>4, <2>5, <3>1, <3>4, <4>1 DEF Reached, Types, SyncPc, AppendFailed
        <3> QED
            BY <2>2, <2>5, <3>2, <3>3, <3>4 DEF IndexInv, AppendFailed
    <2>6. CASE Added
        <3>1. /\ DbOK(reverted, db') /\ db'.best = c.best /\ db'.muhash = c.muhash
              /\ Good(reverted, muhash', b)
              /\ Served(c, p) => Served(db', b)
              /\ \A x : Upto(x, p) => Upto(x, b)
            BY <1>1, <2>1, <2>2, <2>6, AppendStep, SMTT(20) DEF Added, p
        <3>2. Types'
            <4>1. muhash' \in Statistics
                BY <3>1 DEF Good, Within
            <4> QED
                BY <1>0, <1>1, <1>7, <2>6, <4>1 DEF Types, Added
        <3>3. Counted'
            BY <1>0, <1>7, <2>3, <2>6, <3>1 DEF Counted, Types, SyncPc, Added
        <3>4. ASSUME ~reverted PROVE Reached'
            <4>1. Served(db', b) /\ Upto(db'.best, b)
                BY <2>4, <3>1, <3>4
            <4>2. Served(db', db'.best)
                BY <1>1, <4>1, ServedUpto
            <4> QED
                BY <1>0, <1>7, <2>6, <4>1, <4>2 DEF Reached, Types, SyncPc, Added
        <3> QED
            BY <2>6, <3>1, <3>2, <3>3, <3>4 DEF IndexInv, Added
    <2> QED
        BY <1>7, <2>5, <2>6
<1>8. CASE Failed /\ Taken
    <2>1. old \in Blocks /\ Parent[b] \in Blocks /\ Good(reverted, muhash, old)
          /\ RewindFails(old, Parent[b])
        BY <1>0, <1>2, <1>5, <1>8 DEF Counted, Failed
    <2>2. /\ DbOK(reverted', db') /\ db'.best = db.best /\ db'.muhash = db.muhash
          /\ Good(reverted', muhash', old) /\ muhash' \in Statistics
          /\ \A x : Served(db, x) => Served(db', x)
          /\ reverted' \in BOOLEAN /\ (reverted => reverted')
          /\ failures' \in Nat /\ m_interrupt' = TRUE
          /\ m_best_block_index' = m_best_block_index
        BY <2>1, RewindFailsOK
    <2>3. Types'
        BY <1>0, <1>1, <1>8, <2>2 DEF Types
    <2>4. Counted'
        BY <1>0, <1>8, <2>2 DEF Counted, Types, SyncPc
    <2>5. ASSUME ~reverted' PROVE Reached'
        BY <1>0, <1>8, <2>2, <2>5 DEF IndexInv, Reached, Types, SyncPc
    <2> QED
        BY <2>2, <2>3, <2>4, <2>5 DEF IndexInv
<1> QED
    BY <1>3, <1>6, <1>7, <1>8

\* ChainStateFlushed commits what the callbacks have reached.
LEMMA ChainStateFlushedOK ==
    ASSUME IndexInv, ChainStateFlushed
    PROVE  IndexInv'
<1>0. Types /\ Counted /\ DbOK(reverted, db) /\ DbType(db)
    BY DEF IndexInv, DbOK
<1>1. UNCHANGED <<tip, known, flushed, m_best_block_index, m_synced, muhash, m_interrupt,
                  pc, pindex, pindex_next, reverted>>
      /\ queue # <<>> /\ queue' = Tail(queue)
    BY DEF ChainStateFlushed, Delivered, chain, sync
<1>2. queue' \in Seq(Callback)
    BY <1>0, <1>1, SMTT(20) DEF Types
<1>3. CASE UNCHANGED <<db, failures>>
    <2>1. Types'
        BY <1>0, <1>1, <1>2, <1>3 DEF Types
    <2> QED
        BY <1>1, <1>3, <2>1, Framed DEF index, sync
<1>4. CASE m_synced /\ CommitTo(db, m_best_block_index, muhash)
    <2>1. /\ DbOK(reverted, db') /\ failures' \in Nat
          /\ \/ db'.best = db.best /\ db'.muhash = db.muhash
             \/ /\ m_best_block_index # Null
                /\ db'.best = m_best_block_index /\ db'.muhash = muhash
          /\ \A c \in Blocks : LookUpOne(db', c) = LookUpOne(db, c)
        BY <1>0, <1>4, CommitToOK DEF Types
    <2>2. Types'
        BY <1>0, <1>1, <1>2, <2>1 DEF Types
    <2>3. pc' \in {"off", "aborted"} /\ Good(reverted, muhash, m_best_block_index)
        BY <1>0, <1>1, <1>4 DEF Types, Counted
    <2>4. Counted'
        BY <1>0, <1>1, <2>1, <2>3 DEF Counted, SyncPc, Good
    <2>5. ASSUME ~reverted PROVE Reached'
        <3>1. Served(db, m_best_block_index) /\ Served(db, db.best)
              /\ Upto(db.best, m_best_block_index)
            BY <1>4, <2>5 DEF IndexInv, Reached
        <3>2. \A x : Served(db, x) => Served(db', x)
            BY <2>1 DEF Served
        <3>3. Upto(m_best_block_index, m_best_block_index)
            BY <1>0, AncestorsClosed, NullApart DEF Types, Upto, OnChain
        <3>4. Served(db', db'.best) /\ Upto(db'.best, m_best_block_index)
            BY <2>1, <3>1, <3>2, <3>3
        <3> QED
            BY <1>1, <2>3, <3>1, <3>2, <3>4 DEF Reached, SyncPc
    <2> QED
        BY <1>1, <2>1, <2>2, <2>4, <2>5 DEF IndexInv
<1> QED
    BY <1>3, <1>4 DEF ChainStateFlushed

-----------------------------------------------------------------------------
\* The inductive invariant: entries are right for their blocks, statistics are
\* those of the block they are said to be of, and the locator and the best
\* block are behind what was appended.
THEOREM BaseIndexInvariant == Spec => []IndexInv
<1>1. Init => IndexInv
    BY InitIndex
<1>2. IndexInv /\ [Next]_vars => IndexInv'
    <2> SUFFICES ASSUME IndexInv, [Next]_vars PROVE IndexInv'
        OBVIOUS
    <2>1. CASE Next
        <3>1. CASE SyncStep
            BY <3>1, IndexInitOK, SyncNextOK, SyncCommitOK, SyncRecheckOK, SyncRewindOK,
               SyncAppendOK DEF SyncStep
        <3>2. CASE Deliver
            BY <3>2, OtherOK, BlockConnectedOK, ChainStateFlushedOK, AssertionFailsOK
               DEF Deliver, FlushedNullBest
        <3>3. CASE AskNullBest
            BY <3>3, AssertionFailsOK DEF AskNullBest
        <3>4. CASE Crash
            BY <3>4, CrashOK
        <3> QED
            BY <2>1, <3>1, <3>2, <3>3, <3>4, OtherOK DEF Next
    <2>2. CASE UNCHANGED vars
        <3>1. Types'
            BY <2>2 DEF IndexInv, Types, vars, chain, index, sync, bounds
        <3> QED
            BY <2>2, <3>1, Framed DEF vars, bounds
    <2> QED
        BY <2>1, <2>2
<1> QED
    BY <1>1, <1>2, PTL DEF Spec

\* For any blocks and heights, any reorganizations, crashes, failing commits and
\* orders of callbacks, the entries up to the best block, in memory and on disk,
\* are those of its chain, short of a commit that failed in Rewind, and the
\* statistics committed are those of the locator's entry.
THEOREM BaseIndexServesChain == Spec => []IndexServesChain
<1>1. IndexInv => IndexServesChain
    <2> SUFFICES ASSUME IndexInv PROVE IndexServesChain
        OBVIOUS
    <2>1. DbOK(reverted, db) /\ DbType(db) /\ Types
        BY DEF IndexInv, DbOK
    <2>2. TypeOK
        BY <2>1 DEF Types, TypeOK, DbType, Statistics
    <2>3. ASSUME ~reverted
          PROVE  /\ \A b \in Blocks : OnChain(b, db.best) \/ OnChain(b, m_best_block_index)
                       => LookUpOne(db, b) = Stats(b)
                 /\ db.best # Null => LookUpOne(db, db.best) = db.muhash
        <3>1. Served(db, db.best) /\ Served(db, m_best_block_index)
              /\ db.muhash = Stats(db.best)
            BY <2>3 DEF IndexInv, Reached, Counted
        <3>2. \A b \in Blocks : LookUpOne(db, b) # Null => LookUpOne(db, b) = Stats(b)
            BY <2>1, <2>3, LookUpGood DEF Good
        <3>3. db.best # Null => db.best \in Blocks /\ OnChain(db.best, db.best)
            BY <2>1, AncestorsClosed DEF DbType, OnChain
        <3> QED
            BY <3>1, <3>2, <3>3 DEF Served
    <2> QED
        BY <2>2, <2>3 DEF IndexServesChain
<1> QED
    BY <1>1, BaseIndexInvariant, PTL

=============================================================================
