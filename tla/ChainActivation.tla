--------------------------- MODULE ChainActivation ---------------------------
(***************************************************************************)
(* The block index and the active chain of validation.cpp: headers and     *)
(* blocks arriving in any order, the candidate set, ActivateBestChain,     *)
(* InvalidateBlock, ReconsiderBlock, PreciousBlock, manual pruning, a      *)
(* shutdown in the middle of any of them and the reload of the index.      *)
(*                                                                         *)
(* Everything but m_chainstate_mutex is guarded by cs_main.  The variable  *)
(* bi is the block index: per-block flags, the sequence ids, m_blocks_     *)
(* unlinked, m_failed_blocks and setBlockIndexCandidates.  The thread that *)
(* holds m_chainstate_mutex is in pc: "abc" and "inv" are the points where *)
(* ActivateBestChain and InvalidateBlock have cs_main released and other   *)
(* threads run, "inner" is the loop under cs_main.                         *)
(*                                                                         *)
(* Every block carries the same work, so nChainWork is the height.  One    *)
(* block per block file.  m_best_invalid feeds a warning only and is left  *)
(* out.  The assumeutxo (snapshot) chainstate is left out.                 *)
(***************************************************************************)
EXTENDS Integers, Sequences, FiniteSets, SequencesExt

CONSTANTS
    Blocks, Genesis,
    Parent,         \* the parent of each block but Genesis
    Addr,           \* the order of the CBlockIndex addresses
    MinBlocksToKeep,
    MaxRpc,         \* operator calls (invalidate, reconsider, precious, prune)
    MayBeBad,       \* the blocks that may break a consensus rule
    MaxRestart,
    Null

ASSUME ChainAssumption ==
    /\ Genesis \in Blocks /\ Null \notin Blocks
    /\ Parent \in [Blocks \ {Genesis} -> Blocks]
    /\ Addr \in [Blocks -> Nat]
    /\ MinBlocksToKeep \in Nat \ {0}
    /\ MayBeBad \subseteq Blocks \ {Genesis}
    /\ {MaxRpc, MaxRestart} \subseteq Nat

VARIABLES
    bi,             \* the block index, see TypeOK
    tip,            \* m_chain.Tip()
    bestHeader,     \* m_best_header
    pc,             \* the holder of m_chainstate_mutex
    mostWork,       \* pindexMostWork
    starting,       \* starting_tip
    moved,          \* blocks_connected
    target,         \* InvalidateBlock's pindex
    toMark,         \* to_mark_failed
    byWork,         \* candidate_blocks_by_work
    calls,          \* an ActivateBestChain call waits for the mutex
    interrupted,    \* m_interrupt: set by a shutdown or a fatal error
    quality,        \* what each block's contents are worth, fixed
    rpcs, restarts,
    irregular       \* ghost: PartialReset or Rekeyed has happened

vars == <<bi, tip, bestHeader, pc, mostWork, starting, moved, target, toMark,
          byWork, calls, interrupted, quality, rpcs, restarts,
          irregular>>

control == <<pc, mostWork, starting, moved, target, toMark, byWork>>
limits  == <<interrupted, quality, restarts>>

TREE == 2
TRANSACTIONS == 3
SCRIPTS == 5

Height[b \in Blocks] == IF b = Genesis THEN 0 ELSE 1 + Height[Parent[b]]
Path[b \in Blocks] == IF b = Genesis THEN {b} ELSE {b} \cup Path[Parent[b]]

Descends(d, b) == b \in Path[d]
Chain(t) == Path[t]

\* m_chain.FindFork
Fork(a, b) ==
    CHOOSE f \in Path[a] \cap Path[b] :
        \A x \in Path[a] \cap Path[b] : Height[x] <= Height[f]

------------------------------------------------------------------------------
(* The block index                                                         *)

Failed(s) == s.failedValid \cup s.failedChild

IsValid(s, b, upTo) == b \notin Failed(s) /\ s.level[b] >= upTo

\* CBlockIndexWorkComparator: a sorts before b.
Worse(s, a, b) ==
    \/ Height[a] < Height[b]
    \/ /\ Height[a] = Height[b]
       /\ \/ s.seq[a] > s.seq[b]
          \/ s.seq[a] = s.seq[b] /\ Addr[a] > Addr[b]

\* A block the code may put in the candidate set.
Eligible(s, b) == IsValid(s, b, TRANSACTIONS) /\ b \in s.linked

RaiseValidity(s, b, upTo) ==
    [s EXCEPT !.level[b] = IF b \notin Failed(s) /\ @ < upTo THEN upTo ELSE @]

TryAddBlockIndexCandidate(s, t, b) ==
    IF Worse(s, b, t) THEN s ELSE [s EXCEPT !.candidates = @ \cup {b}]

PruneBlockIndexCandidates(s, t) ==
    [s EXCEPT !.candidates = {b \in @ : ~Worse(s, b, t)}]

AddToBlockIndex(s, b) == [s EXCEPT !.index = @ \cup {b}, !.level[b] = TREE]

\* Unblocked_Self: the blocks that waited for b are forgotten.
Unblocked_Self(s, b) == {b}

\* The blocks that receiving b's data links: b and those that waited for it.
Unblocked(s, b) ==
    {b} \cup {d \in s.unlinked :
                Descends(d, b) /\ Path[d] \ Path[b] \subseteq s.unlinked}

\* The orders in which the queue of ReceivedBlockTransactions can take them:
\* breadth first, siblings in the order they arrived.
LinkOrders(s, b) ==
    {o \in SetToSeqs(Unblocked(s, b)) :
        \A i, j \in DOMAIN o : i < j => Height[o[i]] <= Height[o[j]]}

LinkOne(t, s, b) ==
    TryAddBlockIndexCandidate(
        [s EXCEPT !.linked = @ \cup {b}, !.seq[b] = s.nextSeq, !.nextSeq = @ + 1,
                  !.unlinked = @ \ {b}],
        t, b)

ReceivedBlockTransactions(s, t, b, order) ==
    LET got == RaiseValidity([s EXCEPT !.data = @ \cup {b}, !.seen = @ \cup {b},
                                       !.newest = b],
                             b, TRANSACTIONS)
    IN  IF b = Genesis \/ Parent[b] \in s.linked
        THEN FoldLeft(LAMBDA u, x : LinkOne(t, u, x), got, order)
        ELSE [got EXCEPT !.unlinked =
                 IF IsValid(s, Parent[b], TREE) THEN @ \cup {b} ELSE @]

SetBlockFailureFlags(s, b) ==
    [s EXCEPT !.failedChild =
        @ \cup {d \in s.index : Descends(d, b) /\ d \notin Failed(s)}]

\* RecalculateBestHeader_Tip: only the active chain is considered.
RecalculateBestHeader_Tip(s, t) == {t}

\* A tie between headers depends on the order of the hash map.
RecalculateBestHeader(s, t) ==
    LET better == {h \in s.index : h \notin Failed(s) /\ Height[h] > Height[t]}
    IN  IF better = {} THEN {t}
        ELSE {h \in better : \A k \in better : Height[k] <= Height[h]}

\* The best headers InvalidChainFound may leave, s being its block index.
HeaderAfterInvalid(s, t, b) ==
    IF Descends(bestHeader, b) THEN RecalculateBestHeader(s, t) ELSE {bestHeader}

\* InvalidBlockFound for b, then InvalidChainFound for the branch it is on.
InvalidBlockFound(s, b) ==
    SetBlockFailureFlags(
        [s EXCEPT !.failedValid = @ \cup {b}, !.failed = @ \cup {b},
                  !.candidates = @ \ {b}],
        b)

------------------------------------------------------------------------------
(* Headers and blocks                                                      *)

\* The failed blocks AcceptBlockHeader finds below a new header's parent.
FailedAncestors(s, b) ==
    IF IsValid(s, Parent[b], SCRIPTS) THEN {} ELSE s.failed \cap Path[Parent[b]]

\* AcceptBlockHeader: the block index after it, and whether it accepts.
HeaderAccepted(s, b) ==
    \/ b \in s.index /\ b \notin Failed(s)
    \/ /\ b \notin s.index
       /\ Parent[b] \in s.index /\ Parent[b] \notin Failed(s)
       /\ FailedAncestors(s, b) = {}

AcceptBlockHeader(s, b) ==
    IF b \in s.index \/ Parent[b] \notin s.index \/ Parent[b] \in Failed(s) THEN s
    ELSE IF FailedAncestors(s, b) = {} THEN AddToBlockIndex(s, b)
    ELSE LET f == CHOOSE x \in FailedAncestors(s, b) : TRUE
         IN  [s EXCEPT !.failedChild = @ \cup (Path[Parent[b]] \ Path[f])]

\* The best header once AcceptBlockHeader has left block index s.
HeaderAfterNew(s, b) ==
    IF b \in s.index \ bi.index /\ Height[b] > Height[bestHeader] THEN b
    ELSE bestHeader

\* cs_main is free and the node runs.
Unlocked == pc # "inner" /\ ~interrupted

ProcessNewBlockHeaders(b) ==
    /\ Unlocked
    /\ b \notin bi.index
    /\ Parent[b] \in bi.index \ Failed(bi)
    /\ bi' = AcceptBlockHeader(bi, b)
    /\ bestHeader' = HeaderAfterNew(bi', b)
    /\ UNCHANGED <<tip, control, calls, limits, rpcs, irregular>>

\* AcceptBlock goes on to check and store the block.
Wanted(b, requested) ==
    /\ b \notin bi.data
    /\ \/ requested
       \/ /\ b \notin bi.seen
          /\ Height[b] >= Height[tip]
          /\ Height[b] <= Height[tip] + MinBlocksToKeep

\* Ghost: a pruned block that is stored again gets a new sequence id while it
\* is in the candidate set, which is ordered by that id.
Rekeyed(s, u) == \E b \in s.candidates : u.seq[b] # s.seq[b]

\* ProcessNewBlock up to its call of ActivateBestChain.  A block that breaks
\* a contextual rule is marked and nothing is activated.
ProcessNewBlock(b, requested) ==
    /\ Unlocked
    /\ b \notin bi.data
    /\ HeaderAccepted(bi, b)
    /\ LET s == AcceptBlockHeader(bi, b)
           checked == Wanted(b, requested)
       IN  IF checked /\ quality[b] = "contextual"
           THEN /\ bi' = [s EXCEPT !.failedValid = @ \cup {b}]
                /\ calls' = calls
           ELSE /\ \E order \in LinkOrders(s, b) :
                     bi' = IF checked
                           THEN ReceivedBlockTransactions(s, tip, b, order)
                           ELSE s
                /\ calls' = TRUE
    /\ bestHeader' = HeaderAfterNew(bi', b)
    /\ irregular' = (irregular \/ Rekeyed(bi, bi'))
    /\ UNCHANGED <<tip, control, limits, rpcs>>

------------------------------------------------------------------------------
(* ActivateBestChain                                                       *)

\* The part of the path to candidate c that is not in the active chain.
Above(c, t) == Path[c] \ Path[t]

\* One round of FindMostWorkChain's loop for candidate c: the highest block
\* on the path that is failed or has no data takes those above it down.
Discard(s, t, c) ==
    LET unusable == {b \in Above(c, t) : b \in Failed(s) \/ b \notin s.data}
        first == CHOOSE b \in unusable :
                    \A x \in unusable : Height[x] <= Height[b]
        dropped == Path[c] \ Path[first]
    IN  IF unusable = {} THEN s
        ELSE [s EXCEPT
               !.failedChild = IF first \in Failed(s) THEN @ \cup dropped ELSE @,
               !.unlinked = IF first \in Failed(s) THEN @ ELSE @ \cup dropped,
               !.candidates = @ \ (dropped \cup {first})]

\* FindMostWorkChain takes the candidates from the best one down and stops
\* at the first whose path can be used.
FindMostWorkChain(s, t) ==
    LET order == SetToSortSeq(s.candidates, LAMBDA a, b : Worse(s, b, a))
        Try(r, c) ==
            IF r.found # Null \/ c \notin r.s.candidates THEN r
            ELSE LET u == Discard(r.s, t, c)
                 IN  [s |-> u, found |-> IF u = r.s THEN c ELSE Null]
    IN  FoldLeft(Try, [s |-> s, found |-> Null], order)

\* The blocks to connect from fork f to m, lowest first.
ToConnect(m, f) ==
    SetToSortSeq(Path[m] \ Path[f], LAMBDA a, b : Height[a] < Height[b])

\* ConnectTip stops the step at the first block that cannot be read, that is
\* invalid, or that makes the tip better than it was.
StopsAt(s, old, b) ==
    b \notin s.data \/ quality[b] # "good" \/ Height[b] > Height[old]

\* ActivateBestChainStep towards m: s is the block index, old the old tip.
\* "error" is a block that could not be read, to disconnect or to connect it;
\* "bad" is the block that was found invalid.
ActivateBestChainStep(s, old, m) ==
    LET f == Fork(old, m)
        stuck == (Path[old] \ Path[f]) \ s.data
        base == IF stuck = {} THEN f
                ELSE CHOOSE b \in stuck : \A x \in stuck : Height[x] <= Height[b]
        path == IF stuck = {} THEN ToConnect(m, f) ELSE <<>>
        n == SelectInSeq(path, LAMBDA b : StopsAt(s, old, b))
        unread == n # 0 /\ path[n] \notin s.data
        invalid == n # 0 /\ ~unread /\ quality[path[n]] # "good"
        joined == IF n = 0 THEN path
                  ELSE SubSeq(path, 1, IF unread \/ invalid THEN n - 1 ELSE n)
        t == IF joined = <<>> THEN base ELSE Last(joined)
        up == FoldLeft(LAMBDA u, b : RaiseValidity(u, b, SCRIPTS), s, joined)
        pruned == IF joined = <<>> THEN up ELSE PruneBlockIndexCandidates(up, t)
    IN  [s |-> IF invalid
               THEN SetBlockFailureFlags(InvalidBlockFound(pruned, path[n]), m)
               ELSE pruned,
         tip |-> t, error |-> stuck # {} \/ unread,
         bad |-> IF invalid THEN path[n] ELSE Null]

\* The mutex is taken, and cs_main for the first round.
Activate ==
    /\ pc \in {"free", "abc"}
    /\ pc = "free" => calls /\ mostWork = Null
    /\ pc' = "inner"
    /\ calls' = IF pc = "free" THEN FALSE ELSE calls
    /\ starting' = tip /\ moved' = FALSE
    /\ UNCHANGED <<bi, tip, bestHeader, mostWork, target, toMark, byWork,
                   limits, rpcs, irregular>>

\* Leaving the outer loop, or going round it with cs_main released between.
Release(more) ==
    /\ pc' = IF more THEN "abc" ELSE "free"
    /\ starting' = Null /\ moved' = FALSE

\* NextMostWork_Kept: the target is kept after a block of its was invalid.
NextMostWork_Kept(r, m) == m

\* An invalid block wipes the cached target.
NextMostWork(r, m) == IF r.bad # Null THEN Null ELSE m

\* BehindStart_Never: one step is taken under the lock whatever it led to.
BehindStart_Never(s, t) == FALSE

\* The inner loop goes on while the tip sorts before the one it started from.
BehindStart(s, t) == Worse(s, t, starting)

\* What the inner loop does with the result of a step towards m.
StepDone(r, m) ==
    /\ bi' = r.s /\ tip' = r.tip
    /\ \/ /\ r.error
          /\ Release(FALSE) /\ mostWork' = Null
          /\ interrupted' = TRUE
          /\ UNCHANGED bestHeader
       \/ /\ ~r.error
          /\ bestHeader' \in IF r.bad = Null THEN {bestHeader}
                             ELSE HeaderAfterInvalid(r.s, r.tip, r.bad)
          /\ \/ /\ BehindStart(r.s, r.tip)
                /\ pc' = "inner" /\ moved' = TRUE /\ starting' = starting
                /\ mostWork' = NextMostWork(r, m)
             \/ /\ ~BehindStart(r.s, r.tip)
                /\ LET more == r.tip # NextMostWork(r, m) /\ ~interrupted
                   IN  /\ Release(more)
                       /\ mostWork' = IF more THEN NextMostWork(r, m) ELSE Null
          /\ UNCHANGED interrupted

\* One round of the inner loop.
ActivateInner ==
    /\ pc = "inner"
    /\ \E found \in {IF mostWork = Null THEN FindMostWorkChain(bi, tip)
                    ELSE [s |-> bi, found |-> mostWork]} :
          \/ /\ found.found \in {Null, tip}
             /\ bi' = found.s
             /\ Release(moved /\ found.found = Null /\ ~interrupted)
             /\ mostWork' = Null
             /\ UNCHANGED <<tip, bestHeader, interrupted>>
          \/ /\ found.found \notin {Null, tip}
             /\ \E r \in {ActivateBestChainStep(found.s, tip, found.found)} :
                   StepDone(r, found.found)
    /\ UNCHANGED <<target, toMark, byWork, calls, quality, rpcs, restarts,
                   irregular>>

------------------------------------------------------------------------------
(* Operator calls                                                          *)

OperatorCall == Unlocked /\ rpcs < MaxRpc /\ rpcs' = rpcs + 1

\* InvalidateBlock: the candidates off the chain are collected once.
InvalidateStart(b) ==
    /\ OperatorCall
    /\ pc = "free"
    /\ b \in bi.index \ {Genesis}
    /\ pc' = "inv" /\ target' = b /\ toMark' = b
    /\ byWork' = {c \in bi.index \ Chain(tip) :
                    ~Worse(bi, c, Parent[b]) /\ Eligible(bi, c)}
    /\ UNCHANGED <<bi, tip, bestHeader, mostWork, starting, moved, calls, limits,
                   irregular>>

\* The flags of the block w the loop has just disconnected, and of the block
\* marked before it.
MarkDisconnected(s, w) ==
    LET demote == Parent[w] = toMark /\ toMark \in s.failedValid
    IN  [s EXCEPT
          !.failedValid = (@ \cup {w}) \ (IF demote THEN {toMark} ELSE {}),
          !.failedChild = @ \cup (IF demote THEN {toMark} ELSE {})]

\* One round of its loop: the tip is disconnected, marked and replaced by its
\* parent in the candidate set, with the branches that now match it.
InvalidateRound ==
    /\ pc = "inv" /\ ~interrupted
    /\ target \in Chain(tip)
    /\ IF tip \notin bi.data
       THEN /\ pc' = "free" /\ calls' = TRUE
            /\ target' = Null /\ toMark' = Null /\ byWork' = {}
            /\ UNCHANGED <<bi, tip>>
       ELSE LET t == Parent[tip]
                level == {c \in byWork : ~Worse(bi, c, t)}
            IN  /\ tip' = t
                /\ bi' = [MarkDisconnected(bi, tip) EXCEPT !.candidates =
                             (@ \ {tip}) \cup {t} \cup level]
                /\ byWork' = byWork \ level
                /\ toMark' = tip
                /\ UNCHANGED <<pc, calls, target>>
    /\ UNCHANGED <<bestHeader, mostWork, starting, moved, limits, rpcs,
                   irregular>>

\* MissingCandidates_None: the candidates collected at the start are trusted.
MissingCandidates_None(s) == {}

\* The blocks that arrived while cs_main was released.
MissingCandidates(s) == {b \in s.index : Eligible(s, b) /\ ~Worse(s, b, tip)}

\* After the loop: the last disconnected block, or the block itself when it
\* was not in the chain, is marked and the candidates are completed.
InvalidateEnd ==
    /\ pc = "inv"
    /\ interrupted \/ target \notin Chain(tip)
    /\ pc' = "free" /\ calls' = TRUE
    /\ target' = Null /\ toMark' = Null /\ byWork' = {}
    /\ IF toMark \in Chain(tip)
       THEN UNCHANGED <<bi, bestHeader>>
       ELSE LET s == [bi EXCEPT !.failedValid = @ \cup {toMark},
                                !.failed = @ \cup {toMark},
                                !.candidates = @ \ {toMark}]
            IN  /\ bi' = SetBlockFailureFlags(
                            [s EXCEPT !.candidates = @ \cup MissingCandidates(s)],
                            toMark)
                /\ bestHeader' \in HeaderAfterInvalid(bi', tip, toMark)
    /\ UNCHANGED <<tip, mostWork, starting, moved, limits, rpcs, irregular>>

\* ResetBlockFailureFlags_KeepsFailed: m_failed_blocks is left as it was.
ResetBlockFailureFlags_KeepsFailed(s, b) ==
    LET cleared == Path[b] \cup {d \in s.index : Descends(d, b)}
    IN  [s EXCEPT !.failedValid = @ \ cleared, !.failedChild = @ \ cleared]

\* b, its descendants and its ancestors are cleared.  Only b
\* and its descendants are put back in the candidate set.
ResetBlockFailureFlags(s, b) ==
    LET below == {d \in s.index : Descends(d, b) /\ d \in Failed(s)}
        cleared == below \cup Path[b]
        u == [s EXCEPT !.failedValid = @ \ cleared, !.failedChild = @ \ cleared,
                       !.failed = @ \ (below \cup (Path[b] \cap Failed(s)))]
    IN  [u EXCEPT !.candidates =
            @ \cup {d \in below : Eligible(u, d) /\ Worse(s, tip, d)}]

\* Ghost: the flag of a block above b is cleared, or of a block whose data was
\* refused, and what those flags kept out of the index's sets stays out.
PartialReset(b) ==
    \/ (Path[b] \ {b}) \cap Failed(bi) # {}
    \/ \E d \in bi.failedValid \ bi.seen : Descends(d, b)

ReconsiderBlock(b) ==
    /\ OperatorCall
    /\ b \in bi.index
    /\ bi' = ResetBlockFailureFlags(bi, b)
    /\ bestHeader' \in RecalculateBestHeader(bi', tip)
    /\ calls' = TRUE
    /\ irregular' = (irregular \/ PartialReset(b))
    /\ UNCHANGED <<tip, control, limits>>

PreciousBlock(b) ==
    /\ OperatorCall
    /\ b \in bi.index
    /\ Height[b] >= Height[tip]
    /\ LET rev == IF Height[tip] > bi.lastPrecious THEN -1 ELSE bi.reverseSeq
           s == [bi EXCEPT !.lastPrecious = Height[tip], !.seq[b] = rev,
                           !.reverseSeq = rev - 1, !.candidates = @ \ {b}]
       IN  bi' = IF Eligible(s, b)
                 THEN PruneBlockIndexCandidates(
                         [s EXCEPT !.candidates = @ \cup {b}], tip)
                 ELSE s
    /\ calls' = TRUE
    /\ UNCHANGED <<tip, bestHeader, control, limits, irregular>>

\* pruneblockchain: the files up to height h, but for the one being written,
\* lose their blocks.
PruneBlockFilesManual(h) ==
    LET gone == {b \in bi.data \ {bi.newest} : Height[b] <= h}
    IN  /\ OperatorCall
        /\ gone # {}
        /\ bi' = [bi EXCEPT !.data = @ \ gone, !.unlinked = @ \ gone]
        /\ UNCHANGED <<tip, bestHeader, control, calls, limits, irregular>>

------------------------------------------------------------------------------
(* Shutdown and start                                                      *)

Interrupt ==
    /\ restarts < MaxRestart /\ ~interrupted
    /\ pc # "inner"
    /\ interrupted' = TRUE
    /\ UNCHANGED <<bi, tip, bestHeader, control, calls, quality, rpcs, restarts,
                   irregular>>

\* LoadBlockIndex of the block manager: m_chain_tx_count is not stored.
Relinked(s) == {b \in s.seen : Path[b] \subseteq s.seen}

\* LoadBlockIndex of both managers and LoadChainTip, then ImportBlocks calls
\* ActivateBestChain.
LoadBlockIndex(s, t) ==
    LET linked == Relinked(s)
        u == [s EXCEPT
               !.seq = [b \in Blocks |-> 0], !.nextSeq = 1, !.reverseSeq = -1,
               !.lastPrecious = 0, !.failed = {}, !.linked = linked,
               !.unlinked = s.seen \ linked,
               !.failedChild = @ \cup {b \in s.index \ Failed(s) :
                                         Path[b] \cap Failed(s) # {}}]
    IN  PruneBlockIndexCandidates(
            [u EXCEPT !.candidates = {b \in u.index : Eligible(u, b)}], t)

Restart ==
    /\ interrupted /\ pc = "free" /\ ~calls /\ restarts < MaxRestart
    /\ bi' = LoadBlockIndex(bi, tip)
    /\ bestHeader' = CHOOSE h \in bi'.index \ Failed(bi') :
                        \A k \in bi'.index \ Failed(bi') : ~Worse(bi', h, k)
    /\ interrupted' = FALSE /\ restarts' = restarts + 1
    /\ calls' = TRUE
    /\ UNCHANGED <<tip, control, quality, rpcs, irregular>>

\* Nothing left to do.
Rest ==
    /\ pc = "free" /\ ~calls
    /\ UNCHANGED vars

------------------------------------------------------------------------------
Only(b, x, y) == [c \in Blocks |-> IF c = b THEN x ELSE y]

Init ==
    /\ bi = [index |-> {Genesis}, data |-> {Genesis}, seen |-> {Genesis},
             linked |-> {Genesis}, level |-> Only(Genesis, SCRIPTS, 0),
             failedValid |-> {}, failedChild |-> {}, failed |-> {},
             unlinked |-> {}, candidates |-> {Genesis}, newest |-> Genesis,
             seq |-> Only(Genesis, 1, 0), nextSeq |-> 2, reverseSeq |-> -1,
             lastPrecious |-> 0]
    /\ tip = Genesis /\ bestHeader = Genesis
    /\ pc = "free" /\ mostWork = Null /\ starting = Null /\ moved = FALSE
    /\ target = Null /\ toMark = Null /\ byWork = {}
    /\ calls = FALSE /\ interrupted = FALSE
    /\ \E bad \in [MayBeBad -> {"good", "contextual", "connect"}] :
          quality = [b \in Blocks |-> IF b \in MayBeBad THEN bad[b] ELSE "good"]
    /\ rpcs = 0 /\ restarts = 0
    /\ irregular = FALSE

Environment ==
    \/ \E b \in Blocks \ {Genesis} :
          \/ ProcessNewBlockHeaders(b)
          \/ \E requested \in BOOLEAN : ProcessNewBlock(b, requested)
          \/ InvalidateStart(b)
          \/ ReconsiderBlock(b)
          \/ PreciousBlock(b)
    \/ \E h \in 1..(Height[tip] - MinBlocksToKeep) : PruneBlockFilesManual(h)
    \/ Interrupt

Node == Activate \/ ActivateInner \/ InvalidateRound \/ InvalidateEnd \/ Restart

Next == Environment \/ Node \/ Rest

\* Weak fairness of Node, its enabling condition written out: a thread that
\* holds or waits for the mutex, or a stopped node that starts again.
NodeEnabled ==
    pc # "free" \/ calls \/ (interrupted /\ restarts < MaxRestart)

Fairness == <>[]NodeEnabled => []<><<Node>>_vars

Spec == Init /\ [][Next]_vars /\ Fairness

------------------------------------------------------------------------------
(* Properties                                                              *)

\* The variables have the types their C++ counterparts give them.
TypeOK ==
    /\ bi.index \subseteq Blocks
    /\ bi.data \subseteq bi.seen /\ bi.seen \subseteq bi.index
    /\ bi.level \in [Blocks -> {0, TREE, TRANSACTIONS, SCRIPTS}]
    /\ bi.failed \subseteq bi.index /\ Failed(bi) \subseteq bi.index
    /\ bi.candidates \subseteq bi.index /\ bi.unlinked \subseteq bi.index
    /\ tip \in bi.index /\ bestHeader \in bi.index
    /\ pc \in {"free", "abc", "inner", "inv"}
    /\ mostWork \in bi.index \cup {Null}
    /\ {calls, interrupted, moved} \subseteq BOOLEAN

\* All of b's ancestors, b included, are stored.
Available(b) == Path[b] \subseteq bi.data

\* No block on the path to b is known or marked to be invalid.
Clean(b) == Path[b] \cap Failed(bi) = {}

\* CheckBlockIndex: a block counts as linked (m_chain_tx_count) exactly when it
\* and all its ancestors have been received at some time, in whatever order, and
\* a stored block that waits for an ancestor, below no invalid block, is found
\* from m_blocks_unlinked.
LinkedExactly ==
    /\ TypeOK
    /\ bi.linked = {b \in bi.seen : Path[b] \subseteq bi.seen}
    /\ ~irregular => \A b \in bi.data \ bi.linked : Clean(b) => b \in bi.unlinked

\* CheckBlockIndex: nothing in the candidate set is worse than the tip or waits
\* for a block that was never received; and, but for the middle of an
\* invalidation, a block that is as good as the tip, stored with all its
\* ancestors and below no invalid block is a candidate.
CandidatesExact ==
    ~interrupted /\ ~irregular =>
        /\ pc # "inner" =>
              /\ tip \in bi.candidates
              /\ \A b \in bi.candidates : b \in bi.linked /\ ~Worse(bi, b, tip)
        /\ pc \in {"free", "abc"} =>
              \A b \in bi.index :
                  Available(b) /\ Clean(b) /\ ~Worse(bi, b, tip) => b \in bi.candidates

\* Whatever InvalidateBlock and ReconsiderBlock did to the flags, every block of
\* m_failed_blocks is BLOCK_FAILED_VALID (the assertion of AcceptBlockHeader), no
\* block of the active chain is marked, and a marked block has an ancestor, or
\* is a block, that was itself found invalid (CheckBlockIndex).
FailureFlagsSound ==
    /\ bi.failed \subseteq bi.failedValid
    /\ Chain(tip) \cap Failed(bi) = {}
    /\ ~irregular => \A b \in Failed(bi) : Path[b] \cap bi.failedValid # {}

\* At rest the node is on a chain that no stored, unmarked chain beats.
AtRestBest ==
    pc = "free" /\ ~calls /\ ~interrupted /\ ~irregular =>
        \A b \in bi.index : Available(b) /\ Clean(b) => ~Worse(bi, tip, b)

\* No header that is not marked invalid has more work than m_best_header.
BestHeaderLeads ==
    pc # "inner" =>
        \A h \in bi.index \ Failed(bi) : Height[h] <= Height[bestHeader]

\* ActivateBestChain: "We absolutely may not unlock cs_main until we've made
\* forward progress": the tip it leaves is not worse than the one it found,
\* unless a block could not be read.
ForwardProgress ==
    [][pc = "inner" /\ pc' # "inner" /\ ~interrupted' =>
          ~Worse(bi', tip', starting)]_vars

\* A call of ActivateBestChain ends, and none stays waiting.
Settles == calls ~> (pc = "free" /\ ~calls)

\* InvalidateBlock, validation.cpp: "We only want to mark the last disconnected
\* block as BLOCK_FAILED_VALID; its children need to be BLOCK_FAILED_CHILD
\* instead": when the parent of the block marked before is disconnected in its
\* turn, that block is demoted.
InvalidateDemotes ==
    [][pc = "inv" /\ tip' # tip /\ Parent[toMark] = tip
         => toMark \in bi'.failedChild \ bi'.failedValid]_vars

=============================================================================
