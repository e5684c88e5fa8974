----------------------------- MODULE TxDownload -----------------------------
(***************************************************************************)
(* TxDownloadManagerImpl (node/txdownloadman_impl.cpp) with the tracker of *)
(* TxRequest and the orphanage (txorphanage.cpp) inside it, driven the way *)
(* net_processing.cpp drives it: the message handling thread serves the    *)
(* peers one message at a time, blocks arrive on another thread, and what  *)
(* they mean for the manager is told it later, in order.                   *)
(*                                                                         *)
(* A transaction is its two hashes (equal if it has no witness) and the    *)
(* outputs it spends, an output being named by its transaction's txid.     *)
(* Validation is a verdict: whether transactions without a missing input   *)
(* are accepted is fixed at the start.  The rolling filters are sets.      *)
(***************************************************************************)
EXTENDS TxRequest, Sequences, Functions

CONSTANTS
    Txs, Txid, Wtxid,   \* transactions and their hashes
    Spends,             \* the txids of the outputs each one spends
    BadWitness,         \* transactions whose scripts fail
    Judged,             \* transactions the verdict is about
    Preferred, WtxidRelay, RelayPermission,     \* peers, by connection info
    Honest, Has,        \* peers that answer, and what they have
    MAX_PEER_TX_ANNOUNCEMENTS, MAX_PEER_TX_REQUEST_IN_FLIGHT, m_max_orphan_txs,
    BlocksFor, MaxEvents            \* bounds: the verdicts blocks come with, and
                                    \* how many blocks come or peers leave

ASSUME TxDownloadAssumption ==
    /\ IsFiniteSet(Txs)
    /\ Txid \in [Txs -> Hashes] /\ Wtxid \in [Txs -> Hashes]
    /\ Honest \subseteq Peers
    /\ m_max_orphan_txs \in Nat

VARIABLES
    connected,          \* m_peer_info
    d,                  \* tracker, orphanage and filters
    mempool, chain,     \* transactions in the mempool, blocks of the chain
    invalidating,       \* blocks a running InvalidateBlock has disconnected
    signals,            \* BlockConnected and BlockDisconnected, not yet delivered
    asked,              \* getdata sent to the honest peers, not yet answered
    verdict,            \* on Judged: valid, pays too little alone or even with a
                        \* child, or spends nonstandard inputs
    passedOver,         \* orphans nobody was told about (see ReadyOrphanQueued)
    blocks, leaves

counts == <<blocks, leaves>>
vars == <<connected, d, mempool, chain, invalidating, signals, asked, verdict,
          passedOver, counts>>

HasWitness(t) == Txid[t] # Wtxid[t]
Both(t) == {Txid[t], Wtxid[t]}
Txids(S) == {Txid[t] : t \in S}
Confirmed == UNION Range(chain)

Init ==
    /\ connected = {}
    /\ d = [tracker |-> [h \in Hashes |-> Nobody],
            orphans |-> [t \in {} |-> {}],              \* -> announcers
            work |-> [p \in Peers |-> {}],              \* m_work_set
            rejects |-> {}, reconsiderable |-> {}, packages |-> {}, confirmed |-> {}]
    /\ mempool = {} /\ chain = <<>> /\ invalidating = 0 /\ signals = <<>>
    /\ asked = [p \in Honest |-> {}]
    /\ verdict \in {"valid", "with child", "too little", "nonstandard"}
    /\ passedOver = {}
    /\ blocks = 0 /\ leaves = 0

-----------------------------------------------------------------------------
(* TxOrphanage *)

Orphans(s) == DOMAIN s.orphans
WithOrphans(s, f) == [s EXCEPT !.orphans = f]

\* AddTx and AddAnnouncer, for a transaction of standard weight.
AddAnnouncers(s, t, peers) ==
    IF peers = {} THEN s
    ELSE WithOrphans(s, [o \in Orphans(s) \cup {t} |->
                            (IF o \in Orphans(s) THEN s.orphans[o] ELSE {})
                                \cup (IF o = t THEN peers ELSE {})])

\* The work sets may go on naming it.
EraseTx(s, t) == WithOrphans(s, Restrict(s.orphans, Orphans(s) \ {t}))

\* EraseForPeer_Keeps: an orphan stays when its last announcer leaves.
EraseForPeer_Keeps(s, p) ==
    [WithOrphans(s, [o \in Orphans(s) |-> s.orphans[o] \ {p}])
        EXCEPT !.work[p] = {}]

EraseForPeer(s, p) ==
    [WithOrphans(s, [o \in {o \in Orphans(s) : s.orphans[o] # {p}} |-> s.orphans[o] \ {p}])
        EXCEPT !.work[p] = {}]

EraseForBlock(s, B) ==
    WithOrphans(s, Restrict(s.orphans, {o \in Orphans(s) :
        \A t \in B : Spends[o] \cap Spends[t] = {}}))

\* LimitOrphans, after t came in: others may expire, and random ones go while
\* there are too many.
LimitOrphans(s, t) ==
    {WithOrphans(s, Restrict(s.orphans, K)) :
        K \in {K \in SUBSET Orphans(s) :
                  /\ Cardinality(K) <= m_max_orphan_txs
                  /\ t \in Orphans(s) \ K => Cardinality(K) = m_max_orphan_txs}}

Children(s, t) == {o \in Orphans(s) : Txid[t] \in Spends[o]}

\* AddChildrenToWorkSet_None: nobody is told that a parent arrived.
AddChildrenToWorkSet_None(s, t) == {s}

\* Every child goes to the work set of one of its announcers.
AddChildrenToWorkSet(s, t) ==
    {[s EXCEPT !.work = [p \in Peers |-> @[p] \cup {o \in Children(s, t) : to[o] = p}]] :
        to \in {to \in [Children(s, t) -> Peers] :
                   \A o \in Children(s, t) : to[o] \in s.orphans[o]}}

-----------------------------------------------------------------------------
(* TxDownloadManagerImpl *)

\* CTxMemPool::exists, by wtxid or by txid.
Exists(h, wtxid) == \E t \in mempool : h = IF wtxid THEN Wtxid[t] ELSE Txid[t]

AlreadyHaveTx(s, h, wtxid, include_reconsiderable) ==
    \/ \E o \in Orphans(s) : Wtxid[o] = h
    \/ include_reconsiderable /\ h \in s.reconsiderable
    \/ h \in s.confirmed \cup s.rejects
    \/ Exists(h, wtxid)

Count(s, p) == Cardinality({h \in Hashes : ~In(s.tracker[h], p, {"NONE"})})
CountInFlight(s, p) == Cardinality({h \in Hashes : In(s.tracker[h], p, {"REQUESTED"})})

\* An announcement without delay is due at once.
NoDelay(s, p, wtxid) ==
    /\ p \in Preferred
    /\ wtxid \/ connected \cap WtxidRelay = {}
    /\ p \in RelayPermission \/ CountInFlight(s, p) < MAX_PEER_TX_REQUEST_IN_FLIGHT

Announced(s, peers, hs, wtxid) ==
    [s EXCEPT !.tracker = [h \in Hashes |-> [p \in Peers |->
        IF h \in hs /\ p \in peers THEN ReceivedInv(@[h][p], NoDelay(s, p, wtxid), wtxid)
        ELSE @[h][p]]]]

ForgetTxHashes(s, hs) ==
    [s EXCEPT !.tracker = [h \in Hashes |-> IF h \in hs THEN Nobody ELSE @[h]]]

MissingParents(s, t) == {h \in Spends[t] : ~AlreadyHaveTx(s, h, FALSE, FALSE)}

\* MaybeAddOrphanResolutionCandidate.
Candidate(s, t, p) ==
    /\ p \in connected
    /\ t \in Orphans(s) => p \notin s.orphans[t]
    /\ \/ p \in RelayPermission
       \/ Count(s, p) + Cardinality(MissingParents(s, t)) <= MAX_PEER_TX_ANNOUNCEMENTS

\* Those of peers that are candidates are asked for the parents of t and are
\* its announcers.
Resolve(s, t, peers) ==
    LET ps == {p \in peers : Candidate(s, t, p)}
    IN  AddAnnouncers(Announced(s, ps, MissingParents(s, t), FALSE), t, ps)

AddTxAnnouncement(s, p, h) ==
    LET wtxid == p \in WtxidRelay
        orphan == {o \in Orphans(s) : wtxid /\ Wtxid[o] = h}
    IN  IF orphan # {}
          THEN LET o == CHOOSE o \in orphan : TRUE
               IN  IF MissingParents(s, o) = {} THEN s ELSE Resolve(s, o, {p})
        ELSE IF \/ AlreadyHaveTx(s, h, wtxid, TRUE)
                \/ p \notin RelayPermission /\ Count(s, p) >= MAX_PEER_TX_ANNOUNCEMENTS
          THEN s
        ELSE Announced(s, {p}, {h}, wtxid)

\* GetRequestable, and for what it returns RequestedTx or ForgetTxHash.
Requestable(s, p) == {h \in Hashes : In(SetTimePoint(h, s.tracker[h]), p, {"CANDIDATE_BEST"})}

Requests(s, p) ==
    {h \in Requestable(s, p) : ~AlreadyHaveTx(s, h, s.tracker[h][p].wtxid, FALSE)}

GetRequestsToSend(s, p) ==
    [s EXCEPT !.tracker = [h \in Hashes |->
        IF h \in Requests(s, p) THEN RequestedTx(SetTimePoint(h, @[h]), p)
        ELSE IF h \in Requestable(s, p) THEN Nobody
        ELSE SetTimePoint(h, @[h])]]

\* The children of t an announcer of which is p, not yet tried with t.
Find1P1CPackage(s, t, p) ==
    {c \in Children(s, t) :
        /\ p \in s.orphans[c]
        /\ {Wtxid[t], Wtxid[c]} \notin s.packages
        /\ Txid[c] \notin s.rejects}

MempoolAcceptedTx(s, t) ==
    {EraseTx(w, t) : w \in AddChildrenToWorkSet(ForgetTxHashes(s, Both(t)), t)}

\* Too many parents were rejected for t ever to come in with one of them.
RejectedParents(s, t) ==
    \/ Spends[t] \cap s.rejects # {}
    \/ Cardinality({h \in Spends[t] \cap s.reconsiderable : ~Exists(h, FALSE)}) > 1

\* MissingInputs_Sender: the other announcers are not asked for the parents.
MissingInputs_Sender(s, t, p) ==
    IF RejectedParents(s, t)
      THEN {ForgetTxHashes([s EXCEPT !.rejects = @ \cup Both(t)], Both(t))}
    ELSE LimitOrphans(ForgetTxHashes(Resolve(s, t, {p}), Both(t)), t)

MissingInputs(s, t, p) ==
    IF RejectedParents(s, t)
      THEN {ForgetTxHashes([s EXCEPT !.rejects = @ \cup Both(t)], Both(t))}
    ELSE LET peers == {p} \cup UNION {GetCandidatePeers(s.tracker[h]) : h \in Both(t)}
         IN  LimitOrphans(ForgetTxHashes(Resolve(s, t, peers), Both(t)), t)

\* Failures other than missing inputs and a stripped witness.
NotAccepted(s, t, result) ==
    LET hs == IF result = "nonstandard" THEN Both(t) ELSE {Wtxid[t]}
        f == IF result = "reconsiderable" THEN [s EXCEPT !.reconsiderable = @ \cup hs]
             ELSE [s EXCEPT !.rejects = @ \cup hs]
    IN  EraseTx(ForgetTxHashes(f, hs), t)

\* MempoolRejectedTx_Stripped: a stripped transaction is rejected as others are.
MempoolRejectedTx_Stripped(s, t, result, p, first_time_failure) ==
    IF result # "missing" THEN {NotAccepted(s, t, result)}
    ELSE IF first_time_failure /\ Wtxid[t] \notin s.rejects THEN MissingInputs(s, t, p)
    ELSE {s}

MempoolRejectedTx(s, t, result, p, first_time_failure) ==
    CASE result = "missing" ->
            IF first_time_failure /\ Wtxid[t] \notin s.rejects THEN MissingInputs(s, t, p)
            ELSE {s}
      [] result = "stripped" -> {EraseTx(s, t)}
      [] OTHER -> {NotAccepted(s, t, result)}

-----------------------------------------------------------------------------
(* Validation: what AcceptToMemoryPool and AcceptPackage may say.          *)

Spendable == Txids(mempool \cup Confirmed)

Scripts(t) ==
    IF t \notin BadWitness THEN "valid" ELSE IF HasWitness(t) THEN "invalid" ELSE "stripped"

\* Whether inputs that are gone were spent by t itself is seen only while the
\* outputs of t are in the coins cache.
Result(t) ==
    IF Exists(Txid[t], FALSE) THEN {"conflict"}
    ELSE IF Txid[t] \in Txids(Confirmed) THEN {"conflict", "missing"}
    ELSE IF ~(Spends[t] \subseteq Spendable) THEN {"missing"}
    ELSE IF t \in Judged /\ verdict = "nonstandard" THEN {"nonstandard"}
    ELSE IF t \in Judged /\ verdict # "valid" THEN {"reconsiderable"}
    ELSE {Scripts(t)}

\* Coins of the chain itself, which a confirmed transaction has spent.
CoinsFor(c) == IF Txid[c] \in Txids(Confirmed) THEN {} ELSE Txids(Confirmed)

\* Of a parent and its child, whose other inputs must be in the chain; "none"
\* where there is no result.
PackageResult(t, c) ==
    IF ~(Spends[c] \subseteq CoinsFor(c) \cup {Txid[t]}) THEN {<<"none", "none">>}
    ELSE IF Exists(Txid[t], FALSE) THEN {"conflict"} \X Result(c)
    ELSE IF Result(t) # {"reconsiderable"} THEN Result(t) \X {"missing"}
    ELSE IF verdict = "too little" THEN {<<"reconsiderable", "reconsiderable">>}
    ELSE IF t \in BadWitness THEN {<<Scripts(t), "missing">>}
    ELSE IF c \in BadWitness THEN {<<"reconsiderable", Scripts(c)>>}
    ELSE {<<"valid", "valid">>}

-----------------------------------------------------------------------------
(* net_processing.cpp *)

\* ProcessValidTx and ProcessInvalidTx of what was tried before.
Processed(s, t, result, p) ==
    CASE result = "none" -> {s}
      [] result = "valid" -> MempoolAcceptedTx(s, t)
      [] OTHER -> MempoolRejectedTx(s, t, result, p, FALSE)

\* The child first.
ProcessPackageResult(s, t, c, res, p) ==
    LET f == IF res[2] = "valid" THEN s     \* else MempoolRejectedPackage
             ELSE [s EXCEPT !.packages = @ \cup {{Wtxid[t], Wtxid[c]}}]
    IN  UNION {Processed(g, t, res[1], p) : g \in Processed(f, c, res[2], p)}

Entered(t, c, res) ==
    mempool \cup {u \in {t, c} : res[IF u = t THEN 1 ELSE 2] = "valid"}

\* <<manager, mempool>> after a reconsiderable t is tried with a child.
TryPackage(s, t, p) ==
    IF Find1P1CPackage(s, t, p) = {} THEN {<<s, mempool>>}
    ELSE UNION {UNION {ProcessPackageResult(s, t, c, res, p) \X {Entered(t, c, res)} :
                          res \in PackageResult(t, c)} : c \in Find1P1CPackage(s, t, p)}

TryTx(s, t, p, result) ==
    IF result = "valid" THEN MempoolAcceptedTx(s, t) \X {mempool \cup {t}}
    ELSE UNION {IF result = "reconsiderable" THEN TryPackage(f, t, p) ELSE {<<f, mempool>>} :
                  f \in MempoolRejectedTx(s, t, result, p, TRUE)}

\* ReceivedTx and what follows from its answer.
Answered(s, p, t) ==
    [s EXCEPT !.tracker = [h \in Hashes |->
        IF h \in Both(t) THEN ReceivedResponse(h, @[h], p) ELSE @[h]]]

TryReceived(s, t, p) ==
    IF AlreadyHaveTx(s, Wtxid[t], TRUE, FALSE) THEN {<<s, mempool>>}
    ELSE IF Wtxid[t] \in s.reconsiderable THEN TryPackage(s, t, p)
    ELSE UNION {TryTx(s, t, p, result) : result \in Result(t)}

\* Every action leaves a manager s; lost are orphans it should have queued.
Becoming(s, lost) == d' = s /\ passedOver' = (passedOver \cup lost) \cap Orphans(s)

\* A peer's messages wait while it has orphans to process.
Listening(p) == p \in connected /\ d.work[p] = {}

\* VERACK.
ConnectedPeer(p) ==
    /\ p \notin connected
    /\ connected' = connected \cup {p}
    /\ UNCHANGED <<d, mempool, chain, invalidating, signals, asked, verdict, passedOver, counts>>

\* FinalizeNode.
FinalizeNode(p) ==
    /\ p \in connected \ Honest /\ blocks + leaves < MaxEvents
    /\ connected' = connected \ {p}
    /\ leaves' = leaves + 1
    /\ Becoming([EraseForPeer(d, p) EXCEPT !.tracker =
                    [h \in Hashes |-> DisconnectedPeer(h, @[h], p)]], d.work[p])
    /\ UNCHANGED <<mempool, chain, invalidating, signals, asked, verdict, blocks>>

\* INV.
Inv(p, t) ==
    /\ Listening(p)
    /\ p \in Honest => t \in Has[p]
    /\ Becoming(AddTxAnnouncement(d, p, IF p \in WtxidRelay THEN Wtxid[t] ELSE Txid[t]), {})
    /\ UNCHANGED <<connected, mempool, chain, invalidating, signals, asked, verdict, counts>>

\* SendMessages, the getdata for transactions.
SendMessages(p) ==
    /\ p \in connected
    /\ asked' = [q \in Honest |-> asked[q] \cup IF q = p THEN Requests(d, p) ELSE {}]
    /\ Becoming(GetRequestsToSend(d, p), {})
    /\ UNCHANGED <<connected, mempool, chain, invalidating, signals, verdict, counts>>

\* TX.  An honest peer sends what it is asked for, others what they like.
Tx(p, t) ==
    /\ Listening(p)
    /\ p \in Honest => t \in Has[p] /\ asked[p] \cap Both(t) # {}
    /\ asked' = [q \in Honest |-> IF q = p THEN asked[q] \ Both(t) ELSE asked[q]]
    /\ \E out \in TryReceived(Answered(d, p, t), t, p) :
          mempool' = out[2] /\ Becoming(out[1], {})
    /\ UNCHANGED <<connected, chain, invalidating, signals, verdict, counts>>

\* NOTFOUND.
ReceivedNotFound(p, h) ==
    /\ Listening(p) /\ p \notin Honest
    /\ Becoming([d EXCEPT !.tracker[h] = ReceivedResponse(h, @, p)], {})
    /\ UNCHANGED <<connected, mempool, chain, invalidating, signals, asked, verdict, counts>>

\* GetTxToReconsider passes over those no longer in the orphanage, and the
\* loop over those still missing inputs, until one is accepted or refused.
MayPass(o) == o \in Orphans(d) => "missing" \in Result(o)

ProcessOrphanTx(p) ==
    /\ p \in connected /\ d.work[p] # {}
    /\ \E over \in SUBSET {o \in d.work[p] : MayPass(o)} :
          \/ /\ over = d.work[p]
             /\ Becoming([d EXCEPT !.work[p] = {}], {})
             /\ UNCHANGED mempool
          \/ \E t \in (d.work[p] \ over) \cap Orphans(d) :
             \E result \in Result(t) \ {"missing"} :
             \E s \in Processed([d EXCEPT !.work[p] = @ \ (over \cup {t})], t, result, p) :
                /\ Becoming(s, {})
                /\ mempool' = IF result = "valid" THEN mempool \cup {t} ELSE mempool
    /\ UNCHANGED <<connected, chain, invalidating, signals, asked, verdict, counts>>

\* The reqtime or the expiry of an announcement comes.  Honest peers answer
\* before it does.
Pending(p, h) ==
    /\ Waiting(d.tracker[h], p) /\ ~d.tracker[h][p].due
    /\ In(d.tracker[h], p, {"REQUESTED"}) => p \notin Honest

TimePasses(p, h) ==
    /\ Pending(p, h)
    /\ d' = [d EXCEPT !.tracker[h][p].due = TRUE]
    /\ UNCHANGED <<connected, mempool, chain, invalidating, signals, asked, verdict, passedOver, counts>>

\* TxDownloadManagerImpl::ActiveTipChange.
TipChanged(s) == [s EXCEPT !.rejects = {}, !.reconsiderable = {}, !.packages = {}]

ChildrenOf(s, B) == UNION {Children(s, t) : t \in B}

\* ActivateBestChain, which fires ActiveTipChange before it releases cs_main.
ConnectTip(B) ==
    /\ verdict \in BlocksFor /\ blocks + leaves < MaxEvents /\ B # {} /\ B \cap BadWitness = {}
    /\ invalidating = 0
    /\ Txids(B) \cap Txids(Confirmed) = {}
    /\ \A t \in B : Spends[t] \subseteq Txids(B \cup Confirmed)
    /\ chain' = Append(chain, B) /\ blocks' = blocks + 1
    /\ mempool' = {t \in mempool : Txid[t] \notin Txids(B)}
    /\ signals' = Append(signals, [connected |-> TRUE, block |-> B])
    /\ Becoming(TipChanged(d), ChildrenOf(d, B))
    /\ UNCHANGED <<connected, invalidating, asked, verdict, leaves>>

\* Those of S that can stay in the mempool on this chain.
WithInputs(S, below) ==
    UNION {K \in SUBSET S : \A t \in K : Spends[t] \subseteq Txids(K \cup UNION Range(below))}

\* A round of InvalidateBlock's loop, between two of which cs_main is free.  The
\* transactions of ten blocks go back to the mempool, unless they are
\* nonstandard.
DisconnectTip ==
    LET tip == chain[Len(chain)]
        below == SubSeq(chain, 1, Len(chain) - 1)
        back == {t \in tip : invalidating < 10 /\ (t \in Judged => verdict # "nonstandard")}
    IN  /\ chain # <<>>
        /\ chain' = below
        /\ invalidating' = invalidating + 1
        /\ mempool' = WithInputs(mempool \cup back, below)
        /\ signals' = Append(signals, [connected |-> FALSE, block |-> tip])
        /\ Becoming(d, ChildrenOf(d, tip))
        /\ UNCHANGED <<connected, asked, verdict, counts>>

\* InvalidateBlock fires ActiveTipChange only after its loop, without cs_main.
ActiveTipChange ==
    /\ invalidating > 0
    /\ invalidating' = 0
    /\ Becoming(TipChanged(d), {})
    /\ UNCHANGED <<connected, mempool, chain, signals, asked, verdict, counts>>

BlockConnected(s, B) ==
    ForgetTxHashes([EraseForBlock(s, B) EXCEPT !.confirmed = @ \cup UNION {Both(t) : t \in B}],
                   UNION {Both(t) : t \in B})

BlockDisconnected(s) == [s EXCEPT !.confirmed = {}]

\* The signals, on the scheduler's thread.
DeliverSignal ==
    /\ signals # <<>>
    /\ signals' = Tail(signals)
    /\ Becoming(IF Head(signals).connected THEN BlockConnected(d, Head(signals).block)
                ELSE BlockDisconnected(d), {})
    /\ UNCHANGED <<connected, mempool, chain, invalidating, asked, verdict, counts>>

Next ==
    \/ \E p \in Peers :
          \/ ConnectedPeer(p) \/ FinalizeNode(p) \/ SendMessages(p) \/ ProcessOrphanTx(p)
          \/ \E t \in Txs : Inv(p, t) \/ Tx(p, t)
          \/ \E h \in Hashes : ReceivedNotFound(p, h) \/ TimePasses(p, h)
    \/ \E B \in SUBSET Txs : ConnectTip(B)
    \/ DisconnectTip \/ ActiveTipChange
    \/ DeliverSignal

\* SendMessages(p) would change nothing.
NothingToSend(p) ==
    \A h \in Hashes :
        /\ ~In(d.tracker[h], p, {"CANDIDATE_BEST"})
        /\ \A q \in Peers : ~(Waiting(d.tracker[h], q) /\ d.tracker[h][q].due)

\* The message handling thread serves every peer again and again, honest peers
\* answer, the clock goes on, the scheduler runs, and InvalidateBlock comes to
\* its end.  Each of these has nothing left to do once it has been done, a
\* bounded number of times for work sets and signals; weak fairness then says
\* that there is again and again nothing for it to do, the form stated here.
Fairness ==
    /\ \A p \in Peers :
          /\ []<>(p \in connected => NothingToSend(p))
          /\ []<>(p \in connected => d.work[p] = {})
          /\ \A h \in Hashes : []<>~Pending(p, h)
    /\ \A p \in Honest : \A t \in Has[p] : []<>~(Listening(p) /\ asked[p] \cap Both(t) # {})
    /\ []<>(signals = <<>>)
    /\ []<>(invalidating = 0)

Spec == Init /\ [][Next]_vars /\ Fairness

-----------------------------------------------------------------------------
(* Properties *)

\* Every variable keeps its type, and the orphanage its limit.
TypeOK ==
    /\ connected \subseteq Peers
    /\ d.tracker \in [Hashes -> Announcements]
    /\ Orphans(d) \subseteq Txs /\ Cardinality(Orphans(d)) <= m_max_orphan_txs
    /\ \A o \in Orphans(d) : d.orphans[o] \subseteq Peers
    /\ d.work \in [Peers -> SUBSET Txs]
    /\ d.rejects \cup d.reconsiderable \cup d.confirmed \subseteq Hashes
    /\ d.packages \subseteq SUBSET Hashes
    /\ mempool \subseteq Txs \ BadWitness
    /\ chain \in Seq(SUBSET Txs) /\ invalidating \in Nat
    /\ signals \in Seq([connected : BOOLEAN, block : SUBSET Txs])
    /\ asked \in [Honest -> SUBSET Hashes]
    /\ passedOver \subseteq Orphans(d)

\* The announcements of every hash are as TxRequestTracker's SanityCheck wants
\* them: one peer at most is selected or asked, the best one while none is
\* asked, and a hash is forgotten once all its announcements are completed.
TrackerSane == \A h \in Hashes : SaneFor(h, d.tracker[h])

\* The state has its types, the orphanage its limit, and CheckIsEmpty: nothing of
\* a peer is left once it has disconnected, and every orphan has an announcer
\* that is connected.
NothingLeftBehind ==
    /\ TypeOK
    /\ \A p \in Peers \ connected :
          d.work[p] = {} /\ \A h \in Hashes : d.tracker[h][p] = NoAnnouncement
    /\ \A o \in Orphans(d) : d.orphans[o] # {} /\ d.orphans[o] \subseteq connected

\* An orphan whose inputs are all there waits in the work set of some peer,
\* unless its parents came with a block or went back to the mempool with one,
\* or the peer chosen to process it has disconnected: of these the orphanage
\* does not learn, or forgets.
ReadyOrphanQueued ==
    \A o \in Orphans(d) \ passedOver :
        Spends[o] # {} /\ "missing" \notin Result(o) => \E p \in Peers : o \in d.work[p]

\* A transaction that can still be accepted, alone or with its child, is in the
\* reject filter under neither hash, whatever is received under the same txid:
\* its relay by txid goes on (MempoolRejectedTx).  Only until InvalidateBlock
\* fires ActiveTipChange may the filter be about another chain.
ValidNotRejected ==
    verdict \in {"valid", "with child"} /\ invalidating = 0 =>
        \A t \in Txs \ BadWitness : Txid[t] \notin Spendable => Both(t) \cap d.rejects = {}

\* A peer is asked for a hash once: after a request that it answered or let
\* time out its announcement is completed (ChangeAndReselect, SetTimePoint), and
\* stays so until the hash is forgotten altogether or the peer disconnects.
AskedOnce ==
    [][\A h \in Hashes : \A p \in connected \cap connected' :
          In(d.tracker[h], p, {"REQUESTED", "COMPLETED"}) =>
              \/ In(d'.tracker[h], p, {d.tracker[h][p].state, "COMPLETED"})
              \/ d'.tracker[h] = Nobody]_vars

Announcing(p, t) ==
    /\ \E h \in Both(t) : p \in NonCompleted(d.tracker[h])
    /\ verdict = "with child" \/ (verdict = "valid" /\ Spends[t] = {})

Arrived(t) ==
    IF verdict = "valid" THEN Txid[t] \in Spendable
    ELSE Spends[t] \subseteq Spendable \/ Spends[t] \cap d.reconsiderable # {}

\* What an honest peer announced arrives, whatever the others announce, send or
\* fail to send; and what pays too little alone arrives once an honest peer
\* announced a child that pays for it.  (Unless the same parent came without
\* its witness: its hash is then the txid the parent is asked for by, and
\* MempoolRejectedTx forgets who was to be asked.)
HonestArrives ==
    \A p \in Honest : \A t \in Has[p] : Announcing(p, t) ~> Arrived(t)

=============================================================================
