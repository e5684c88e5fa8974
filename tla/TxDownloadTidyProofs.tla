------------------------ MODULE TxDownloadTidyProofs ------------------------
(***************************************************************************)
(* Nothing of a peer is left behind once it has disconnected, and the      *)
(* orphanage keeps its limit, for any peers, transactions and limits: one  *)
(* lemma per operation, as in TxDownloadProofs, and an invariant on top of *)
(* the one there.                                                          *)
(***************************************************************************)
EXTENDS TxDownloadProofs

\* Provers and seconds for the steps that name no prover of their own.
USE ZenonT(10), SMTT(20)

-----------------------------------------------------------------------------
(* Nothing is left of a peer that has disconnected.  Tidy is about a manager
   whose peers are cs; Fewer says that no orphan came in, and Small that the
   orphanage keeps its limit. *)

Tidy(s, cs) ==
    /\ Orphans(s) \subseteq Txs
    /\ \A o \in Orphans(s) : s.orphans[o] # {} /\ s.orphans[o] \subseteq cs
    /\ s.work \in [Peers -> SUBSET Txs]
    /\ \A p \in Peers \ cs :
          s.work[p] = {} /\ \A h \in Hashes : s.tracker[h][p] = NoAnnouncement
    /\ s.rejects \subseteq Hashes /\ s.reconsiderable \subseteq Hashes
    /\ s.confirmed \subseteq Hashes /\ s.packages \subseteq SUBSET Hashes

Fewer(s, q) == Orphans(q) \subseteq Orphans(s)

Small(s) == Cardinality(Orphans(s)) <= m_max_orphan_txs

\* What changes only the orphans, to ones with connected announcers, is tidy.
LEMMA WithOrphansTidy ==
  ASSUME NEW s, Sane(s), NEW cs, Tidy(s, cs), NEW f, DOMAIN f \subseteq Txs,
         \A o \in DOMAIN f : f[o] # {} /\ f[o] \subseteq cs
  PROVE  Tidy(WithOrphans(s, f), cs) /\ Orphans(WithOrphans(s, f)) = DOMAIN f
<1> DEFINE q == WithOrphans(s, f)
<1>1. q.orphans = f /\ q.tracker = s.tracker /\ q.work = s.work /\ q.rejects = s.rejects
      /\ q.reconsiderable = s.reconsiderable /\ q.confirmed = s.confirmed
      /\ q.packages = s.packages
  BY DEF WithOrphans, Sane, Manager, Fields
<1> HIDE DEF q
<1>2. Tidy(q, cs) /\ Orphans(q) = DOMAIN f
  BY <1>1 DEF Tidy, Orphans
<1> QED
  BY <1>2 DEF q

\* Keeping some of the orphans is tidy.
LEMMA RestrictTidy ==
  ASSUME NEW s, Sane(s), NEW cs, Tidy(s, cs), NEW K, K \subseteq Orphans(s)
  PROVE  /\ Tidy(WithOrphans(s, Restrict(s.orphans, K)), cs)
         /\ Orphans(WithOrphans(s, Restrict(s.orphans, K))) = K
<1> DEFINE f == Restrict(s.orphans, K)
<1>1. DOMAIN f = K /\ \A o \in K : f[o] = s.orphans[o]
  BY DEF Restrict
<1> HIDE DEF f
<1>2. DOMAIN f \subseteq Txs /\ \A o \in DOMAIN f : f[o] # {} /\ f[o] \subseteq cs
  BY <1>1 DEF Tidy
<1>3. Tidy(WithOrphans(s, f), cs) /\ Orphans(WithOrphans(s, f)) = DOMAIN f
  BY <1>2, WithOrphansTidy
<1> QED
  BY <1>1, <1>3 DEF f

\* Erasing an orphan is tidy.
LEMMA EraseTxTidy ==
  ASSUME NEW s, Sane(s), NEW cs, Tidy(s, cs), NEW t
  PROVE  Tidy(EraseTx(s, t), cs) /\ Fewer(s, EraseTx(s, t))
<1> DEFINE K == Orphans(s) \ {t}
<1>1. EraseTx(s, t) = WithOrphans(s, Restrict(s.orphans, K)) /\ K \subseteq Orphans(s)
  BY DEF EraseTx
<1> HIDE DEF K
<1> QED
  BY <1>1, RestrictTidy, SMTT(20) DEF Fewer

\* Adding connected announcers is tidy.
LEMMA AddAnnouncersTidy ==
  ASSUME NEW s, Sane(s), NEW cs, Tidy(s, cs), NEW t \in Txs, NEW peers, peers \subseteq cs
  PROVE  Tidy(AddAnnouncers(s, t, peers), cs)
<1>1. CASE peers = {}
  BY <1>1 DEF AddAnnouncers
<1>2. CASE peers # {}
  <2> DEFINE f == [o \in Orphans(s) \cup {t} |->
                      (IF o \in Orphans(s) THEN s.orphans[o] ELSE {})
                          \cup (IF o = t THEN peers ELSE {})]
  <2>1. AddAnnouncers(s, t, peers) = WithOrphans(s, f)
    BY <1>2 DEF AddAnnouncers
  <2>2. DOMAIN f \subseteq Txs
    BY DEF Tidy
  <2>3. ASSUME NEW o \in DOMAIN f PROVE f[o] # {} /\ f[o] \subseteq cs
    BY <1>2 DEF Tidy
  <2> HIDE DEF f
  <2> QED
    BY <2>1, <2>2, <2>3, WithOrphansTidy
<1> QED
  BY <1>1, <1>2

\* Changing the work sets of connected peers is tidy.
LEMMA WithWorkTidy ==
  ASSUME NEW s, Sane(s), NEW cs, Tidy(s, cs), NEW w \in [Peers -> SUBSET Txs],
         \A p \in Peers \ cs : w[p] = {}
  PROVE  LET q == [s EXCEPT !.work = w] IN Tidy(q, cs) /\ Orphans(q) = Orphans(s)
<1> DEFINE q == [s EXCEPT !.work = w]
<1>1. q.orphans = s.orphans /\ q.tracker = s.tracker /\ q.work = w /\ q.rejects = s.rejects
      /\ q.reconsiderable = s.reconsiderable /\ q.confirmed = s.confirmed
      /\ q.packages = s.packages
  BY DEF Sane, Manager, Fields
<1> HIDE DEF q
<1>2. Tidy(q, cs) /\ Orphans(q) = Orphans(s)
  BY <1>1 DEF Tidy, Orphans
<1> QED
  BY <1>2 DEF q

\* Children go to the work sets of connected peers.
LEMMA AddChildrenToWorkSetTidy ==
  ASSUME NEW s, Sane(s), NEW cs, Tidy(s, cs), NEW t, NEW q \in AddChildrenToWorkSet(s, t)
  PROVE  Tidy(q, cs) /\ Orphans(q) = Orphans(s)
<1>1. PICK to \in [Children(s, t) -> Peers] :
        /\ \A o \in Children(s, t) : to[o] \in s.orphans[o]
        /\ q = [s EXCEPT !.work = [p \in Peers |-> @[p] \cup {o \in Children(s, t) : to[o] = p}]]
  BY DEF AddChildrenToWorkSet
<1> DEFINE w == [p \in Peers |-> s.work[p] \cup {o \in Children(s, t) : to[o] = p}]
<1>2. Children(s, t) \subseteq Txs /\ \A o \in Children(s, t) : to[o] \in cs
  BY <1>1 DEF Children, Tidy
<1>3. w \in [Peers -> SUBSET Txs]
  BY <1>2 DEF Tidy
<1>4. \A p \in Peers \ cs : w[p] = {}
  BY <1>2 DEF Tidy
<1>5. q = [s EXCEPT !.work = w]
  BY <1>1
<1> HIDE DEF w
<1> QED
  BY <1>3, <1>4, <1>5, WithWorkTidy

\* Hashes may be added to the filters.
LEMMA FiltersTidy ==
  ASSUME NEW s, Sane(s), NEW cs, Tidy(s, cs), NEW x, NEW q,
         \/ /\ x \subseteq Hashes
            /\ q \in {[s EXCEPT !.rejects = @ \cup x], [s EXCEPT !.reconsiderable = @ \cup x],
                      [s EXCEPT !.confirmed = @ \cup x]}
         \/ x \subseteq SUBSET Hashes /\ q = [s EXCEPT !.packages = @ \cup x]
  PROVE  Tidy(q, cs) /\ Orphans(q) = Orphans(s)
<1>1. q.orphans = s.orphans /\ q.tracker = s.tracker /\ q.work = s.work
  BY DEF Sane, Manager, Fields
<1>2. q.rejects \subseteq Hashes /\ q.reconsiderable \subseteq Hashes
      /\ q.confirmed \subseteq Hashes /\ q.packages \subseteq SUBSET Hashes
  <2>1. CASE x \subseteq Hashes /\ q = [s EXCEPT !.rejects = @ \cup x]
    BY <2>1 DEF Sane, Manager, Fields, Tidy
  <2>2. CASE x \subseteq Hashes /\ q = [s EXCEPT !.reconsiderable = @ \cup x]
    BY <2>2 DEF Sane, Manager, Fields, Tidy
  <2>3. CASE x \subseteq Hashes /\ q = [s EXCEPT !.confirmed = @ \cup x]
    BY <2>3 DEF Sane, Manager, Fields, Tidy
  <2>4. CASE x \subseteq SUBSET Hashes /\ q = [s EXCEPT !.packages = @ \cup x]
    BY <2>4 DEF Sane, Manager, Fields, Tidy
  <2> QED
    BY <2>1, <2>2, <2>3, <2>4
<1> QED
  BY <1>1, <1>2 DEF Tidy, Orphans

\* A tracker with no announcement of a disconnected peer is tidy.
LEMMA WithTrackerTidy ==
  ASSUME NEW s, Sane(s), NEW cs, Tidy(s, cs), NEW r,
         \A h \in Hashes : \A p \in Peers \ cs : r[h][p] = NoAnnouncement
  PROVE  LET q == [s EXCEPT !.tracker = r] IN Tidy(q, cs) /\ Orphans(q) = Orphans(s)
<1> DEFINE q == [s EXCEPT !.tracker = r]
<1>1. q.orphans = s.orphans /\ q.tracker = r /\ q.work = s.work /\ q.rejects = s.rejects
      /\ q.reconsiderable = s.reconsiderable /\ q.confirmed = s.confirmed
      /\ q.packages = s.packages
  BY DEF Sane, Manager, Fields
<1> HIDE DEF q
<1>2. Tidy(q, cs) /\ Orphans(q) = Orphans(s)
  BY <1>1 DEF Tidy, Orphans
<1> QED
  BY <1>2 DEF q

\* Forgetting hashes is tidy.
LEMMA ForgetTxHashesTidy ==
  ASSUME NEW s, Sane(s), NEW cs, Tidy(s, cs), NEW hs
  PROVE  Tidy(ForgetTxHashes(s, hs), cs) /\ Orphans(ForgetTxHashes(s, hs)) = Orphans(s)
<1> DEFINE r == [h \in Hashes |-> IF h \in hs THEN Nobody ELSE s.tracker[h]]
<1>1. \A h \in Hashes : \A p \in Peers \ cs : r[h][p] = NoAnnouncement
  BY DEF Tidy, Nobody
<1>2. ForgetTxHashes(s, hs) = [s EXCEPT !.tracker = r]
  BY DEF ForgetTxHashes
<1> HIDE DEF r
<1> QED
  BY <1>1, <1>2, WithTrackerTidy, SMTT(20)

\* Announcing for connected peers is tidy.
LEMMA AnnouncedTidy ==
  ASSUME NEW s, Sane(s), NEW cs, Tidy(s, cs), NEW peers, peers \subseteq cs, NEW hs,
         NEW wtxid \in BOOLEAN
  PROVE  /\ Tidy(Announced(s, peers, hs, wtxid), cs)
         /\ Orphans(Announced(s, peers, hs, wtxid)) = Orphans(s)
<1> DEFINE r == [h \in Hashes |-> [p \in Peers |->
                  IF h \in hs /\ p \in peers
                    THEN ReceivedInv(s.tracker[h][p], NoDelay(s, p, wtxid), wtxid)
                  ELSE s.tracker[h][p]]]
<1>1. \A h \in Hashes : \A p \in Peers \ cs : r[h][p] = NoAnnouncement
  BY DEF Tidy
<1>2. Announced(s, peers, hs, wtxid) = [s EXCEPT !.tracker = r]
  BY DEF Announced
<1> HIDE DEF r
<1> QED
  BY <1>1, <1>2, WithTrackerTidy, SMTT(20)

\* Orphan resolution asks connected peers only.
LEMMA ResolveTidy ==
  ASSUME NEW s, Sane(s), Tidy(s, connected), NEW t \in Txs, NEW peers
  PROVE  /\ Tidy(Resolve(s, t, peers), connected)
         /\ t \in Orphans(s) => Fewer(s, Resolve(s, t, peers))
<1> DEFINE ps == {x \in peers : Candidate(s, t, x)}
           hs == MissingParents(s, t)
           a == Announced(s, ps, hs, FALSE)
<1>1. ps \subseteq connected
  BY DEF Candidate
<1>2. Resolve(s, t, peers) = AddAnnouncers(a, t, ps)
  BY DEF Resolve
<1> HIDE DEF ps, hs
<1>3. Sane(a) /\ Tidy(a, connected) /\ Orphans(a) = Orphans(s)
  <2>1. ASSUME NEW w \in BOOLEAN
        PROVE  /\ Sane(Announced(s, ps, hs, w)) /\ Tidy(Announced(s, ps, hs, w), connected)
               /\ Orphans(Announced(s, ps, hs, w)) = Orphans(s)
    BY <1>1, AnnouncedSane, AnnouncedTidy
  <2> QED
    BY <2>1
<1> HIDE DEF a
<1>4. t \in Orphans(a) => Orphans(AddAnnouncers(a, t, ps)) = Orphans(a)
  BY <1>3 DEF AddAnnouncers, WithOrphans, Orphans, Sane, Manager, Fields
<1> QED
  BY <1>1, <1>2, <1>3, <1>4, AddAnnouncersTidy, SMTT(20) DEF Fewer

\* An accepted transaction leaves the manager tidy.
LEMMA MempoolAcceptedTxTidy ==
  ASSUME NEW s, Sane(s), NEW cs, Tidy(s, cs), NEW t, NEW q \in MempoolAcceptedTx(s, t)
  PROVE  Tidy(q, cs) /\ Fewer(s, q)
<1>1. PICK w \in AddChildrenToWorkSet(ForgetTxHashes(s, Both(t)), t) : q = EraseTx(w, t)
  BY DEF MempoolAcceptedTx
<1> DEFINE f == ForgetTxHashes(s, Both(t))
<1>2. Sane(f) /\ Tidy(f, cs) /\ Orphans(f) = Orphans(s)
  BY ForgetTxHashesSane, ForgetTxHashesTidy
<1>3. w \in AddChildrenToWorkSet(f, t)
  BY <1>1
<1> HIDE DEF f
<1>4. Sane(w) /\ Tidy(w, cs) /\ Orphans(w) = Orphans(s)
  BY <1>2, <1>3, AddChildrenToWorkSetSane, AddChildrenToWorkSetTidy
<1> QED
  BY <1>1, <1>4, EraseTxTidy DEF Fewer

\* A refused transaction leaves the manager tidy.
LEMMA NotAcceptedTidy ==
  ASSUME NEW s, Sane(s), NEW cs, Tidy(s, cs), NEW t \in Txs, NEW result
  PROVE  Tidy(NotAccepted(s, t, result), cs) /\ Fewer(s, NotAccepted(s, t, result))
<1> DEFINE hs == IF result = "nonstandard" THEN Both(t) ELSE {Wtxid[t]}
           f == IF result = "reconsiderable" THEN [s EXCEPT !.reconsiderable = @ \cup hs]
                ELSE [s EXCEPT !.rejects = @ \cup hs]
           g == ForgetTxHashes(f, hs)
<1>1. NotAccepted(s, t, result) = EraseTx(g, t)
  BY DEF NotAccepted
<1>2. hs \subseteq Hashes
  BY TxDownloadAssumption DEF Both
<1> HIDE DEF hs
<1>3. Sane(f) /\ Tidy(f, cs) /\ Orphans(f) = Orphans(s)
  <2> HIDE DEF f
  <2>1. Sane(f)
    BY FiltersSane DEF f
  <2>2. f \in {[s EXCEPT !.rejects = @ \cup hs], [s EXCEPT !.reconsiderable = @ \cup hs],
              [s EXCEPT !.confirmed = @ \cup hs]}
    BY DEF f
  <2> QED
    BY <1>2, <2>1, <2>2, FiltersTidy
<1> HIDE DEF f
<1>4. Sane(g) /\ Tidy(g, cs) /\ Orphans(g) = Orphans(s)
  BY <1>3, ForgetTxHashesSane, ForgetTxHashesTidy
<1> HIDE DEF g
<1> QED
  BY <1>1, <1>4, EraseTxTidy DEF Fewer

\* A new orphan leaves the manager tidy: it goes with its parents, or others go
\* until the limit is kept.
LEMMA MissingInputsTidy ==
  ASSUME NEW s, Sane(s), Tidy(s, connected), NEW t \in Txs, NEW p,
         NEW q \in MissingInputs(s, t, p)
  PROVE  /\ Tidy(q, connected)
         /\ Fewer(s, q) \/ Small(q)
<1> DEFINE peers == {p} \cup UNION {GetCandidatePeers(s.tracker[h]) : h \in Both(t)}
           r == [s EXCEPT !.rejects = @ \cup Both(t)]
<1>1. CASE RejectedParents(s, t)
  <2>1. q = ForgetTxHashes(r, Both(t))
    BY <1>1 DEF MissingInputs
  <2>2. Both(t) \subseteq Hashes
    BY TxDownloadAssumption DEF Both
  <2>3. Sane(r)
    BY FiltersSane
  <2>4. Tidy(r, connected) /\ Orphans(r) = Orphans(s)
    BY <2>2, FiltersTidy, SMTT(20)
  <2> HIDE DEF r
  <2> QED
    BY <2>1, <2>3, <2>4, ForgetTxHashesTidy DEF Fewer
<1>2. CASE ~RejectedParents(s, t)
  <2> DEFINE e == Resolve(s, t, peers)
             f == ForgetTxHashes(e, Both(t))
  <2>1. q \in LimitOrphans(f, t)
    BY <1>2 DEF MissingInputs
  <2> HIDE DEF peers
  <2>2. Sane(e) /\ Tidy(e, connected)
    BY ResolveSane, ResolveTidy
  <2> HIDE DEF e
  <2>3. Sane(f) /\ Tidy(f, connected)
    BY <2>2, ForgetTxHashesSane, ForgetTxHashesTidy
  <2> HIDE DEF f
  <2>4. PICK K \in SUBSET Orphans(f) :
          Cardinality(K) <= m_max_orphan_txs /\ q = WithOrphans(f, Restrict(f.orphans, K))
    BY <2>1 DEF LimitOrphans
  <2> QED
    BY <2>3, <2>4, RestrictTidy DEF Small
<1> QED
  BY <1>1, <1>2

\* The result of a transaction tried before leaves the manager tidy.
LEMMA ProcessedTidy ==
  ASSUME NEW s, Sane(s), NEW cs, Tidy(s, cs), NEW t \in Txs, NEW result, NEW p,
         NEW q \in Processed(s, t, result, p)
  PROVE  Tidy(q, cs) /\ Fewer(s, q)
<1>1. CASE result = "valid"
  BY <1>1, MempoolAcceptedTxTidy DEF Processed
<1>2. CASE result # "valid"
  <2>1. q \in {s, EraseTx(s, t), NotAccepted(s, t, result)}
    BY <1>2 DEF Processed, MempoolRejectedTx
  <2>2. Fewer(s, s)
    BY DEF Fewer
  <2> QED
    BY <2>1, <2>2, EraseTxTidy, NotAcceptedTidy
<1> QED
  BY <1>1, <1>2

\* Only transactions whose scripts pass are accepted.
LEMMA ValidScripts ==
  ASSUME NEW t, NEW c
  PROVE  /\ "valid" \in Result(t) => t \notin BadWitness
         /\ \A res \in PackageResult(t, c) :
               /\ res[1] = "valid" => t \notin BadWitness
               /\ res[2] = "valid" => c \notin BadWitness
<1>1. ASSUME NEW u, "valid" \in Result(u) PROVE u \notin BadWitness
  BY <1>1 DEF Result, Scripts
<1>2. ASSUME NEW u PROVE u \in BadWitness => Scripts(u) # "valid"
  BY DEF Scripts
<1>3. ASSUME NEW res \in PackageResult(t, c)
      PROVE  /\ res[1] = "valid" => t \notin BadWitness
             /\ res[2] = "valid" => c \notin BadWitness
  <2>1. CASE res \in {"conflict"} \X Result(c)
    BY <1>1, <2>1
  <2>2. CASE res \in Result(t) \X {"missing"}
    BY <1>1, <2>2
  <2>3. CASE res \in {<<"none", "none">>, <<"reconsiderable", "reconsiderable">>}
    BY <2>3
  <2>4. CASE t \in BadWitness /\ res = <<Scripts(t), "missing">>
    BY <1>2, <2>4
  <2>5. CASE t \notin BadWitness /\ c \in BadWitness /\ res = <<"reconsiderable", Scripts(c)>>
    BY <1>2, <2>5
  <2>6. CASE t \notin BadWitness /\ c \notin BadWitness
    BY <2>6
  <2> QED
    BY <2>1, <2>2, <2>3, <2>4, <2>5, <2>6 DEF PackageResult
<1> QED
  BY <1>1, <1>3

\* Trying a package leaves the manager tidy, and enters what passes.
LEMMA TryPackageTidy ==
  ASSUME NEW s, Sane(s), NEW cs, Tidy(s, cs), mempool \subseteq Txs \ BadWitness,
         NEW t \in Txs, NEW p, NEW out \in TryPackage(s, t, p)
  PROVE  Tidy(out[1], cs) /\ Fewer(s, out[1]) /\ out[2] \subseteq Txs \ BadWitness
<1>1. CASE out = <<s, mempool>>
  BY <1>1 DEF Fewer
<1>2. CASE out # <<s, mempool>>
  <2>1. PICK c \in Find1P1CPackage(s, t, p) : \E res \in PackageResult(t, c) :
          out \in ProcessPackageResult(s, t, c, res, p) \X {Entered(t, c, res)}
    BY <1>2, SMTT(20) DEF TryPackage
  <2>2. PICK res \in PackageResult(t, c) :
          out \in ProcessPackageResult(s, t, c, res, p) \X {Entered(t, c, res)}
    BY <2>1
  <2>3. c \in Txs
    BY DEF Find1P1CPackage, Children, Tidy
  <2>4. out[2] \subseteq Txs \ BadWitness
    <3>1. /\ res[1] = "valid" => t \notin BadWitness
          /\ res[2] = "valid" => c \notin BadWitness
      BY ValidScripts
    <3>2. out[2] = Entered(t, c, res)
      BY <2>2
    <3> QED
      BY <2>3, <3>1, <3>2 DEF Entered
  <2> DEFINE pkg == {{Wtxid[t], Wtxid[c]}}
             f == IF res[2] = "valid" THEN s ELSE [s EXCEPT !.packages = @ \cup pkg]
             q == out[1]
  <2>5. pkg \subseteq SUBSET Hashes
    BY <2>3, TxDownloadAssumption
  <2>6. q \in ProcessPackageResult(s, t, c, res, p)
    BY <2>2
  <2>7. PICK g \in Processed(f, c, res[2], p) : q \in Processed(g, t, res[1], p)
    BY <2>6 DEF ProcessPackageResult
  <2> HIDE DEF pkg, q
  <2>8. Sane(f) /\ Tidy(f, cs) /\ Orphans(f) = Orphans(s)
    <3> DEFINE k == [s EXCEPT !.packages = @ \cup pkg]
    <3>1. Sane(k) /\ Tidy(k, cs) /\ Orphans(k) = Orphans(s)
      BY <2>5, FiltersSane, FiltersTidy
    <3> HIDE DEF k
    <3>2. f \in {s, k}
      BY DEF k
    <3> QED
      BY <3>1, <3>2
  <2> HIDE DEF f
  <2>9. Sane(g) /\ Tidy(g, cs) /\ Fewer(f, g)
    BY <2>3, <2>8, ProcessedSane, ProcessedTidy
  <2>10. Tidy(q, cs) /\ Fewer(g, q)
    BY <2>7, <2>9, ProcessedTidy
  <2>11. Fewer(s, q)
    BY <2>8, <2>9, <2>10 DEF Fewer
  <2> QED
    BY <2>4, <2>10, <2>11 DEF q
<1> QED
  BY <1>1, <1>2

\* Selecting, completing and timing out announce nothing.
LEMMA SelectBestAbsent ==
  ASSUME NEW h \in Hashes, NEW a \in Announcements, NEW p \in Peers, a[p] = NoAnnouncement
  PROVE  SelectBest(h, a) \in Announcements /\ SelectBest(h, a)[p] = NoAnnouncement
<1>1. CASE Ready(a) = {}
  BY <1>1 DEF SelectBest
<1>2. CASE Ready(a) # {}
  <2> DEFINE b == Best(h, Ready(a))
  <2>1. b \in Ready(a) /\ b \in Peers
    BY <1>2, BestExists DEF Ready
  <2>2. b # p
    BY <2>1 DEF Ready, In, NoAnnouncement
  <2>3. SelectBest(h, a) = Becomes(a, b, "CANDIDATE_BEST")
    BY <1>2 DEF SelectBest
  <2> HIDE DEF b
  <2>4. Becomes(a, b, "CANDIDATE_BEST") \in Announcements
    BY <2>1, BecomesState DEF States
  <2> QED
    BY <2>2, <2>3, <2>4 DEF Becomes, Announcements
<1> QED
  BY <1>1, <1>2

\* Completing an announcement announces nothing.
LEMMA MakeCompletedAbsent ==
  ASSUME NEW h \in Hashes, NEW a \in Announcements, NEW p \in Peers, a[p] = NoAnnouncement,
         NEW q \in Peers
  PROVE  MakeCompleted(h, a, q)[p] = NoAnnouncement
<1> DEFINE b == IF q \in Selected(a) THEN SelectBest(h, a) ELSE a
<1>1. CASE MakeCompleted(h, a, q) \in {a, Nobody}
  BY <1>1 DEF Nobody
<1>2. CASE q \in NonCompleted(a) /\ MakeCompleted(h, a, q) = Becomes(b, q, "COMPLETED")
  <2>1. q # p
    BY <1>2 DEF NonCompleted, In, NoAnnouncement
  <2>2. b \in Announcements /\ b[p] = NoAnnouncement
    BY SelectBestAbsent
  <2> HIDE DEF b
  <2> QED
    BY <1>2, <2>1, <2>2 DEF Becomes, Announcements
<1> QED
  BY <1>1, <1>2 DEF MakeCompleted, ChangeAndReselect

\* The clock announces nothing.
LEMMA SetTimePointAbsent ==
  ASSUME NEW h \in Hashes, NEW a \in Announcements, NEW p \in Peers, a[p] = NoAnnouncement
  PROVE  SetTimePoint(h, a)[p] = NoAnnouncement
<1> DEFINE b == Passed(a)
<1>1. b \in Announcements
  BY SetType DEF Passed, Announcements, States
<1>2. b[p] = NoAnnouncement
  BY DEF Passed, In, NoAnnouncement
<1> HIDE DEF b
<1>3. SetTimePoint(h, a) \in {Nobody, b, SelectBest(h, b)}
  BY DEF SetTimePoint, b
<1> QED
  BY <1>1, <1>2, <1>3, SelectBestAbsent DEF Nobody

\* Requests go to peers that announced.
LEMMA GetRequestsToSendTidy ==
  ASSUME NEW s, Sane(s), NEW cs, Tidy(s, cs), NEW p \in Peers
  PROVE  /\ Tidy(GetRequestsToSend(s, p), cs)
         /\ Orphans(GetRequestsToSend(s, p)) = Orphans(s)
<1> DEFINE r == [g \in Hashes |->
                  IF g \in Requests(s, p) THEN RequestedTx(SetTimePoint(g, s.tracker[g]), p)
                  ELSE IF g \in Requestable(s, p) THEN Nobody
                  ELSE SetTimePoint(g, s.tracker[g])]
<1>1. ASSUME NEW h \in Hashes, NEW x \in Peers \ cs PROVE r[h][x] = NoAnnouncement
  <2> DEFINE b == SetTimePoint(h, s.tracker[h])
  <2>1. b \in Announcements /\ b[x] = NoAnnouncement
    BY SetTimePointSane, SetTimePointAbsent, SMTT(20) DEF Sane, Tidy
  <2>2. \/ r[h] \in {Nobody, b}
        \/ r[h] = RequestedTx(b, p) /\ In(b, p, {"CANDIDATE_BEST"})
    BY DEF Requests, Requestable
  <2> HIDE DEF r, b
  <2>3. In(b, p, {"CANDIDATE_BEST"}) => p # x
    BY <2>1 DEF In, NoAnnouncement
  <2>4. p # x => RequestedTx(b, p)[x] = NoAnnouncement
    BY <2>1 DEF RequestedTx, Becomes, Announcements
  <2> QED
    BY <2>1, <2>2, <2>3, <2>4 DEF Nobody
<1>2. GetRequestsToSend(s, p) = [s EXCEPT !.tracker = r]
  BY DEF GetRequestsToSend
<1> HIDE DEF r
<1> QED
  BY <1>1, <1>2, WithTrackerTidy, SMTT(20)

\* A response announces nothing.
LEMMA AnsweredTidy ==
  ASSUME NEW s, Sane(s), NEW cs, Tidy(s, cs), NEW p \in Peers, NEW t
  PROVE  Tidy(Answered(s, p, t), cs) /\ Orphans(Answered(s, p, t)) = Orphans(s)
<1> DEFINE r == [h \in Hashes |-> IF h \in Both(t) THEN ReceivedResponse(h, s.tracker[h], p)
                                 ELSE s.tracker[h]]
<1>1. ASSUME NEW h \in Hashes, NEW x \in Peers \ cs PROVE r[h][x] = NoAnnouncement
  BY MakeCompletedAbsent, SMTT(20) DEF Sane, Tidy, ReceivedResponse
<1>2. Answered(s, p, t) = [s EXCEPT !.tracker = r]
  BY DEF Answered
<1> HIDE DEF r
<1> QED
  BY <1>1, <1>2, WithTrackerTidy, SMTT(20)

\* Only the announcement of a connected peer is taken.
LEMMA AddTxAnnouncementTidy ==
  ASSUME NEW s, Sane(s), Tidy(s, connected), NEW p \in connected, NEW h
  PROVE  /\ Tidy(AddTxAnnouncement(s, p, h), connected)
         /\ Fewer(s, AddTxAnnouncement(s, p, h))
<1> DEFINE wtxid == p \in WtxidRelay
           orphan == {o \in Orphans(s) : wtxid /\ Wtxid[o] = h}
           o == CHOOSE o \in orphan : TRUE
<1>1. CASE orphan # {}
  <2>1. o \in Orphans(s) /\ o \in Txs
    BY <1>1 DEF Tidy
  <2>2. AddTxAnnouncement(s, p, h) \in {s, Resolve(s, o, {p})}
    BY <1>1 DEF AddTxAnnouncement
  <2> HIDE DEF o
  <2> QED
    BY <2>1, <2>2, ResolveTidy DEF Fewer
<1>2. CASE orphan = {}
  <2>1. AddTxAnnouncement(s, p, h) \in {s, Announced(s, {p}, {h}, wtxid)}
    BY <1>2 DEF AddTxAnnouncement
  <2>2. wtxid \in BOOLEAN
    OBVIOUS
  <2> HIDE DEF wtxid
  <2>3. {p} \subseteq connected
    OBVIOUS
  <2> QED
    BY <2>1, <2>2, <2>3, AnnouncedTidy, SMTT(20) DEF Fewer
<1> QED
  BY <1>1, <1>2

\* Of a peer that disconnects nothing is left.
LEMMA FinalizeNodeTidy ==
  ASSUME NEW s, Sane(s), NEW cs, Tidy(s, cs), NEW p \in Peers
  PROVE  LET q == [EraseForPeer(s, p) EXCEPT !.tracker =
                      [h \in Hashes |-> DisconnectedPeer(h, @[h], p)]]
         IN  Tidy(q, cs \ {p}) /\ Fewer(s, q)
<1> DEFINE f == [o \in {o \in Orphans(s) : s.orphans[o] # {p}} |-> s.orphans[o] \ {p}]
           w == [s.work EXCEPT ![p] = {}]
           e == EraseForPeer(s, p)
           r == [h \in Hashes |-> DisconnectedPeer(h, e.tracker[h], p)]
           q == [e EXCEPT !.tracker = r]
<1>1. DOMAIN f \subseteq Orphans(s)
      /\ \A o \in DOMAIN f : f[o] # {} /\ f[o] \subseteq cs \ {p}
  BY SMTT(20) DEF Tidy
<1>2. w \in [Peers -> SUBSET Txs] /\ \A x \in Peers \ (cs \ {p}) : w[x] = {}
  BY DEF Tidy
<1>3. e = [[s EXCEPT !.orphans = f] EXCEPT !.work[p] = {}]
  BY DEF EraseForPeer, WithOrphans
<1> HIDE DEF f, e
<1>4. /\ e.orphans = f /\ e.tracker = s.tracker /\ e.work = w
      /\ e.rejects = s.rejects /\ e.reconsiderable = s.reconsiderable
      /\ e.confirmed = s.confirmed /\ e.packages = s.packages /\ Manager(e)
  BY <1>3 DEF Sane, Manager, Fields
<1>5. ASSUME NEW h \in Hashes, NEW x \in Peers \ (cs \ {p}) PROVE r[h][x] = NoAnnouncement
  <2> DEFINE b == MakeCompleted(h, s.tracker[h], p)
  <2>1. b \in Announcements
    BY MakeCompletedSane DEF Sane
  <2>2. x # p => b[x] = NoAnnouncement
    BY MakeCompletedAbsent, SMTT(20) DEF Sane, Tidy
  <2>3. r[h] = [b EXCEPT ![p] = NoAnnouncement]
    BY <1>4 DEF DisconnectedPeer
  <2> HIDE DEF b, r
  <2> QED
    BY <2>1, <2>2, <2>3 DEF Announcements
<1> HIDE DEF r, w
<1>6. /\ q.orphans = f /\ q.tracker = r /\ q.work = w
      /\ q.rejects = s.rejects /\ q.reconsiderable = s.reconsiderable
      /\ q.confirmed = s.confirmed /\ q.packages = s.packages
  BY <1>4 DEF Manager, Fields
<1> HIDE DEF q
<1>7. Tidy(q, cs \ {p}) /\ Fewer(s, q)
  BY <1>1, <1>2, <1>5, <1>6 DEF Tidy, Orphans, Fewer
<1> QED
  BY <1>7 DEF q, r, e

\* The changes of the chain and their signals leave the manager tidy.
LEMMA SignalsTidy ==
  ASSUME NEW s, Sane(s), NEW cs, Tidy(s, cs)
  PROVE  /\ Tidy(TipChanged(s), cs) /\ Orphans(TipChanged(s)) = Orphans(s)
         /\ Tidy(BlockDisconnected(s), cs) /\ Fewer(s, BlockDisconnected(s))
         /\ \A B \in SUBSET Txs : Tidy(BlockConnected(s, B), cs) /\ Fewer(s, BlockConnected(s, B))
<1>1. Tidy(TipChanged(s), cs) /\ Orphans(TipChanged(s)) = Orphans(s)
  <2> DEFINE q == TipChanged(s)
  <2>1. /\ q.orphans = s.orphans /\ q.tracker = s.tracker /\ q.work = s.work
        /\ q.rejects = {} /\ q.reconsiderable = {}
        /\ q.confirmed = s.confirmed /\ q.packages = {}
    BY DEF TipChanged, Sane, Manager, Fields
  <2> HIDE DEF q
  <2>2. Tidy(q, cs) /\ Orphans(q) = Orphans(s)
    BY <2>1 DEF Tidy, Orphans
  <2> QED
    BY <2>2 DEF q
<1>2. Tidy(BlockDisconnected(s), cs) /\ Fewer(s, BlockDisconnected(s))
  <2> DEFINE q == BlockDisconnected(s)
  <2>1. /\ q.orphans = s.orphans /\ q.tracker = s.tracker /\ q.work = s.work
        /\ q.rejects = s.rejects /\ q.reconsiderable = s.reconsiderable
        /\ q.confirmed = {} /\ q.packages = s.packages
    BY DEF BlockDisconnected, Sane, Manager, Fields
  <2> HIDE DEF q
  <2>2. Tidy(q, cs) /\ Orphans(q) = Orphans(s)
    BY <2>1 DEF Tidy, Orphans
  <2> QED
    BY <2>2 DEF q, Fewer
<1>3. ASSUME NEW B \in SUBSET Txs
      PROVE  Tidy(BlockConnected(s, B), cs) /\ Fewer(s, BlockConnected(s, B))
  <2> DEFINE hs == UNION {Both(t) : t \in B}
             K == {o \in Orphans(s) : \A t \in B : Spends[o] \cap Spends[t] = {}}
             e == EraseForBlock(s, B)
             f == [e EXCEPT !.confirmed = @ \cup hs]
  <2>1. hs \subseteq Hashes
    BY TxDownloadAssumption DEF Both
  <2>2. e = WithOrphans(s, Restrict(s.orphans, K)) /\ K \subseteq Orphans(s)
    BY DEF EraseForBlock
  <2>3. BlockConnected(s, B) = ForgetTxHashes(f, hs)
    BY DEF BlockConnected
  <2> HIDE DEF e, K, hs
  <2>4. Sane(e) /\ Tidy(e, cs) /\ Orphans(e) = K
    BY <2>2, WithOrphansSane, RestrictTidy
  <2>5. Sane(f)
    BY <2>4, FiltersSane
  <2>6. Tidy(f, cs) /\ Orphans(f) = K
    BY <2>1, <2>4, FiltersTidy, SMTT(20)
  <2> HIDE DEF f
  <2> QED
    BY <2>2, <2>3, <2>5, <2>6, ForgetTxHashesTidy, SMTT(20) DEF Fewer
<1> QED
  BY <1>1, <1>2, <1>3

\* What NothingLeftBehind needs to be inductive: the blocks of the chain come
\* back to the mempool with DisconnectTip, so they hold no bad scripts either.
TidyInv ==
    /\ Sane(d) /\ connected \subseteq Peers /\ Tidy(d, connected) /\ Small(d)
    /\ passedOver \subseteq Orphans(d)
    /\ mempool \subseteq Txs \ BadWitness
    /\ chain \in Seq(SUBSET (Txs \ BadWitness)) /\ invalidating \in Nat
    /\ signals \in Seq([connected : BOOLEAN, block : SUBSET Txs])
    /\ asked \in [Honest -> SUBSET Hashes]

INSTANCE FiniteSetTheorems

\* An orphanage that no orphan joins keeps its limit.
LEMMA FewerSmall ==
  ASSUME NEW s, NEW cs, Tidy(s, cs), Small(s), NEW q, Fewer(s, q)
  PROVE  Small(q)
<1>1. IsFiniteSet(Orphans(s))
  BY TxDownloadAssumption, FS_Subset DEF Tidy
<1>2. /\ IsFiniteSet(Orphans(q))
      /\ Cardinality(Orphans(q)) <= Cardinality(Orphans(s))
  BY <1>1, FS_Subset DEF Fewer
<1>3. Cardinality(Orphans(q)) \in Nat /\ Cardinality(Orphans(s)) \in Nat
  BY <1>1, <1>2, FS_CardinalityType
<1> QED
  BY <1>2, <1>3, TxDownloadAssumption DEF Small

\* A transaction that came in leaves the manager tidy and the orphanage small,
\* and enters the mempool only if its scripts pass.
LEMMA TryTxTidy ==
  ASSUME NEW s, Sane(s), Tidy(s, connected), Small(s), mempool \subseteq Txs \ BadWitness,
         NEW t \in Txs, NEW p, NEW result \in Result(t), NEW out \in TryTx(s, t, p, result)
  PROVE  Tidy(out[1], connected) /\ Small(out[1]) /\ out[2] \subseteq Txs \ BadWitness
<1>1. CASE result = "valid"
  <2>1. out[1] \in MempoolAcceptedTx(s, t) /\ out[2] = mempool \cup {t}
    BY <1>1 DEF TryTx
  <2>2. t \notin BadWitness
    BY <1>1, ValidScripts
  <2>3. Tidy(out[1], connected) /\ Fewer(s, out[1])
    BY <2>1, MempoolAcceptedTxTidy
  <2> QED
    BY <2>1, <2>2, <2>3, FewerSmall
<1>2. CASE result # "valid"
  <2>1. PICK f \in MempoolRejectedTx(s, t, result, p, TRUE) :
          out \in IF result = "reconsiderable" THEN TryPackage(f, t, p) ELSE {<<f, mempool>>}
    BY <1>2 DEF TryTx
  <2>2. f \in MissingInputs(s, t, p) \/ f \in {s, EraseTx(s, t), NotAccepted(s, t, result)}
    BY <2>1 DEF MempoolRejectedTx
  <2>3. Sane(f)
    BY <2>1, MempoolRejectedTxSane
  <2>4. Tidy(f, connected) /\ (Fewer(s, f) \/ Small(f))
    <3>1. CASE f \in MissingInputs(s, t, p)
      BY <3>1, MissingInputsTidy
    <3>2. CASE f = s
      BY <3>2 DEF Fewer
    <3>3. CASE f = EraseTx(s, t)
      BY <3>3, EraseTxTidy
    <3>4. CASE f = NotAccepted(s, t, result)
      BY <3>4, NotAcceptedTidy
    <3> QED
      BY <2>2, <3>1, <3>2, <3>3, <3>4
  <2>5. Small(f)
    BY <2>4, FewerSmall
  <2>6. CASE out \in TryPackage(f, t, p)
    <3>1. Tidy(out[1], connected) /\ Fewer(f, out[1]) /\ out[2] \subseteq Txs \ BadWitness
      BY <2>3, <2>4, <2>6, TryPackageTidy
    <3> QED
      BY <2>4, <2>5, <3>1, FewerSmall
  <2>7. CASE out = <<f, mempool>>
    BY <2>4, <2>5, <2>7
  <2> QED
    BY <2>1, <2>6, <2>7
<1> QED
  BY <1>1, <1>2

\* So does whatever is done with a transaction that is received.
LEMMA TryReceivedTidy ==
  ASSUME NEW s, Sane(s), Tidy(s, connected), Small(s), mempool \subseteq Txs \ BadWitness,
         NEW t \in Txs, NEW p, NEW out \in TryReceived(s, t, p)
  PROVE  Tidy(out[1], connected) /\ Small(out[1]) /\ out[2] \subseteq Txs \ BadWitness
<1>1. CASE out = <<s, mempool>>
  BY <1>1
<1>2. CASE out \in TryPackage(s, t, p)
  <2>1. Tidy(out[1], connected) /\ Fewer(s, out[1]) /\ out[2] \subseteq Txs \ BadWitness
    BY <1>2, TryPackageTidy
  <2> QED
    BY <2>1, FewerSmall
<1>3. CASE \E result \in Result(t) : out \in TryTx(s, t, p, result)
  BY <1>3, TryTxTidy
<1> QED
  BY <1>1, <1>2, <1>3 DEF TryReceived

\* Every step leaves the manager tidy.
LEMMA NextTidy ==
  ASSUME TidyInv, Next
  PROVE  Tidy(d', connected') /\ Small(d') /\ passedOver' \subseteq Orphans(d')
<1>a. Sane(d) /\ Tidy(d, connected) /\ Small(d)
  BY DEF TidyInv
<1>b. connected \subseteq Peers /\ passedOver \subseteq Orphans(d)
      /\ mempool \subseteq Txs \ BadWitness
  BY DEF TidyInv
<1>1. ASSUME Tidy(d', connected'), Fewer(d, d') \/ Small(d'), NEW lost, Becoming(d', lost)
      PROVE  Tidy(d', connected') /\ Small(d') /\ passedOver' \subseteq Orphans(d')
  <2>1. Small(d')
    BY <1>a, <1>1, FewerSmall
  <2> QED
    BY <1>1, <2>1 DEF Becoming
<1>2. ASSUME NEW p \in Peers, ConnectedPeer(p)
      PROVE  Tidy(d', connected') /\ Small(d') /\ passedOver' \subseteq Orphans(d')
  <2>1. Tidy(d, connected \cup {p})
    BY <1>a DEF Tidy
  <2> QED
    BY <1>a, <1>b, <1>2, <2>1 DEF ConnectedPeer
<1>3. ASSUME NEW p \in Peers, FinalizeNode(p)
      PROVE  Tidy(d', connected') /\ Fewer(d, d')
  <2> DEFINE q == [EraseForPeer(d, p) EXCEPT !.tracker =
                      [h \in Hashes |-> DisconnectedPeer(h, @[h], p)]]
  <2>1. Tidy(q, connected \ {p}) /\ Fewer(d, q)
    BY <1>a, FinalizeNodeTidy
  <2>2. d' = q /\ connected' = connected \ {p}
    BY <1>3 DEF FinalizeNode, Becoming
  <2> QED
    BY <2>1, <2>2
<1>4. ASSUME NEW p \in Peers, SendMessages(p)
      PROVE  Tidy(d', connected') /\ Fewer(d, d')
  <2>1. d' = GetRequestsToSend(d, p) /\ connected' = connected
    BY <1>4 DEF SendMessages, Becoming
  <2> QED
    BY <1>a, <2>1, GetRequestsToSendTidy DEF Fewer
<1>5. ASSUME NEW p \in Peers, ProcessOrphanTx(p)
      PROVE  Tidy(d', connected') /\ Fewer(d, d')
  <2> DEFINE W(x) == [d.work EXCEPT ![p] = x]
  <2>1. ASSUME NEW x \in SUBSET Txs
        PROVE  LET e == [d EXCEPT !.work = W(x)]
               IN  Sane(e) /\ Tidy(e, connected) /\ Orphans(e) = Orphans(d)
    <3>1. p \in connected
      BY <1>5 DEF ProcessOrphanTx
    <3>2. W(x) \in [Peers -> SUBSET Txs] /\ \A y \in Peers \ connected : W(x)[y] = {}
      BY <1>a, <3>1 DEF Tidy
    <3> HIDE DEF W
    <3> QED
      BY <1>a, <3>2, WithWorkSane, WithWorkTidy
  <2>2. connected' = connected
    BY <1>5 DEF ProcessOrphanTx
  <2>3. d.work[p] \subseteq Txs
    BY <1>a DEF Tidy
  <2>4. PICK over :
          \/ d' = [d EXCEPT !.work = W({})]
          \/ \E t \in d.work[p] : \E result :
                d' \in Processed([d EXCEPT !.work = W(d.work[p] \ (over \cup {t}))], t, result, p)
    <3> DEFINE V(over, t) == [d EXCEPT !.work[p] = @ \ (over \cup {t})]
               E == [d EXCEPT !.work[p] = {}]
    <3>1. \A over, t : V(over, t) = [d EXCEPT !.work = W(d.work[p] \ (over \cup {t}))]
      BY <1>a DEF Sane, Manager, Fields
    <3>2. E = [d EXCEPT !.work = W({})]
      BY <1>a DEF Sane, Manager, Fields
    <3> HIDE DEF V, W, E
    <3>3. PICK over \in SUBSET d.work[p] :
            \/ Becoming(E, {})
            \/ \E t \in d.work[p] : \E result : \E s \in Processed(V(over, t), t, result, p) :
                  Becoming(s, {})
      BY <1>5 DEF ProcessOrphanTx, V, E
    <3> HIDE DEF W
    <3> QED
      <4>1. CASE Becoming(E, {})
        BY <3>2, <4>1 DEF Becoming
      <4>2. CASE \E t \in d.work[p] : \E result : \E s \in Processed(V(over, t), t, result, p) :
                    Becoming(s, {})
        <5>1. PICK t \in d.work[p] : \E result : \E s \in Processed(V(over, t), t, result, p) :
                Becoming(s, {})
          BY <4>2
        <5>2. PICK result : d' \in Processed(V(over, t), t, result, p)
          BY <5>1 DEF Becoming
        <5> QED
          BY <3>1, <5>2
      <4> QED
        BY <3>3, <4>1, <4>2
  <2> HIDE DEF W
  <2>5. CASE d' = [d EXCEPT !.work = W({})]
    BY <2>1, <2>2, <2>5 DEF Fewer
  <2>6. CASE \E t \in d.work[p] : \E result :
                d' \in Processed([d EXCEPT !.work = W(d.work[p] \ (over \cup {t}))], t, result, p)
    <3>1. PICK t \in d.work[p] : \E result :
            d' \in Processed([d EXCEPT !.work = W(d.work[p] \ (over \cup {t}))], t, result, p)
      BY <2>6
    <3>r. PICK result :
            d' \in Processed([d EXCEPT !.work = W(d.work[p] \ (over \cup {t}))], t, result, p)
      BY <3>1
    <3> DEFINE e == [d EXCEPT !.work = W(d.work[p] \ (over \cup {t}))]
    <3>2. Sane(e) /\ Tidy(e, connected) /\ Orphans(e) = Orphans(d)
      BY <2>1, <2>3
    <3>3. d' \in Processed(e, t, result, p) /\ t \in Txs
      BY <2>3, <3>r
    <3> HIDE DEF e
    <3> QED
      BY <2>2, <3>2, <3>3, ProcessedTidy DEF Fewer
  <2> QED
    BY <2>4, <2>5, <2>6
<1>6. ASSUME NEW p \in Peers, NEW t, Inv(p, t)
      PROVE  Tidy(d', connected') /\ Fewer(d, d')
  <2>1. PICK h : d' = AddTxAnnouncement(d, p, h) /\ connected' = connected /\ p \in connected
    BY <1>6 DEF Inv, Listening, Becoming
  <2> QED
    BY <1>a, <2>1, AddTxAnnouncementTidy
<1>7. ASSUME NEW p \in Peers, NEW t \in Txs, Tx(p, t)
      PROVE  Tidy(d', connected') /\ Small(d')
  <2> DEFINE e == Answered(d, p, t)
  <2>1. Sane(e) /\ Tidy(e, connected) /\ Orphans(e) = Orphans(d)
    BY <1>a, AnsweredSane, AnsweredTidy
  <2>2. PICK out \in TryReceived(e, t, p) : d' = out[1]
    BY <1>7 DEF Tx, Becoming
  <2>3. connected' = connected
    BY <1>7 DEF Tx
  <2> HIDE DEF e
  <2>4. Small(e)
    BY <1>a, <2>1 DEF Small
  <2> QED
    BY <1>b, <2>1, <2>2, <2>3, <2>4, TryReceivedTidy
<1>8. ASSUME NEW p \in Peers, NEW h \in Hashes, ReceivedNotFound(p, h)
      PROVE  Tidy(d', connected') /\ Fewer(d, d')
  <2> DEFINE r == [d.tracker EXCEPT ![h] = ReceivedResponse(h, @, p)]
  <2>1. ASSUME NEW g \in Hashes, NEW x \in Peers \ connected PROVE r[g][x] = NoAnnouncement
    BY <1>a, MakeCompletedAbsent, SMTT(20) DEF Sane, Tidy, ReceivedResponse
  <2>2. d' = [d EXCEPT !.tracker = r] /\ connected' = connected
    BY <1>8 DEF ReceivedNotFound, Becoming
  <2> HIDE DEF r
  <2> QED
    BY <1>a, <2>1, <2>2, WithTrackerTidy, SMTT(20) DEF Fewer
<1>9. ASSUME NEW p \in Peers, NEW h \in Hashes, TimePasses(p, h)
      PROVE  Tidy(d', connected') /\ Orphans(d') = Orphans(d)
  <2> DEFINE r == [d.tracker EXCEPT ![h][p].due = TRUE]
  <2>1. d.tracker[h][p].state # "NONE"
    BY <1>9 DEF TimePasses, Pending, Waiting, In
  <2>2. ASSUME NEW g \in Hashes, NEW x \in Peers \ connected PROVE r[g][x] = NoAnnouncement
    <3>1. d.tracker[g][x] = NoAnnouncement
      BY <1>a DEF Tidy
    <3>2. g = h => x # p
      BY <2>1, <3>1 DEF NoAnnouncement
    <3> QED
      BY <1>a, <3>1, <3>2 DEF Sane, Announcements
  <2>3. d' = [d EXCEPT !.tracker = r] /\ connected' = connected
    BY <1>9 DEF TimePasses
  <2> HIDE DEF r
  <2> QED
    BY <1>a, <2>2, <2>3, WithTrackerTidy, SMTT(20)
<1>10. ASSUME NEW B, ConnectTip(B) PROVE Tidy(d', connected') /\ Fewer(d, d')
  BY <1>a, <1>10, SignalsTidy DEF ConnectTip, Becoming, Fewer
<1>11. CASE DisconnectTip \/ ActiveTipChange
  <2>1. Tidy(d', connected') /\ Fewer(d, d')
    BY <1>a, <1>11, SignalsTidy DEF DisconnectTip, ActiveTipChange, Becoming, Fewer
  <2> QED
    BY <1>1, <1>11, <2>1 DEF DisconnectTip, ActiveTipChange, Becoming
<1>12. CASE DeliverSignal
  <2>1. signals[1] \in [connected : BOOLEAN, block : SUBSET Txs] /\ connected' = connected
    <3> DEFINE S == [connected : BOOLEAN, block : SUBSET Txs]
    <3>1. signals \in Seq(S)
      BY DEF TidyInv
    <3> HIDE DEF S
    <3>2. signals # <<>> /\ connected' = connected
      BY <1>12 DEF DeliverSignal
    <3>3. signals[1] \in S
      BY <3>1, <3>2, SMTT(20)
    <3> QED
      BY <3>2, <3>3 DEF S
  <2>2. d' = BlockDisconnected(d) \/ \E B \in SUBSET Txs : d' = BlockConnected(d, B)
    BY <1>12, <2>1, SMTT(20) DEF DeliverSignal, Becoming
  <2>3. Tidy(d', connected') /\ Fewer(d, d')
    BY <1>a, <2>1, <2>2, SignalsTidy
  <2> QED
    BY <1>1, <1>12, <2>3 DEF DeliverSignal, Becoming
<1>13. ASSUME NEW p \in Peers,
              \/ FinalizeNode(p) \/ SendMessages(p) \/ ProcessOrphanTx(p)
              \/ \E t \in Txs : Inv(p, t) \/ Tx(p, t)
              \/ \E h \in Hashes : ReceivedNotFound(p, h)
       PROVE  Tidy(d', connected') /\ Small(d') /\ passedOver' \subseteq Orphans(d')
  <2>1. \E lost : Becoming(d', lost)
    BY <1>13 DEF FinalizeNode, SendMessages, ProcessOrphanTx, Inv, Tx, ReceivedNotFound, Becoming
  <2> QED
    BY <1>1, <1>3, <1>4, <1>5, <1>6, <1>7, <1>8, <1>13, <2>1
<1>14. ASSUME NEW p \in Peers, NEW h \in Hashes, TimePasses(p, h)
       PROVE  Tidy(d', connected') /\ Small(d') /\ passedOver' \subseteq Orphans(d')
  BY <1>a, <1>b, <1>9, <1>14 DEF TimePasses, Small
<1>15. ASSUME NEW B \in SUBSET Txs, ConnectTip(B)
       PROVE  Tidy(d', connected') /\ Small(d') /\ passedOver' \subseteq Orphans(d')
  BY <1>1, <1>10, <1>15 DEF ConnectTip, Becoming
<1> QED
  BY <1>2, <1>11, <1>12, <1>13, <1>14, <1>15 DEF Next

\* Every step keeps bad scripts out of the mempool.
LEMMA NextMempool ==
  ASSUME TidyInv, Next
  PROVE  mempool' \subseteq Txs \ BadWitness
<1>a. Sane(d) /\ Tidy(d, connected) /\ Small(d) /\ mempool \subseteq Txs \ BadWitness
  BY DEF TidyInv
<1>1. ASSUME NEW p \in Peers, NEW t \in Txs, Tx(p, t) PROVE mempool' \subseteq Txs \ BadWitness
  <2> DEFINE e == Answered(d, p, t)
  <2>1. Sane(e) /\ Tidy(e, connected) /\ Orphans(e) = Orphans(d)
    BY <1>a, AnsweredSane, AnsweredTidy
  <2>2. PICK out \in TryReceived(e, t, p) : mempool' = out[2]
    BY <1>1 DEF Tx
  <2> HIDE DEF e
  <2>3. Small(e)
    BY <1>a, <2>1 DEF Small
  <2> QED
    BY <1>a, <2>1, <2>2, <2>3, TryReceivedTidy
<1>2. ASSUME NEW p \in Peers, ProcessOrphanTx(p) PROVE mempool' \subseteq Txs \ BadWitness
  <2>1. \/ mempool' = mempool
        \/ \E t \in d.work[p] : \E result \in Result(t) :
              mempool' = IF result = "valid" THEN mempool \cup {t} ELSE mempool
    BY <1>2 DEF ProcessOrphanTx
  <2>2. ASSUME NEW t \in d.work[p], "valid" \in Result(t)
        PROVE  mempool \cup {t} \subseteq Txs \ BadWitness
    <3>1. t \in Txs
      BY <1>a DEF Tidy
    <3>2. t \notin BadWitness
      BY <2>2, ValidScripts
    <3> QED
      BY <1>a, <3>1, <3>2
  <2> QED
    BY <1>a, <2>1, <2>2
<1>3. ASSUME NEW B, ConnectTip(B) PROVE mempool' \subseteq Txs \ BadWitness
  BY <1>a, <1>3 DEF ConnectTip
<1>4. CASE DisconnectTip
  <2> DEFINE tip == chain[Len(chain)]
             S == SUBSET (Txs \ BadWitness)
  <2>1. tip \in S
    <3>1. chain \in Seq(S) /\ chain # <<>>
      BY <1>4 DEF TidyInv, DisconnectTip
    <3> HIDE DEF S
    <3> QED
      BY <3>1
  <2>2. mempool' \subseteq mempool \cup tip
    BY <1>4 DEF DisconnectTip, WithInputs
  <2> QED
    BY <1>a, <2>1, <2>2
<1>5. ASSUME NEW p \in Peers,
             \/ ConnectedPeer(p) \/ FinalizeNode(p) \/ SendMessages(p)
             \/ \E t \in Txs : Inv(p, t)
             \/ \E h \in Hashes : ReceivedNotFound(p, h) \/ TimePasses(p, h)
      PROVE  mempool' = mempool
  BY <1>5 DEF ConnectedPeer, FinalizeNode, SendMessages, Inv, ReceivedNotFound, TimePasses
<1>6. CASE ActiveTipChange \/ DeliverSignal
  BY <1>a, <1>6 DEF ActiveTipChange, DeliverSignal
<1> QED
  BY <1>a, <1>1, <1>2, <1>3, <1>4, <1>5, <1>6 DEF Next

\* Every step keeps the types of the chain, its signals, and the requests.
LEMMA NextChain ==
  ASSUME TidyInv, Next
  PROVE  /\ invalidating' \in Nat
         /\ chain' \in Seq(SUBSET (Txs \ BadWitness))
         /\ signals' \in Seq([connected : BOOLEAN, block : SUBSET Txs])
         /\ asked' \in [Honest -> SUBSET Hashes]
<1> DEFINE S == SUBSET (Txs \ BadWitness)
           R == [connected : BOOLEAN, block : SUBSET Txs]
<1>a. chain \in Seq(S) /\ signals \in Seq(R) /\ asked \in [Honest -> SUBSET Hashes]
  BY DEF TidyInv
<1>b. ASSUME NEW B \in S, NEW c \in BOOLEAN PROVE [connected |-> c, block |-> B] \in R
  OBVIOUS
<1>1. ASSUME NEW p \in Peers, NEW t \in Txs, Tx(p, t)
      PROVE  chain' = chain /\ signals' = signals /\ asked' \in [Honest -> SUBSET Hashes]
  BY <1>a, <1>1 DEF Tx
<1>2. ASSUME NEW p \in Peers, SendMessages(p)
      PROVE  chain' = chain /\ signals' = signals /\ asked' \in [Honest -> SUBSET Hashes]
  BY <1>a, <1>2 DEF SendMessages, Requests, Requestable
<1>3. ASSUME NEW B \in SUBSET Txs, ConnectTip(B)
      PROVE  chain' \in Seq(S) /\ signals' \in Seq(R) /\ asked' = asked
  <2>1. B \in S
    BY <1>3 DEF ConnectTip
  <2>2. chain' = Append(chain, B) /\ asked' = asked
        /\ signals' = Append(signals, [connected |-> TRUE, block |-> B])
    BY <1>3 DEF ConnectTip
  <2>3. [connected |-> TRUE, block |-> B] \in R
    BY <2>1
  <2> HIDE DEF S, R
  <2> QED
    BY <1>a, <2>1, <2>2, <2>3, SMTT(20)
<1>4. ASSUME DisconnectTip PROVE chain' \in Seq(S) /\ signals' \in Seq(R) /\ asked' = asked
  <2> DEFINE tip == chain[Len(chain)]
  <2>1. chain # <<>> /\ chain' = SubSeq(chain, 1, Len(chain) - 1) /\ asked' = asked
        /\ signals' = Append(signals, [connected |-> FALSE, block |-> tip])
    BY <1>4 DEF DisconnectTip
  <2> HIDE DEF S, R
  <2>2. tip \in S /\ chain' \in Seq(S)
    BY <1>a, <2>1, SMTT(20)
  <2>3. [connected |-> FALSE, block |-> tip] \in R
    BY <2>2 DEF S, R
  <2> HIDE DEF tip
  <2> QED
    BY <1>a, <2>1, <2>2, <2>3, SMTT(20)
<1>5. ASSUME DeliverSignal PROVE chain' \in Seq(S) /\ signals' \in Seq(R) /\ asked' = asked
  <2>1. signals # <<>> /\ signals' = Tail(signals) /\ chain' = chain /\ asked' = asked
    BY <1>5 DEF DeliverSignal
  <2> HIDE DEF S, R
  <2> QED
    BY <1>a, <2>1, SMTT(20)
<1>6. ASSUME NEW p \in Peers,
             \/ ConnectedPeer(p) \/ FinalizeNode(p) \/ ProcessOrphanTx(p)
             \/ \E t \in Txs : Inv(p, t)
             \/ \E h \in Hashes : ReceivedNotFound(p, h) \/ TimePasses(p, h)
      PROVE  UNCHANGED <<chain, signals, asked>>
  BY <1>6
  DEF ConnectedPeer, FinalizeNode, ProcessOrphanTx, Inv, ReceivedNotFound, TimePasses
<1>7. ASSUME ActiveTipChange PROVE UNCHANGED <<chain, signals, asked>>
  BY <1>7 DEF ActiveTipChange
<1> HIDE DEF S, R
<1>8. chain' \in Seq(S) /\ signals' \in Seq(R) /\ asked' \in [Honest -> SUBSET Hashes]
  BY <1>a, <1>1, <1>2, <1>3, <1>4, <1>5, <1>6, <1>7 DEF Next
<1>9. invalidating' \in {invalidating, 0, invalidating + 1}
  BY DEF Next, ConnectedPeer, FinalizeNode, SendMessages, ProcessOrphanTx, Inv, Tx,
         ReceivedNotFound, TimePasses, ConnectTip, DisconnectTip, ActiveTipChange,
         DeliverSignal
<1>10. invalidating' \in Nat
  BY <1>9, SMTT(20) DEF TidyInv
<1> QED
  BY <1>8, <1>10 DEF S, R

\* For any peers, transactions and limits, a manager forgets a peer altogether
\* when it disconnects, every orphan keeps an announcer that is connected, the
\* orphanage stays within its limit after every transaction, and all that is
\* remembered keeps its type.
THEOREM ManagerNothingLeftBehind == Spec => []NothingLeftBehind
<1>1. Init => TidyInv
  <2> SUFFICES ASSUME Init PROVE TidyInv
    OBVIOUS
  <2>1. Sane(d)
    BY InitSane
  <2>2. /\ d.orphans = [t \in {} |-> {}] /\ d.work = [p \in Peers |-> {}]
        /\ d.tracker = [h \in Hashes |-> Nobody]
        /\ d.rejects = {} /\ d.reconsiderable = {} /\ d.packages = {} /\ d.confirmed = {}
    BY DEF Init
  <2>3. Orphans(d) = {}
    BY <2>2 DEF Orphans
  <2>4. Tidy(d, connected)
    BY <2>2, <2>3, SMTT(20) DEF Tidy, Nobody
  <2>5. Small(d)
    BY <2>3, FS_EmptySet, TxDownloadAssumption, SMTT(20) DEF Small
  <2>6. connected \subseteq Peers /\ passedOver \subseteq Orphans(d)
        /\ mempool \subseteq Txs \ BadWitness /\ asked \in [Honest -> SUBSET Hashes]
        /\ invalidating \in Nat
    BY DEF Init
  <2>7. chain \in Seq(SUBSET (Txs \ BadWitness))
        /\ signals \in Seq([connected : BOOLEAN, block : SUBSET Txs])
    <3>1. chain = <<>> /\ signals = <<>>
      BY DEF Init
    <3> QED
      BY <3>1
  <2> QED
    BY <2>1, <2>4, <2>5, <2>6, <2>7 DEF TidyInv
<1>2. TidyInv /\ [Next]_vars => TidyInv'
  <2> SUFFICES ASSUME TidyInv, [Next]_vars PROVE TidyInv'
    OBVIOUS
  <2>1. CASE UNCHANGED vars
    BY <2>1 DEF TidyInv, vars, Sane, Manager, Tidy, Small, Orphans
  <2>2. CASE Next
    <3>1. Sane(d)' /\ connected' \subseteq Peers
      BY NextSane, NextConnected DEF TidyInv
    <3>2. Tidy(d', connected') /\ Small(d') /\ passedOver' \subseteq Orphans(d')
      BY <2>2, NextTidy
    <3>3. mempool' \subseteq Txs \ BadWitness
      BY <2>2, NextMempool
    <3>4. /\ invalidating' \in Nat
          /\ chain' \in Seq(SUBSET (Txs \ BadWitness))
          /\ signals' \in Seq([connected : BOOLEAN, block : SUBSET Txs])
          /\ asked' \in [Honest -> SUBSET Hashes]
      BY <2>2, NextChain
    <3> QED
      BY <3>1, <3>2, <3>3, <3>4 DEF TidyInv
  <2> QED
    BY <2>1, <2>2
<1>3. TidyInv => NothingLeftBehind
  <2> SUFFICES ASSUME TidyInv PROVE NothingLeftBehind
    OBVIOUS
  <2>1. chain \in Seq(SUBSET Txs)
    <3> DEFINE S == SUBSET (Txs \ BadWitness)
               T == SUBSET Txs
    <3>1. chain \in Seq(S) /\ S \subseteq T
      BY DEF TidyInv
    <3> HIDE DEF S, T
    <3>2. chain \in Seq(T)
      BY <3>1
    <3> QED
      BY <3>2 DEF T
  <2>2. TypeOK
    BY <2>1 DEF TypeOK, TidyInv, Sane, Tidy, Small
  <2> QED
    BY <2>2 DEF NothingLeftBehind, TidyInv, Tidy
<1> QED
  BY <1>1, <1>2, <1>3, PTL DEF Spec

=============================================================================
