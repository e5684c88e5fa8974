-------------------------- MODULE TxDownloadProofs --------------------------
(***************************************************************************)
(* The tracker stays sane under everything the download manager does, for  *)
(* any peers, transactions and limits.  The invariant is about the manager *)
(* as a whole, Sane(d): one lemma per operation shows that it takes a sane *)
(* manager to sane ones, and an action applies a few of them in turn.      *)
(*                                                                         *)
(* The same operations never make an announcement that was requested or    *)
(* completed a candidate again; the second part follows this through each  *)
(* operation and each handler.                                             *)
(***************************************************************************)
EXTENDS TxDownload, WellFoundedInduction, TLAPS

\* Provers and seconds for the steps that name no prover of their own.
USE ZenonT(10), SMTT(20)

-----------------------------------------------------------------------------
(* Every operation of TxRequestTracker keeps the announcements of a hash as
   SanityCheck wants them. *)

\* Among any peers with a ready announcement one has the highest priority.
LEMMA BestExists ==
  ASSUME NEW h \in Hashes, NEW S, S \subseteq Peers, S # {}
  PROVE  /\ Best(h, S) \in S
         /\ \A q \in S : Rank[h][Best(h, S)] <= Rank[h][q]
<1> USE TxRequestAssumption
<1> DEFINE T == {Rank[h][p] : p \in S}
<1>1. T \subseteq Nat /\ T # {}
  BY SMTT(20)
<1> DEFINE R == OpToRel(<, Nat)
<1>2. PICK x \in T : \A y \in T : ~(<<y, x>> \in R)
  <2>1. IsWellFoundedOn(R, Nat)
    BY NatLessThanWellFounded
  <2> HIDE DEF R, T
  <2> QED
    BY <1>1, <2>1, WFMin
<1>3. \A y \in T : x <= y
  <2> SUFFICES ASSUME NEW y \in T PROVE x <= y
    OBVIOUS
  <2>1. x \in Nat /\ y \in Nat
    BY <1>1
  <2>2. ~(y < x)
    BY <1>2, <2>1 DEF OpToRel
  <2> QED
    BY <2>1, <2>2, SMTT(20)
<1>4. PICK p \in S : x = Rank[h][p]
  OBVIOUS
<1>5. \A q \in S : Rank[h][p] <= Rank[h][q]
  BY <1>3, <1>4, SMTT(20)
<1> QED
  BY <1>5 DEF Best

\* An announcement keeps its type when its state is set.
LEMMA SetType ==
  ASSUME NEW ann \in [state : States, due : BOOLEAN, wtxid : BOOLEAN], NEW s \in States
  PROVE  /\ Set(ann, s) \in [state : States, due : BOOLEAN, wtxid : BOOLEAN]
         /\ Set(ann, s).state = s
BY DEF Set

\* Becomes changes the state of one announcement and no other.
LEMMA BecomesState ==
  ASSUME NEW a \in Announcements, NEW p \in Peers, NEW s \in States
  PROVE  /\ Becomes(a, p, s) \in Announcements
         /\ \A q \in Peers : Becomes(a, p, s)[q].state = IF q = p THEN s ELSE a[q].state
<1>1. Set(a[p], s) \in [state : States, due : BOOLEAN, wtxid : BOOLEAN]
      /\ Set(a[p], s).state = s
  BY SetType DEF Announcements
<1> QED
  BY <1>1 DEF Becomes, Announcements

\* Nobody is sane.
LEMMA NobodySane ==
  ASSUME NEW h \in Hashes
  PROVE  Nobody \in Announcements /\ SaneFor(h, Nobody)
BY DEF Nobody, NoAnnouncement, Announcements, States, SaneFor, Selected, Ready, In

\* With nobody selected, selecting the best ready announcement is sane.
LEMMA SelectBestSane ==
  ASSUME NEW h \in Hashes, NEW a \in Announcements, Selected(a) = {},
         NonCompleted(a) # {}
  PROVE  SelectBest(h, a) \in Announcements /\ SaneFor(h, SelectBest(h, a))
<1>1. CASE Ready(a) = {}
  BY <1>1 DEF SelectBest, SaneFor
<1>2. CASE Ready(a) # {}
  <2> DEFINE b == Best(h, Ready(a))
             c == Becomes(a, b, "CANDIDATE_BEST")
  <2>1. b \in Ready(a) /\ b \in Peers /\ \A q \in Ready(a) : Rank[h][b] <= Rank[h][q]
    BY <1>2, BestExists DEF Ready
  <2>2. c \in Announcements
        /\ \A q \in Peers : c[q].state = IF q = b THEN "CANDIDATE_BEST" ELSE a[q].state
    BY <2>1, BecomesState, SMTT(20) DEF States
  <2> HIDE DEF b, c
  <2>3. Selected(c) = {b} /\ Ready(c) \subseteq Ready(a)
    BY <2>1, <2>2 DEF Selected, Ready, In
  <2>4. NonCompleted(c) # {}
    BY <2>1, <2>2 DEF NonCompleted, In
  <2>5. SaneFor(h, c)
    BY <2>1, <2>3, <2>4 DEF SaneFor
  <2> QED
    BY <1>2, <2>2, <2>5 DEF SelectBest, b, c
<1> QED
  BY <1>1, <1>2

\* MakeCompleted keeps the announcements sane: the best of the ready ones takes
\* the place of one that was selected or asked.
LEMMA MakeCompletedSane ==
  ASSUME NEW h \in Hashes, NEW a \in Announcements, SaneFor(h, a), NEW p \in Peers
  PROVE  /\ MakeCompleted(h, a, p) \in Announcements
         /\ SaneFor(h, MakeCompleted(h, a, p))
         /\ p \notin NonCompleted(MakeCompleted(h, a, p))
<1> USE DEF States
<1>1. CASE p \notin NonCompleted(a)
  BY <1>1 DEF MakeCompleted
<1>2. CASE p \in NonCompleted(a) /\ NonCompleted(a) = {p}
  <2>1. p \notin NonCompleted(Nobody)
    BY DEF NonCompleted, Nobody, NoAnnouncement, In
  <2> QED
    BY <1>2, <2>1, NobodySane DEF MakeCompleted
<1>3. CASE p \in NonCompleted(a) /\ NonCompleted(a) # {p} /\ p \notin Selected(a)
  <2> DEFINE c == Becomes(a, p, "COMPLETED")
  <2>1. c \in Announcements
        /\ \A q \in Peers : c[q].state = IF q = p THEN "COMPLETED" ELSE a[q].state
    BY BecomesState, SMTT(20)
  <2> HIDE DEF c
  <2>2. Selected(c) = Selected(a) /\ Ready(c) \subseteq Ready(a)
        /\ NonCompleted(c) = NonCompleted(a) \ {p}
    BY <1>3, <2>1 DEF Selected, Ready, NonCompleted, In
  <2>3. \A q \in Selected(c) : c[q].state = a[q].state
    BY <1>3, <2>1, <2>2 DEF Selected
  <2>4. SaneFor(h, c)
    BY <1>3, <2>2, <2>3 DEF SaneFor, In
  <2> QED
    BY <1>3, <2>1, <2>2, <2>4 DEF MakeCompleted, ChangeAndReselect, c
<1>4. CASE p \in NonCompleted(a) /\ NonCompleted(a) # {p} /\ p \in Selected(a)
  <2>1. Selected(a) = {p}
    BY <1>4 DEF SaneFor
  <2>2. CASE Ready(a) = {}
    <3> DEFINE c == Becomes(a, p, "COMPLETED")
    <3>1. c \in Announcements
          /\ \A q \in Peers : c[q].state = IF q = p THEN "COMPLETED" ELSE a[q].state
      BY BecomesState, SMTT(20)
    <3> HIDE DEF c
    <3>2. Selected(c) = {} /\ Ready(c) = {} /\ NonCompleted(c) = NonCompleted(a) \ {p}
      BY <2>1, <2>2, <3>1 DEF Selected, Ready, NonCompleted, In
    <3>3. SaneFor(h, c)
      BY <1>4, <3>2 DEF SaneFor
    <3> QED
      BY <1>4, <2>2, <3>1, <3>2, <3>3 DEF MakeCompleted, ChangeAndReselect, SelectBest, c
  <2>3. CASE Ready(a) # {}
    <3> DEFINE b == Best(h, Ready(a))
               e == Becomes(a, b, "CANDIDATE_BEST")
               c == Becomes(e, p, "COMPLETED")
    <3>1. b \in Ready(a) /\ b \in Peers /\ \A q \in Ready(a) : Rank[h][b] <= Rank[h][q]
      BY <2>3, BestExists DEF Ready
    <3>2. b # p
      BY <1>4, <3>1 DEF Ready, Selected, In
    <3>3. e \in Announcements
          /\ \A q \in Peers : e[q].state = IF q = b THEN "CANDIDATE_BEST" ELSE a[q].state
      BY <3>1, BecomesState, SMTT(20)
    <3> HIDE DEF b, e
    <3>4. c \in Announcements
          /\ \A q \in Peers : c[q].state = IF q = p THEN "COMPLETED" ELSE e[q].state
      BY <3>3, BecomesState, SMTT(20)
    <3> HIDE DEF c
    <3>5. Selected(c) = {b} /\ Ready(c) \subseteq Ready(a)
          /\ NonCompleted(c) = NonCompleted(a) \ {p}
      BY <2>1, <3>1, <3>2, <3>3, <3>4, SMTT(20) DEF Selected, Ready, NonCompleted, In
    <3>6. SaneFor(h, c)
      BY <1>4, <3>1, <3>5 DEF SaneFor
    <3> QED
      BY <1>4, <2>3, <3>4, <3>5, <3>6
      DEF MakeCompleted, ChangeAndReselect, SelectBest, c, e, b
  <2> QED
    BY <2>2, <2>3
<1> QED
  BY <1>1, <1>2, <1>3, <1>4

\* SetTimePoint keeps the announcements sane.
LEMMA SetTimePointSane ==
  ASSUME NEW h \in Hashes, NEW a \in Announcements, SaneFor(h, a)
  PROVE  SetTimePoint(h, a) \in Announcements /\ SaneFor(h, SetTimePoint(h, a))
<1> DEFINE b == Passed(a)
<1>1. b \in Announcements
  BY SetType DEF Passed, Announcements, States
<1>2. \A p \in Peers :
        /\ b[p].state # "CANDIDATE_BEST"
        /\ b[p].state = "REQUESTED" => a[p].state = "REQUESTED"
  BY SetType DEF Passed, Announcements, States, In
<1> HIDE DEF b
<1>3. Selected(b) \subseteq Selected(a)
  BY <1>2 DEF Selected, In
<1>4. CASE NonCompleted(b) = {}
  BY <1>4, NobodySane DEF SetTimePoint, b
<1>5. CASE NonCompleted(b) # {} /\ Selected(b) # {}
  <2>1. SaneFor(h, b)
    <3>1. \A p, q \in Selected(b) : p = q
      BY <1>3 DEF SaneFor
    <3>2. \A p \in Selected(b) : ~In(b, p, {"CANDIDATE_BEST"})
      BY <1>2 DEF Selected, In
    <3> QED
      BY <1>5, <3>1, <3>2 DEF SaneFor
  <2> QED
    BY <1>1, <1>5, <2>1 DEF SetTimePoint, b
<1>6. CASE NonCompleted(b) # {} /\ Selected(b) = {}
  BY <1>1, <1>6, SelectBestSane DEF SetTimePoint, b
<1> QED
  BY <1>4, <1>5, <1>6

\* DisconnectedPeer keeps the announcements sane.
LEMMA DisconnectedPeerSane ==
  ASSUME NEW h \in Hashes, NEW a \in Announcements, SaneFor(h, a), NEW p \in Peers
  PROVE  DisconnectedPeer(h, a, p) \in Announcements /\ SaneFor(h, DisconnectedPeer(h, a, p))
<1> DEFINE b == MakeCompleted(h, a, p)
           c == [b EXCEPT ![p] = NoAnnouncement]
<1>1. b \in Announcements /\ SaneFor(h, b) /\ p \notin NonCompleted(b)
  BY MakeCompletedSane
<1> HIDE DEF b
<1>2. c \in Announcements
  BY <1>1 DEF Announcements, NoAnnouncement, States
<1>3. \A q \in Peers : c[q] = IF q = p THEN NoAnnouncement ELSE b[q]
  BY <1>1 DEF Announcements
<1> HIDE DEF c
<1>4. Selected(c) = Selected(b) /\ Ready(c) = Ready(b) /\ NonCompleted(c) = NonCompleted(b)
  BY <1>1, <1>3, SMTT(20) DEF Selected, Ready, NonCompleted, In, NoAnnouncement
<1>5. b = Nobody => c = Nobody
  BY <1>3, <1>2 DEF Nobody, Announcements
<1>6. \A q \in Selected(c) : c[q] = b[q]
  BY <1>1, <1>3, <1>4 DEF Selected, NonCompleted, In
<1>7. SaneFor(h, c)
  BY <1>1, <1>4, <1>5, <1>6 DEF SaneFor, In
<1> QED
  BY <1>2, <1>7 DEF DisconnectedPeer, b, c

\* RequestedTx of the selected announcement keeps them sane.
LEMMA RequestedTxSane ==
  ASSUME NEW h \in Hashes, NEW a \in Announcements, SaneFor(h, a), NEW p \in Peers,
         In(a, p, {"CANDIDATE_BEST"})
  PROVE  RequestedTx(a, p) \in Announcements /\ SaneFor(h, RequestedTx(a, p))
<1> DEFINE c == Becomes(a, p, "REQUESTED")
<1>1. c \in Announcements
      /\ \A q \in Peers : c[q].state = IF q = p THEN "REQUESTED" ELSE a[q].state
  BY BecomesState, SMTT(20) DEF States
<1> HIDE DEF c
<1>2. Selected(c) = {p} /\ NonCompleted(c) # {}
  BY <1>1, SMTT(20) DEF SaneFor, Selected, NonCompleted, In
<1>3. SaneFor(h, c)
  BY <1>1, <1>2 DEF SaneFor, In
<1> QED
  BY <1>1, <1>3 DEF RequestedTx, c

-----------------------------------------------------------------------------
(* The download manager *)

Fields == {"tracker", "orphans", "work", "rejects", "reconsiderable", "packages",
           "confirmed"}

Manager(s) == s = [f \in Fields |-> s[f]]

Sane(s) ==
    /\ Manager(s)
    /\ s.tracker \in [Hashes -> Announcements]
    /\ \A h \in Hashes : SaneFor(h, s.tracker[h])

\* What leaves the tracker alone keeps the manager sane.
LEMMA SameTracker ==
  ASSUME NEW s, NEW q, Sane(s), Manager(q), q.tracker = s.tracker
  PROVE  Sane(q)
BY DEF Sane

\* A tracker that is sane hash by hash makes the manager sane.
LEMMA NewTracker ==
  ASSUME NEW s, Sane(s), NEW t \in [Hashes -> Announcements],
         \A h \in Hashes : SaneFor(h, t[h])
  PROVE  Sane([s EXCEPT !.tracker = t])
<1> DEFINE q == [s EXCEPT !.tracker = t]
<1>1. Manager(q) /\ q.tracker = t
  BY DEF Sane, Manager, Fields
<1> QED
  BY <1>1 DEF Sane

-----------------------------------------------------------------------------
(* The orphanage leaves the tracker alone. *)

\* Replacing the orphans keeps the manager sane.
LEMMA WithOrphansSane ==
  ASSUME NEW s, Sane(s), NEW f
  PROVE  Sane(WithOrphans(s, f))
<1>1. Manager(WithOrphans(s, f)) /\ WithOrphans(s, f).tracker = s.tracker
  BY DEF WithOrphans, Sane, Manager, Fields
<1> QED
  BY <1>1, SameTracker

\* Adding announcers keeps the manager sane.
LEMMA AddAnnouncersSane ==
  ASSUME NEW s, Sane(s), NEW t, NEW peers
  PROVE  Sane(AddAnnouncers(s, t, peers))
BY WithOrphansSane DEF AddAnnouncers

\* Erasing an orphan keeps the manager sane.
LEMMA EraseTxSane ==
  ASSUME NEW s, Sane(s), NEW t
  PROVE  Sane(EraseTx(s, t))
BY WithOrphansSane DEF EraseTx

\* Limiting the orphans keeps the manager sane.
LEMMA LimitOrphansSane ==
  ASSUME NEW s, Sane(s), NEW t, NEW q \in LimitOrphans(s, t)
  PROVE  Sane(q)
BY WithOrphansSane DEF LimitOrphans

\* Changing the work sets keeps the manager sane.
LEMMA WithWorkSane ==
  ASSUME NEW s, Sane(s), NEW f
  PROVE  Sane([s EXCEPT !.work = f])
<1> DEFINE q == [s EXCEPT !.work = f]
<1>1. Manager(q) /\ q.tracker = s.tracker
  BY DEF Sane, Manager, Fields
<1> QED
  BY <1>1, SameTracker

\* Queueing the children of a transaction keeps the manager sane.
LEMMA AddChildrenToWorkSetSane ==
  ASSUME NEW s, Sane(s), NEW t, NEW q \in AddChildrenToWorkSet(s, t)
  PROVE  Sane(q)
<1>1. PICK f : q = [s EXCEPT !.work = f]
  BY DEF AddChildrenToWorkSet
<1> QED
  BY <1>1, WithWorkSane

-----------------------------------------------------------------------------
(* The manager *)

\* Forgetting hashes keeps the manager sane.
LEMMA ForgetTxHashesSane ==
  ASSUME NEW s, Sane(s), NEW hs
  PROVE  Sane(ForgetTxHashes(s, hs))
<1> DEFINE t == [h \in Hashes |-> IF h \in hs THEN Nobody ELSE s.tracker[h]]
<1>1. t \in [Hashes -> Announcements] /\ \A h \in Hashes : SaneFor(h, t[h])
  BY NobodySane DEF Sane
<1> QED
  BY <1>1, NewTracker DEF ForgetTxHashes

\* Announcements that are sane stay so when some peers' announcements are added.
LEMMA ReceivedInvSane ==
  ASSUME NEW h \in Hashes, NEW a \in Announcements, SaneFor(h, a),
         NEW c \in Announcements,
         \A p \in Peers :
            \/ c[p] = a[p]
            \/ In(a, p, {"NONE"}) /\ In(c, p, {"CANDIDATE_DELAYED"})
  PROVE  SaneFor(h, c)
<1>1. Selected(c) = Selected(a) /\ Ready(c) = Ready(a) /\ NonCompleted(a) \subseteq NonCompleted(c)
  BY DEF Selected, Ready, NonCompleted, In
<1>2. \A p \in Selected(c) : c[p] = a[p]
  BY DEF Selected, In
<1>3. NonCompleted(c) = {} => c = a
  BY SMTT(20) DEF NonCompleted, In, Announcements
<1> QED
  BY <1>1, <1>2, <1>3 DEF SaneFor, In

\* Announcing hashes keeps the manager sane.
LEMMA AnnouncedSane ==
  ASSUME NEW s, Sane(s), NEW peers, NEW hs, NEW wtxid \in BOOLEAN
  PROVE  Sane(Announced(s, peers, hs, wtxid))
<1> DEFINE t == [h \in Hashes |-> [p \in Peers |->
                  IF h \in hs /\ p \in peers
                    THEN ReceivedInv(s.tracker[h][p], NoDelay(s, p, wtxid), wtxid)
                  ELSE s.tracker[h][p]]]
<1>1. ASSUME NEW h \in Hashes
      PROVE  t[h] \in Announcements /\ SaneFor(h, t[h])
  <2> DEFINE a == s.tracker[h]
  <2>1. a \in Announcements /\ SaneFor(h, a)
    BY DEF Sane
  <2>2. \A p \in Peers : NoDelay(s, p, wtxid) \in BOOLEAN
    BY DEF NoDelay
  <2>3. ASSUME NEW ann \in [state : States, due : BOOLEAN, wtxid : BOOLEAN], NEW due \in BOOLEAN
        PROVE  /\ ReceivedInv(ann, due, wtxid) \in
                     [state : States, due : BOOLEAN, wtxid : BOOLEAN]
               /\ \/ ReceivedInv(ann, due, wtxid) = ann
                  \/ ann.state = "NONE" /\ ReceivedInv(ann, due, wtxid).state = "CANDIDATE_DELAYED"
    BY DEF ReceivedInv, States
  <2>4. t[h] \in Announcements
    BY <2>1, <2>2, <2>3 DEF Announcements
  <2>5. \A p \in Peers :
          \/ t[h][p] = a[p]
          \/ In(a, p, {"NONE"}) /\ In(t[h], p, {"CANDIDATE_DELAYED"})
    <3> TAKE p \in Peers
    <3> DEFINE c == ReceivedInv(a[p], NoDelay(s, p, wtxid), wtxid)
    <3>1. c = a[p] \/ (a[p].state = "NONE" /\ c.state = "CANDIDATE_DELAYED")
      BY <2>1, <2>2, <2>3 DEF Announcements
    <3>2. t[h][p] = c \/ t[h][p] = a[p]
      OBVIOUS
    <3> HIDE DEF t, a, c
    <3> QED
      BY <3>1, <3>2 DEF In
  <2> HIDE DEF t, a
  <2> QED
    BY <2>1, <2>4, <2>5, ReceivedInvSane
<1>2. t \in [Hashes -> Announcements] /\ \A h \in Hashes : SaneFor(h, t[h])
  BY <1>1
<1> HIDE DEF t
<1>3. Sane([s EXCEPT !.tracker = t])
  BY <1>2, NewTracker
<1> QED
  BY <1>3 DEF Announced, t

\* Orphan resolution keeps the manager sane.
LEMMA ResolveSane ==
  ASSUME NEW s, Sane(s), NEW t, NEW peers
  PROVE  Sane(Resolve(s, t, peers))
BY AnnouncedSane, AddAnnouncersSane DEF Resolve

\* AddTxAnnouncement keeps the manager sane.
LEMMA AddTxAnnouncementSane ==
  ASSUME NEW s, Sane(s), NEW p, NEW h
  PROVE  Sane(AddTxAnnouncement(s, p, h))
<1> DEFINE wtxid == p \in WtxidRelay
           orphan == {o \in Orphans(s) : wtxid /\ Wtxid[o] = h}
           o == CHOOSE o \in orphan : TRUE
<1>1. wtxid \in BOOLEAN
  OBVIOUS
<1>2. Sane(Announced(s, {p}, {h}, wtxid)) /\ Sane(Resolve(s, o, {p}))
  <2> HIDE DEF wtxid, o
  <2> QED
    BY <1>1, AnnouncedSane, ResolveSane
<1>3. AddTxAnnouncement(s, p, h) \in {s, Announced(s, {p}, {h}, wtxid), Resolve(s, o, {p})}
  BY DEF AddTxAnnouncement
<1> QED
  BY <1>2, <1>3

\* GetRequestsToSend keeps the manager sane: it asks for what is selected.
LEMMA GetRequestsToSendSane ==
  ASSUME NEW s, Sane(s), NEW p \in Peers
  PROVE  Sane(GetRequestsToSend(s, p))
<1> DEFINE t == [h \in Hashes |->
                  IF h \in Requests(s, p) THEN RequestedTx(SetTimePoint(h, s.tracker[h]), p)
                  ELSE IF h \in Requestable(s, p) THEN Nobody
                  ELSE SetTimePoint(h, s.tracker[h])]
<1>1. ASSUME NEW h \in Hashes
      PROVE  t[h] \in Announcements /\ SaneFor(h, t[h])
  <2> DEFINE a == SetTimePoint(h, s.tracker[h])
  <2>1. a \in Announcements /\ SaneFor(h, a)
    BY SetTimePointSane DEF Sane
  <2>2. CASE h \in Requests(s, p)
    <3>1. In(a, p, {"CANDIDATE_BEST"})
      BY <2>2 DEF Requests, Requestable
    <3> HIDE DEF a
    <3>2. RequestedTx(a, p) \in Announcements /\ SaneFor(h, RequestedTx(a, p))
      BY <2>1, <3>1, RequestedTxSane
    <3> QED
      BY <2>2, <3>2 DEF a
  <2> QED
    BY <2>1, <2>2, NobodySane
<1>2. t \in [Hashes -> Announcements] /\ \A h \in Hashes : SaneFor(h, t[h])
  BY <1>1
<1> HIDE DEF t
<1>3. Sane([s EXCEPT !.tracker = t])
  BY <1>2, NewTracker
<1> QED
  BY <1>3 DEF GetRequestsToSend, t

\* MempoolAcceptedTx keeps the manager sane.
LEMMA MempoolAcceptedTxSane ==
  ASSUME NEW s, Sane(s), NEW t, NEW q \in MempoolAcceptedTx(s, t)
  PROVE  Sane(q)
<1>1. PICK w \in AddChildrenToWorkSet(ForgetTxHashes(s, Both(t)), t) : q = EraseTx(w, t)
  BY DEF MempoolAcceptedTx
<1>2. Sane(w)
  BY <1>1, ForgetTxHashesSane, AddChildrenToWorkSetSane
<1> QED
  BY <1>1, <1>2, EraseTxSane

\* Adding to the filters keeps the manager sane.
LEMMA FiltersSane ==
  ASSUME NEW s, Sane(s), NEW x
  PROVE  /\ Sane([s EXCEPT !.rejects = @ \cup x])
         /\ Sane([s EXCEPT !.reconsiderable = @ \cup x])
         /\ Sane([s EXCEPT !.packages = @ \cup x])
         /\ Sane([s EXCEPT !.confirmed = @ \cup x])
<1>1. ASSUME NEW q \in {[s EXCEPT !.rejects = @ \cup x], [s EXCEPT !.reconsiderable = @ \cup x],
                       [s EXCEPT !.packages = @ \cup x], [s EXCEPT !.confirmed = @ \cup x]}
      PROVE  Sane(q)
  <2>1. Manager(q) /\ q.tracker = s.tracker
    BY DEF Sane, Manager, Fields
  <2> QED
    BY <2>1, SameTracker
<1> QED
  BY <1>1

\* A new orphan, kept or refused for its parents, leaves the manager sane.
LEMMA MissingInputsSane ==
  ASSUME NEW s, Sane(s), NEW t, NEW p, NEW q \in MissingInputs(s, t, p)
  PROVE  Sane(q)
<1> DEFINE peers == {p} \cup UNION {GetCandidatePeers(s.tracker[h]) : h \in Both(t)}
           r == [s EXCEPT !.rejects = @ \cup Both(t)]
<1>1. CASE RejectedParents(s, t)
  <2>1. q = ForgetTxHashes(r, Both(t))
    BY <1>1 DEF MissingInputs
  <2>2. Sane(r)
    BY FiltersSane
  <2> HIDE DEF r
  <2> QED
    BY <2>1, <2>2, ForgetTxHashesSane
<1>2. CASE ~RejectedParents(s, t)
  <2>1. q \in LimitOrphans(ForgetTxHashes(Resolve(s, t, peers), Both(t)), t)
    BY <1>2 DEF MissingInputs
  <2> HIDE DEF peers
  <2>2. Sane(ForgetTxHashes(Resolve(s, t, peers), Both(t)))
    BY ResolveSane, ForgetTxHashesSane
  <2> QED
    BY <2>1, <2>2, LimitOrphansSane
<1> QED
  BY <1>1, <1>2

\* A refused transaction leaves the manager sane.
LEMMA NotAcceptedSane ==
  ASSUME NEW s, Sane(s), NEW t, NEW result
  PROVE  Sane(NotAccepted(s, t, result))
<1> DEFINE hs == IF result = "nonstandard" THEN Both(t) ELSE {Wtxid[t]}
           f == IF result = "reconsiderable" THEN [s EXCEPT !.reconsiderable = @ \cup hs]
                ELSE [s EXCEPT !.rejects = @ \cup hs]
<1>1. Sane(f)
  <2> HIDE DEF hs
  <2> QED
    BY FiltersSane
<1> HIDE DEF f
<1>2. Sane(EraseTx(ForgetTxHashes(f, hs), t))
  <2> HIDE DEF hs
  <2> QED
    BY <1>1, ForgetTxHashesSane, EraseTxSane
<1> QED
  BY <1>2 DEF NotAccepted, f

\* MempoolRejectedTx keeps the manager sane.
LEMMA MempoolRejectedTxSane ==
  ASSUME NEW s, Sane(s), NEW t, NEW result, NEW p, NEW first,
         NEW q \in MempoolRejectedTx(s, t, result, p, first)
  PROVE  Sane(q)
<1>1. CASE result = "missing"
  <2>1. q \in MissingInputs(s, t, p) \/ q = s
    BY <1>1 DEF MempoolRejectedTx
  <2> QED
    BY <2>1, MissingInputsSane
<1>2. CASE result = "stripped"
  BY <1>2, EraseTxSane DEF MempoolRejectedTx
<1>3. CASE result # "missing" /\ result # "stripped"
  BY <1>3, NotAcceptedSane DEF MempoolRejectedTx
<1> QED
  BY <1>1, <1>2, <1>3

-----------------------------------------------------------------------------
(* Messages *)

\* Processing the result of a validation keeps the manager sane.
LEMMA ProcessedSane ==
  ASSUME NEW s, Sane(s), NEW t, NEW result, NEW p, NEW q \in Processed(s, t, result, p)
  PROVE  Sane(q)
<1>1. CASE result = "none"
  BY <1>1 DEF Processed
<1>2. CASE result = "valid"
  BY <1>2, MempoolAcceptedTxSane DEF Processed
<1>3. CASE result # "none" /\ result # "valid"
  <2>1. q \in MempoolRejectedTx(s, t, result, p, FALSE)
    BY <1>3 DEF Processed
  <2> QED
    BY <2>1, MempoolRejectedTxSane
<1> QED
  BY <1>1, <1>2, <1>3

\* Processing the results of a package keeps the manager sane.
LEMMA ProcessPackageResultSane ==
  ASSUME NEW s, Sane(s), NEW t, NEW c, NEW res, NEW p,
         NEW q \in ProcessPackageResult(s, t, c, res, p)
  PROVE  Sane(q)
<1> DEFINE f == IF res[2] = "valid" THEN s
                ELSE [s EXCEPT !.packages = @ \cup {{Wtxid[t], Wtxid[c]}}]
<1>1. Sane(f)
  BY FiltersSane
<1>2. PICK g \in Processed(f, c, res[2], p) : q \in Processed(g, t, res[1], p)
  BY DEF ProcessPackageResult
<1> HIDE DEF f
<1>3. Sane(g)
  BY <1>1, ProcessedSane
<1> QED
  BY <1>2, <1>3, ProcessedSane

\* Trying a package keeps the manager sane.
LEMMA TryPackageSane ==
  ASSUME NEW s, Sane(s), NEW t, NEW p, NEW out \in TryPackage(s, t, p)
  PROVE  Sane(out[1])
<1>1. CASE out = <<s, mempool>>
  BY <1>1
<1>2. CASE out # <<s, mempool>>
  <2>1. PICK c, res : out \in ProcessPackageResult(s, t, c, res, p) \X {Entered(t, c, res)}
    BY <1>2, SMTT(20) DEF TryPackage
  <2>2. out[1] \in ProcessPackageResult(s, t, c, res, p)
    BY <2>1
  <2> QED
    BY <2>2, ProcessPackageResultSane
<1> QED
  BY <1>1, <1>2

\* Validating a transaction and processing the result keeps the manager sane.
LEMMA TryTxSane ==
  ASSUME NEW s, Sane(s), NEW t, NEW p, NEW result, NEW out \in TryTx(s, t, p, result)
  PROVE  Sane(out[1])
<1>1. CASE result = "valid"
  <2>1. out[1] \in MempoolAcceptedTx(s, t)
    BY <1>1 DEF TryTx
  <2> QED
    BY <2>1, MempoolAcceptedTxSane
<1>2. CASE result # "valid"
  <2>1. PICK f \in MempoolRejectedTx(s, t, result, p, TRUE) :
          out \in IF result = "reconsiderable" THEN TryPackage(f, t, p) ELSE {<<f, mempool>>}
    BY <1>2 DEF TryTx
  <2>2. Sane(f)
    BY MempoolRejectedTxSane
  <2>3. CASE out \in TryPackage(f, t, p)
    BY <2>2, <2>3, TryPackageSane
  <2>4. CASE out = <<f, mempool>>
    BY <2>2, <2>4
  <2> QED
    BY <2>1, <2>3, <2>4
<1> QED
  BY <1>1, <1>2

\* ReceivedTx and what follows keep the manager sane.
LEMMA TryReceivedSane ==
  ASSUME NEW s, Sane(s), NEW t, NEW p, NEW out \in TryReceived(s, t, p)
  PROVE  Sane(out[1])
<1>1. CASE out = <<s, mempool>>
  BY <1>1
<1>2. CASE out \in TryPackage(s, t, p)
  BY <1>2, TryPackageSane
<1>3. CASE \E result \in Result(t) : out \in TryTx(s, t, p, result)
  BY <1>3, TryTxSane
<1> QED
  BY <1>1, <1>2, <1>3 DEF TryReceived

\* A response keeps the manager sane.
LEMMA AnsweredSane ==
  ASSUME NEW s, Sane(s), NEW t, NEW p \in Peers
  PROVE  Sane(Answered(s, p, t))
<1> DEFINE r == [h \in Hashes |-> IF h \in Both(t) THEN ReceivedResponse(h, s.tracker[h], p)
                                 ELSE s.tracker[h]]
<1>1. r \in [Hashes -> Announcements] /\ \A h \in Hashes : SaneFor(h, r[h])
  BY MakeCompletedSane DEF Sane, ReceivedResponse
<1> HIDE DEF r
<1>2. Sane([s EXCEPT !.tracker = r])
  BY <1>1, NewTracker
<1> QED
  BY <1>2 DEF Answered, r

\* The manager starts sane.
LEMMA InitSane == Init => Sane(d)
<1> SUFFICES ASSUME Init PROVE Sane(d)
  OBVIOUS
<1>1. Manager(d) /\ d.tracker = [h \in Hashes |-> Nobody]
  BY DEF Init, Manager, Fields
<1> QED
  BY <1>1, NobodySane DEF Sane

\* Every step leaves the manager sane.
LEMMA NextSane == Sane(d) /\ [Next]_vars => Sane(d)'
<1> SUFFICES ASSUME Sane(d), [Next]_vars PROVE Sane(d')
  BY DEF Sane, Manager
<1> USE DEF Becoming
<1>1. CASE UNCHANGED vars
  BY <1>1 DEF vars
<1>2. ASSUME NEW p \in Peers, ConnectedPeer(p) PROVE Sane(d')
  BY <1>2 DEF ConnectedPeer
<1>3. ASSUME NEW p \in Peers, FinalizeNode(p) PROVE Sane(d')
  <2> DEFINE e == EraseForPeer(d, p)
             r == [h \in Hashes |-> DisconnectedPeer(h, e.tracker[h], p)]
  <2>1. Sane(e)
    <3>1. PICK f : e = [WithOrphans(d, f) EXCEPT !.work[p] = {}]
      BY DEF EraseForPeer
    <3> HIDE DEF e
    <3> QED
      BY <3>1, WithOrphansSane, WithWorkSane
  <2> HIDE DEF e
  <2>2. r \in [Hashes -> Announcements] /\ \A h \in Hashes : SaneFor(h, r[h])
    BY <2>1, DisconnectedPeerSane DEF Sane
  <2> HIDE DEF r
  <2>3. Sane([e EXCEPT !.tracker = r])
    BY <2>1, <2>2, NewTracker
  <2> QED
    BY <1>3, <2>3 DEF FinalizeNode, e, r
<1>4. ASSUME NEW p \in Peers, SendMessages(p) PROVE Sane(d')
  BY <1>4, GetRequestsToSendSane DEF SendMessages
<1>5. ASSUME NEW p \in Peers, ProcessOrphanTx(p) PROVE Sane(d')
  <2>1. CASE d' = [d EXCEPT !.work[p] = {}]
    BY <2>1, WithWorkSane
  <2> DEFINE W(over, t) == [d EXCEPT !.work[p] = @ \ (over \cup {t})]
  <2>2. ASSUME NEW over, NEW t PROVE Sane(W(over, t))
    BY WithWorkSane
  <2> HIDE DEF W
  <2>3. PICK over :
          \/ d' = [d EXCEPT !.work[p] = {}]
          \/ \E t, result : \E s \in Processed(W(over, t), t, result, p) : d' = s
    BY <1>5 DEF ProcessOrphanTx, W
  <2>4. CASE \E t, result : \E s \in Processed(W(over, t), t, result, p) : d' = s
    <3>1. PICK t, result : d' \in Processed(W(over, t), t, result, p)
      BY <2>4
    <3>2. Sane(W(over, t))
      BY <2>2
    <3> QED
      BY <3>1, <3>2, ProcessedSane
  <2> QED
    BY <2>1, <2>3, <2>4
<1>6. ASSUME NEW p \in Peers, NEW t, Inv(p, t) PROVE Sane(d')
  BY <1>6, AddTxAnnouncementSane DEF Inv
<1>7. ASSUME NEW p \in Peers, NEW t, Tx(p, t) PROVE Sane(d')
  <2>1. PICK out \in TryReceived(Answered(d, p, t), t, p) : d' = out[1]
    BY <1>7 DEF Tx
  <2> QED
    BY <2>1, AnsweredSane, TryReceivedSane
<1>8. ASSUME NEW p \in Peers, NEW h \in Hashes, ReceivedNotFound(p, h) PROVE Sane(d')
  <2> DEFINE r == [d.tracker EXCEPT ![h] = ReceivedResponse(h, @, p)]
  <2>1. r \in [Hashes -> Announcements] /\ \A g \in Hashes : SaneFor(g, r[g])
    BY MakeCompletedSane DEF Sane, ReceivedResponse
  <2> HIDE DEF r
  <2>2. Sane([d EXCEPT !.tracker = r])
    BY <2>1, NewTracker
  <2> QED
    BY <1>8, <2>2 DEF ReceivedNotFound, r
<1>9. ASSUME NEW p \in Peers, NEW h \in Hashes, TimePasses(p, h) PROVE Sane(d')
  <2> DEFINE a == d.tracker[h]
             b == [a EXCEPT ![p].due = TRUE]
             r == [d.tracker EXCEPT ![h] = b]
  <2>1. a \in Announcements /\ SaneFor(h, a) /\ Waiting(a, p)
    BY <1>9 DEF Sane, TimePasses, Pending
  <2> HIDE DEF a
  <2>2. b \in Announcements /\ \A q \in Peers : b[q].state = a[q].state
    BY <2>1 DEF Announcements
  <2>3. p \in NonCompleted(a)
    BY <2>1 DEF Waiting, NonCompleted, In
  <2> HIDE DEF b
  <2>4. Selected(b) = Selected(a) /\ Ready(b) = Ready(a) /\ NonCompleted(b) = NonCompleted(a)
    BY <2>2 DEF Selected, Ready, NonCompleted, In
  <2>5. SaneFor(h, b)
    <3>1. \A q \in Selected(b) : In(b, q, {"CANDIDATE_BEST"}) => In(a, q, {"CANDIDATE_BEST"})
      BY <2>2 DEF In, Selected
    <3> QED
      BY <2>1, <2>3, <2>4, <3>1 DEF SaneFor
  <2>6. r \in [Hashes -> Announcements] /\ \A g \in Hashes : SaneFor(g, r[g])
    BY <2>2, <2>5 DEF Sane
  <2> HIDE DEF r
  <2>7. Sane([d EXCEPT !.tracker = r])
    BY <2>6, NewTracker
  <2> QED
    BY <1>9, <2>7 DEF TimePasses, r, b, a
<1>10. Sane(TipChanged(d))
  <2>1. Manager(TipChanged(d)) /\ TipChanged(d).tracker = d.tracker
    BY DEF Sane, Manager, Fields, TipChanged
  <2> QED
    BY <2>1, SameTracker
<1>11. ASSUME NEW B, ConnectTip(B) PROVE Sane(d')
  BY <1>10, <1>11 DEF ConnectTip
<1>12. CASE DisconnectTip \/ ActiveTipChange
  BY <1>10, <1>12 DEF DisconnectTip, ActiveTipChange
<1>13. CASE DeliverSignal
  <2>1. ASSUME NEW B PROVE Sane(BlockConnected(d, B))
    <3> DEFINE e == EraseForBlock(d, B)
               f == [e EXCEPT !.confirmed = @ \cup UNION {Both(t) : t \in B}]
    <3>1. Sane(e)
      BY WithOrphansSane DEF EraseForBlock
    <3> HIDE DEF e
    <3>2. Sane(f)
      BY <3>1, FiltersSane
    <3> HIDE DEF f
    <3>3. Sane(ForgetTxHashes(f, UNION {Both(t) : t \in B}))
      BY <3>2, ForgetTxHashesSane
    <3> QED
      BY <3>3 DEF BlockConnected, f, e
  <2>2. Sane(BlockDisconnected(d))
    <3>1. Manager(BlockDisconnected(d)) /\ BlockDisconnected(d).tracker = d.tracker
      BY DEF Sane, Manager, Fields, BlockDisconnected
    <3> QED
      BY <3>1, SameTracker
  <2> QED
    BY <1>13, <2>1, <2>2 DEF DeliverSignal
<1> QED
  BY <1>1, <1>2, <1>3, <1>4, <1>5, <1>6, <1>7, <1>8, <1>9, <1>11, <1>12, <1>13 DEF Next

\* TxRequestTracker's SanityCheck never fails, whatever the peers, their
\* transactions and messages, and whatever the limits are: of every hash at
\* most one peer is asked or selected, the one of highest priority, and no hash
\* is kept for completed announcements alone.
THEOREM TrackerAlwaysSane == Spec => []TrackerSane
<1>1. Sane(d) => TrackerSane
  BY DEF Sane, TrackerSane
<1> QED
  BY <1>1, InitSane, NextSane, PTL DEF Spec

-----------------------------------------------------------------------------
(* A peer is asked for a hash once.  Calls other than the tracker's own only
   forget hashes, and calls for an orphan's parents add announcements. *)

\* From a to b the announcements that were asked or completed are where they
\* were or completed, or the hash is forgotten.
Once(a, b, p) ==
    In(a, p, {"REQUESTED", "COMPLETED"}) => In(b, p, {a[p].state, "COMPLETED"}) \/ b = Nobody

\* From s to q hashes are forgotten and nothing else becomes of the tracker.
Forgot(s, q) == \A h \in Hashes : q.tracker[h] \in {s.tracker[h], Nobody}

\* From s to q hashes are forgotten and others announced, but not those of t.
AskedFor(s, t, q) ==
    \A h \in Hashes :
        \/ q.tracker[h] \in {s.tracker[h], Nobody}
        \/ /\ h \notin Both(t)
           /\ \A p \in Peers : s.tracker[h][p].state # "NONE" => q.tracker[h][p] = s.tracker[h][p]

\* A completed announcement is completed; the ready one selected was neither
\* asked nor completed.
LEMMA MakeCompletedOnce ==
  ASSUME NEW h \in Hashes, NEW a \in Announcements, NEW p \in Peers, NEW q \in Peers
  PROVE  Once(a, MakeCompleted(h, a, p), q)
<1> USE DEF States
<1> DEFINE b == IF p \in Selected(a) THEN SelectBest(h, a) ELSE a
           c == Becomes(b, p, "COMPLETED")
<1>1. b \in Announcements /\ (In(a, q, {"REQUESTED", "COMPLETED"}) => b[q].state = a[q].state)
  <2>1. CASE b = a
    BY <2>1
  <2>2. CASE b # a
    <3> DEFINE r == Best(h, Ready(a))
    <3>1. Ready(a) # {} /\ b = Becomes(a, r, "CANDIDATE_BEST")
      BY <2>2 DEF SelectBest
    <3>2. r \in Peers /\ r \in Ready(a)
      BY <3>1, BestExists DEF Ready
    <3> HIDE DEF r, b
    <3>3. LET e == Becomes(a, r, "CANDIDATE_BEST")
          IN  /\ e \in Announcements
              /\ \A x \in Peers : e[x].state = IF x = r THEN "CANDIDATE_BEST" ELSE a[x].state
      BY <3>2, BecomesState, SMTT(20)
    <3> QED
      BY <3>1, <3>2, <3>3 DEF Ready, In
  <2> QED
    BY <2>1, <2>2
<1> HIDE DEF b
<1>2. \A x \in Peers : c[x].state = IF x = p THEN "COMPLETED" ELSE b[x].state
  BY <1>1, BecomesState, SMTT(20)
<1> HIDE DEF c
<1>3. Once(a, c, q) /\ Once(a, a, q) /\ Once(a, Nobody, q)
  BY <1>1, <1>2 DEF Once, In
<1>4. MakeCompleted(h, a, p) \in {a, Nobody, c}
  BY DEF MakeCompleted, ChangeAndReselect, b, c
<1> QED
  BY <1>3, <1>4

\* SetTimePoint completes the requests that timed out, and selects what was
\* neither asked nor completed.
LEMMA SetTimePointOnce ==
  ASSUME NEW h \in Hashes, NEW a \in Announcements, NEW q \in Peers
  PROVE  Once(a, SetTimePoint(h, a), q)
<1> DEFINE b == Passed(a)
<1>1. b \in Announcements
  BY SetType DEF Passed, Announcements, States
<1>2. In(a, q, {"REQUESTED", "COMPLETED"}) => In(b, q, {a[q].state, "COMPLETED"})
  BY SetType DEF Passed, Announcements, States, In
<1> HIDE DEF b
<1>3. Once(a, SelectBest(h, b), q)
  <2>1. CASE Ready(b) = {}
    BY <1>2, <2>1 DEF SelectBest, Once
  <2>2. CASE Ready(b) # {}
    <3> DEFINE r == Best(h, Ready(b))
    <3>1. r \in Peers /\ r \in Ready(b)
      BY <2>2, BestExists DEF Ready
    <3>2. SelectBest(h, b) = Becomes(b, r, "CANDIDATE_BEST")
      BY <2>2 DEF SelectBest
    <3> HIDE DEF r
    <3>3. \A x \in Peers : Becomes(b, r, "CANDIDATE_BEST")[x].state =
                             IF x = r THEN "CANDIDATE_BEST" ELSE b[x].state
      BY <1>1, <3>1, BecomesState, SMTT(20) DEF States
    <3> QED
      BY <1>2, <3>1, <3>2, <3>3 DEF Once, Ready, In
  <2> QED
    BY <2>1, <2>2
<1>4. Once(a, b, q) /\ Once(a, Nobody, q)
  BY <1>2 DEF Once
<1> QED
  BY <1>3, <1>4 DEF SetTimePoint, b

-----------------------------------------------------------------------------
(* What the calls of the manager do to the tracker. *)

\* The orphanage and the work sets leave the tracker alone.
LEMMA OrphanageTracker ==
  ASSUME NEW s, Sane(s), NEW t, NEW peers
  PROVE  /\ EraseTx(s, t).tracker = s.tracker
         /\ AddAnnouncers(s, t, peers).tracker = s.tracker
         /\ \A q \in LimitOrphans(s, t) \cup AddChildrenToWorkSet(s, t) : q.tracker = s.tracker
<1>1. ASSUME NEW g PROVE WithOrphans(s, g).tracker = s.tracker
  BY DEF WithOrphans, Sane, Manager, Fields
<1>2. ASSUME NEW g PROVE [s EXCEPT !.work = g].tracker = s.tracker
  BY DEF Sane, Manager, Fields
<1>3. ASSUME NEW q \in LimitOrphans(s, t) PROVE q.tracker = s.tracker
  BY <1>1 DEF LimitOrphans
<1>4. ASSUME NEW q \in AddChildrenToWorkSet(s, t) PROVE q.tracker = s.tracker
  <2>1. PICK g : q = [s EXCEPT !.work = g]
    BY DEF AddChildrenToWorkSet
  <2> QED
    BY <1>2, <2>1
<1>5. AddAnnouncers(s, t, peers).tracker = s.tracker
  BY <1>1 DEF AddAnnouncers
<1> QED
  BY <1>1, <1>3, <1>4, <1>5 DEF EraseTx

\* The filters leave the tracker alone.
LEMMA FiltersTracker ==
  ASSUME NEW s, Sane(s), NEW x
  PROVE  /\ [s EXCEPT !.rejects = @ \cup x].tracker = s.tracker
         /\ [s EXCEPT !.reconsiderable = @ \cup x].tracker = s.tracker
         /\ [s EXCEPT !.packages = @ \cup x].tracker = s.tracker
         /\ [s EXCEPT !.confirmed = @ \cup x].tracker = s.tracker
BY DEF Sane, Manager, Fields

\* ForgetTxHashes forgets the hashes it is given and no other.
LEMMA ForgetTxHashesTracker ==
  ASSUME NEW s, Sane(s), NEW hs, NEW h \in Hashes
  PROVE  ForgetTxHashes(s, hs).tracker[h] = IF h \in hs THEN Nobody ELSE s.tracker[h]
<1> DEFINE t == [g \in Hashes |-> IF g \in hs THEN Nobody ELSE s.tracker[g]]
<1>1. ForgetTxHashes(s, hs) = [s EXCEPT !.tracker = t]
  BY DEF ForgetTxHashes
<1> HIDE DEF t
<1>2. [s EXCEPT !.tracker = t].tracker = t
  BY DEF Sane, Manager, Fields
<1> QED
  BY <1>1, <1>2 DEF t

\* An accepted transaction: hashes are forgotten.
LEMMA MempoolAcceptedTxForgot ==
  ASSUME NEW s, Sane(s), NEW t, NEW q \in MempoolAcceptedTx(s, t)
  PROVE  Forgot(s, q)
<1>1. PICK w \in AddChildrenToWorkSet(ForgetTxHashes(s, Both(t)), t) : q = EraseTx(w, t)
  BY DEF MempoolAcceptedTx
<1>2. Sane(ForgetTxHashes(s, Both(t))) /\ Sane(w)
  BY <1>1, ForgetTxHashesSane, AddChildrenToWorkSetSane
<1>3. w.tracker = ForgetTxHashes(s, Both(t)).tracker
  BY <1>2, OrphanageTracker
<1>4. q.tracker = w.tracker
  BY <1>1, <1>2, OrphanageTracker
<1> QED
  BY <1>3, <1>4, ForgetTxHashesTracker, SMTT(20) DEF Forgot

\* A refused transaction: hashes are forgotten.
LEMMA NotAcceptedForgot ==
  ASSUME NEW s, Sane(s), NEW t, NEW result
  PROVE  Forgot(s, NotAccepted(s, t, result))
<1> DEFINE hs == IF result = "nonstandard" THEN Both(t) ELSE {Wtxid[t]}
           f == IF result = "reconsiderable" THEN [s EXCEPT !.reconsiderable = @ \cup hs]
                ELSE [s EXCEPT !.rejects = @ \cup hs]
           g == ForgetTxHashes(f, hs)
<1>1. Sane(f) /\ f.tracker = s.tracker
  <2> HIDE DEF hs
  <2> QED
    BY FiltersSane, FiltersTracker
<1> HIDE DEF f, hs
<1>2. Sane(g) /\ \A h \in Hashes : g.tracker[h] \in {s.tracker[h], Nobody}
  BY <1>1, ForgetTxHashesSane, ForgetTxHashesTracker, SMTT(20)
<1> HIDE DEF g
<1>3. EraseTx(g, t).tracker = g.tracker
  BY <1>2, OrphanageTracker
<1> QED
  BY <1>2, <1>3 DEF NotAccepted, f, g, hs, Forgot

\* The result of a transaction tried before: hashes are forgotten.
LEMMA ProcessedForgot ==
  ASSUME NEW s, Sane(s), NEW t, NEW result, NEW p, NEW q \in Processed(s, t, result, p)
  PROVE  Forgot(s, q)
<1>1. CASE result = "valid"
  BY <1>1, MempoolAcceptedTxForgot DEF Processed
<1>2. Forgot(s, s) /\ Forgot(s, EraseTx(s, t))
  BY OrphanageTracker DEF Forgot
<1>3. CASE result # "valid"
  <2>1. q \in {s, EraseTx(s, t), NotAccepted(s, t, result)}
    BY <1>3 DEF Processed, MempoolRejectedTx
  <2> QED
    BY <1>2, <2>1, NotAcceptedForgot
<1> QED
  BY <1>1, <1>3

\* The results of a package: hashes are forgotten.
LEMMA TryPackageForgot ==
  ASSUME NEW s, Sane(s), NEW t, NEW p, NEW out \in TryPackage(s, t, p)
  PROVE  Forgot(s, out[1])
<1>1. CASE out = <<s, mempool>>
  BY <1>1 DEF Forgot
<1>2. CASE out # <<s, mempool>>
  <2>1. PICK c, res : out \in ProcessPackageResult(s, t, c, res, p) \X {Entered(t, c, res)}
    BY <1>2 DEF TryPackage
  <2> DEFINE f == IF res[2] = "valid" THEN s
                  ELSE [s EXCEPT !.packages = @ \cup {{Wtxid[t], Wtxid[c]}}]
             q == out[1]
  <2>2. Sane(f) /\ f.tracker = s.tracker
    BY FiltersSane, FiltersTracker
  <2>3. q \in ProcessPackageResult(s, t, c, res, p)
    BY <2>1
  <2>4. PICK g \in Processed(f, c, res[2], p) : q \in Processed(g, t, res[1], p)
    BY <2>3 DEF ProcessPackageResult
  <2> HIDE DEF f, q
  <2>5. Sane(g) /\ Forgot(f, g)
    BY <2>2, ProcessedSane, ProcessedForgot
  <2>6. Forgot(g, q)
    BY <2>4, <2>5, ProcessedForgot
  <2>7. Forgot(s, q)
    BY <2>2, <2>5, <2>6 DEF Forgot
  <2> QED
    BY <2>7 DEF q
<1> QED
  BY <1>1, <1>2

\* Announcing leaves every announcement there is alone.
LEMMA AnnouncedTracker ==
  ASSUME NEW s, Sane(s), NEW peers, NEW hs, NEW wtxid \in BOOLEAN, NEW h \in Hashes,
         NEW p \in Peers, p \notin peers \/ s.tracker[h][p].state # "NONE"
  PROVE  Announced(s, peers, hs, wtxid).tracker[h][p] = s.tracker[h][p]
<1> DEFINE t == [g \in Hashes |-> [q \in Peers |->
                  IF g \in hs /\ q \in peers
                    THEN ReceivedInv(s.tracker[g][q], NoDelay(s, q, wtxid), wtxid)
                  ELSE s.tracker[g][q]]]
<1>1. Announced(s, peers, hs, wtxid) = [s EXCEPT !.tracker = t]
  BY DEF Announced
<1>2. t[h][p] = s.tracker[h][p]
  BY DEF ReceivedInv
<1> HIDE DEF t
<1>3. [s EXCEPT !.tracker = t].tracker = t
  BY DEF Sane, Manager, Fields
<1> QED
  BY <1>1, <1>2, <1>3

\* Orphan resolution only adds announcements, of connected peers.
LEMMA ResolveTracker ==
  ASSUME NEW s, Sane(s), NEW t, NEW peers, NEW h \in Hashes, NEW p \in Peers,
         p \notin connected \/ s.tracker[h][p].state # "NONE"
  PROVE  Resolve(s, t, peers).tracker[h][p] = s.tracker[h][p]
<1> DEFINE ps == {x \in peers : Candidate(s, t, x)}
           hs == MissingParents(s, t)
           a == Announced(s, ps, hs, FALSE)
<1>1. p \notin ps \/ s.tracker[h][p].state # "NONE"
  BY DEF Candidate
<1>2. Resolve(s, t, peers) = AddAnnouncers(a, t, ps)
  BY DEF Resolve
<1> HIDE DEF ps, hs
<1>3. Sane(a)
  BY AnnouncedSane
<1>4. a.tracker[h][p] = s.tracker[h][p]
  <2>1. ASSUME NEW w \in BOOLEAN
        PROVE  Announced(s, ps, hs, w).tracker[h][p] = s.tracker[h][p]
    BY <1>1, AnnouncedTracker, SMTT(20)
  <2> QED
    BY <2>1
<1> HIDE DEF a
<1>5. AddAnnouncers(a, t, ps).tracker = a.tracker
  BY <1>3, OrphanageTracker
<1> QED
  BY <1>2, <1>4, <1>5

\* A new orphan: its own hashes are forgotten, its parents' announced.
LEMMA MissingInputsAsked ==
  ASSUME NEW s, Sane(s), NEW t, NEW p, NEW q \in MissingInputs(s, t, p)
  PROVE  AskedFor(s, t, q)
<1> DEFINE peers == {p} \cup UNION {GetCandidatePeers(s.tracker[h]) : h \in Both(t)}
           r == [s EXCEPT !.rejects = @ \cup Both(t)]
<1>1. CASE RejectedParents(s, t)
  <2>1. q = ForgetTxHashes(r, Both(t))
    BY <1>1 DEF MissingInputs
  <2>2. Sane(r) /\ r.tracker = s.tracker
    BY FiltersSane, FiltersTracker
  <2> HIDE DEF r
  <2> QED
    BY <2>1, <2>2, ForgetTxHashesTracker, SMTT(20) DEF AskedFor
<1>2. CASE ~RejectedParents(s, t)
  <2> DEFINE e == Resolve(s, t, peers)
             f == ForgetTxHashes(e, Both(t))
  <2>1. q \in LimitOrphans(f, t)
    BY <1>2 DEF MissingInputs
  <2> HIDE DEF peers
  <2>2. Sane(e) /\ \A h \in Hashes : \A x \in Peers :
                     s.tracker[h][x].state # "NONE" => e.tracker[h][x] = s.tracker[h][x]
    BY ResolveSane, ResolveTracker, SMTT(20)
  <2> HIDE DEF e
  <2>3. Sane(f) /\ \A h \in Hashes :
                     f.tracker[h] = IF h \in Both(t) THEN Nobody ELSE e.tracker[h]
    BY <2>2, ForgetTxHashesSane, ForgetTxHashesTracker, SMTT(20)
  <2> HIDE DEF f
  <2>4. q.tracker = f.tracker
    BY <2>1, <2>3, OrphanageTracker
  <2> QED
    BY <2>2, <2>3, <2>4, SMTT(20) DEF AskedFor
<1> QED
  BY <1>1, <1>2

\* A transaction tried for the first time: hashes are forgotten, its own among
\* them if others are announced.
LEMMA TryReceivedAsked ==
  ASSUME NEW s, Sane(s), NEW t, NEW p, NEW out \in TryReceived(s, t, p)
  PROVE  AskedFor(s, t, out[1])
<1>1. ASSUME NEW q, Forgot(s, q) PROVE AskedFor(s, t, q)
  BY <1>1 DEF Forgot, AskedFor
<1>2. CASE out = <<s, mempool>>
  BY <1>2 DEF AskedFor
<1>3. CASE out \in TryPackage(s, t, p)
  BY <1>1, <1>3, TryPackageForgot
<1>4. ASSUME NEW result, out \in TryTx(s, t, p, result)
      PROVE  AskedFor(s, t, out[1])
  <2>1. CASE result = "valid"
    <3>1. out[1] \in MempoolAcceptedTx(s, t)
      BY <1>4, <2>1 DEF TryTx
    <3> QED
      BY <1>1, <3>1, MempoolAcceptedTxForgot
  <2>2. CASE result # "valid"
    <3>1. PICK f \in MempoolRejectedTx(s, t, result, p, TRUE) :
            out \in IF result = "reconsiderable" THEN TryPackage(f, t, p) ELSE {<<f, mempool>>}
      BY <1>4, <2>2 DEF TryTx
    <3>2. AskedFor(s, t, f)
      <4>1. f \in MissingInputs(s, t, p) \/ f \in {s, EraseTx(s, t), NotAccepted(s, t, result)}
        BY DEF MempoolRejectedTx
      <4>2. Forgot(s, s) /\ Forgot(s, EraseTx(s, t))
        BY OrphanageTracker DEF Forgot
      <4> QED
        BY <1>1, <4>1, <4>2, MissingInputsAsked, NotAcceptedForgot
    <3>3. Forgot(f, out[1])
      <4>1. Sane(f)
        BY MempoolRejectedTxSane
      <4>2. CASE out \in TryPackage(f, t, p)
        BY <4>1, <4>2, TryPackageForgot
      <4>3. CASE out = <<f, mempool>>
        BY <4>3 DEF Forgot
      <4> QED
        BY <3>1, <4>2, <4>3
    <3> QED
      BY <3>2, <3>3 DEF AskedFor, Forgot
  <2> QED
    BY <2>1, <2>2
<1> QED
  BY <1>2, <1>3, <1>4 DEF TryReceived

\* A response completes announcements and leaves those of other hashes alone.
LEMMA AnsweredTracker ==
  ASSUME NEW s, Sane(s), NEW t, NEW p \in Peers, NEW h \in Hashes
  PROVE  Answered(s, p, t).tracker[h] =
            IF h \in Both(t) THEN MakeCompleted(h, s.tracker[h], p) ELSE s.tracker[h]
<1> DEFINE r == [g \in Hashes |-> IF g \in Both(t) THEN ReceivedResponse(g, s.tracker[g], p)
                                 ELSE s.tracker[g]]
<1>1. Answered(s, p, t) = [s EXCEPT !.tracker = r]
  BY DEF Answered
<1> HIDE DEF r
<1>2. [s EXCEPT !.tracker = r].tracker = r
  BY DEF Sane, Manager, Fields
<1> QED
  BY <1>1, <1>2 DEF r, ReceivedResponse

\* GetRequestsToSend asks for what was neither asked nor completed.
LEMMA GetRequestsToSendOnce ==
  ASSUME NEW s, Sane(s), NEW p \in Peers, NEW h \in Hashes, NEW q \in Peers
  PROVE  Once(s.tracker[h], GetRequestsToSend(s, p).tracker[h], q)
<1> DEFINE t == [g \in Hashes |->
                  IF g \in Requests(s, p) THEN RequestedTx(SetTimePoint(g, s.tracker[g]), p)
                  ELSE IF g \in Requestable(s, p) THEN Nobody
                  ELSE SetTimePoint(g, s.tracker[g])]
           a == s.tracker[h]
           b == SetTimePoint(h, a)
<1>1. GetRequestsToSend(s, p) = [s EXCEPT !.tracker = t]
  BY DEF GetRequestsToSend
<1>2. \/ t[h] \in {Nobody, b}
      \/ t[h] = RequestedTx(b, p) /\ In(b, p, {"CANDIDATE_BEST"})
  BY DEF Requests, Requestable
<1> HIDE DEF t
<1>3. [s EXCEPT !.tracker = t].tracker = t
  BY DEF Sane, Manager, Fields
<1>4. a \in Announcements /\ SaneFor(h, a)
  BY DEF Sane
<1> HIDE DEF a
<1>5. Once(a, b, q) /\ b \in Announcements
  BY <1>4, SetTimePointOnce, SetTimePointSane
<1> HIDE DEF b
<1>6. Once(a, Nobody, q)
  BY DEF Once
<1>7. ASSUME In(b, p, {"CANDIDATE_BEST"}) PROVE Once(a, RequestedTx(b, p), q)
  <2>1. \A x \in Peers : RequestedTx(b, p)[x].state = IF x = p THEN "REQUESTED" ELSE b[x].state
    BY <1>5, BecomesState, SMTT(20) DEF States, RequestedTx
  <2>2. CASE b = Nobody
    BY <1>7, <2>2 DEF Nobody, NoAnnouncement, In
  <2>3. CASE b # Nobody
    BY <1>5, <1>7, <2>1, <2>3 DEF Once, In
  <2> QED
    BY <2>2, <2>3
<1> QED
  BY <1>1, <1>2, <1>3, <1>5, <1>6, <1>7 DEF a

\* A connected peer that was asked for a hash or is done with it stays so in
\* every step, unless the hash is forgotten or the peer leaves.
LEMMA NextOnce ==
  ASSUME Sane(d), Next, NEW h \in Hashes, NEW p \in Peers, p \in connected'
  PROVE  Once(d.tracker[h], d'.tracker[h], p)
<1> DEFINE a == d.tracker[h]
<1>1. a \in Announcements
  BY DEF Sane
<1>2. ASSUME NEW b, b \in {a, Nobody} PROVE Once(a, b, p)
  BY <1>2 DEF Once, In
<1> USE DEF Becoming
<1>3. ASSUME NEW q \in Peers, ConnectedPeer(q) PROVE Once(a, d'.tracker[h], p)
  BY <1>2, <1>3 DEF ConnectedPeer
<1>4. ASSUME NEW q \in Peers, FinalizeNode(q) PROVE Once(a, d'.tracker[h], p)
  <2> DEFINE e == EraseForPeer(d, q)
             r == [g \in Hashes |-> DisconnectedPeer(g, e.tracker[g], q)]
             b == MakeCompleted(h, a, q)
  <2>1. d' = [e EXCEPT !.tracker = r] /\ p # q
    BY <1>4 DEF FinalizeNode
  <2>2. Sane(e) /\ e.tracker = d.tracker
    <3> DEFINE f == [o \in {o \in Orphans(d) : d.orphans[o] # {q}} |-> d.orphans[o] \ {q}]
               w == WithOrphans(d, f)
    <3>1. Sane(w) /\ w.tracker = d.tracker
      <4> HIDE DEF f
      <4>1. w.tracker = d.tracker
        BY DEF WithOrphans, Sane, Manager, Fields
      <4> QED
        BY <4>1, WithOrphansSane
    <3>2. e = [w EXCEPT !.work[q] = {}]
      BY DEF EraseForPeer
    <3> HIDE DEF w, e
    <3>3. [w EXCEPT !.work[q] = {}] = [w EXCEPT !.work = [w.work EXCEPT ![q] = {}]]
      BY <3>1 DEF Sane, Manager, Fields
    <3>4. [w EXCEPT !.work = [w.work EXCEPT ![q] = {}]].tracker = w.tracker
      BY <3>1 DEF Sane, Manager, Fields
    <3> QED
      BY <3>1, <3>2, <3>3, <3>4, WithWorkSane
  <2> HIDE DEF e
  <2>3. d'.tracker[h] = [b EXCEPT ![q] = NoAnnouncement]
    <3>1. r[h] = [b EXCEPT ![q] = NoAnnouncement]
      BY <2>2 DEF DisconnectedPeer
    <3> HIDE DEF r
    <3>2. [e EXCEPT !.tracker = r].tracker = r
      BY <2>2 DEF Sane, Manager, Fields
    <3> QED
      BY <2>1, <3>1, <3>2
  <2>4. Once(a, b, p)
    BY <1>1, MakeCompletedOnce
  <2>5. b \in Announcements
    BY MakeCompletedSane DEF Sane
  <2> HIDE DEF a, b, r
  <2>6. d'.tracker[h][p] = b[p] /\ (b = Nobody => d'.tracker[h] = Nobody)
    BY <2>1, <2>3, <2>5 DEF Announcements, Nobody
  <2> QED
    BY <2>4, <2>6 DEF Once, In
<1>5. ASSUME NEW q \in Peers, SendMessages(q) PROVE Once(a, d'.tracker[h], p)
  BY <1>5, GetRequestsToSendOnce DEF SendMessages
<1>6. ASSUME NEW q \in Peers, ProcessOrphanTx(q) PROVE Once(a, d'.tracker[h], p)
  <2> DEFINE W(over, t) == [d EXCEPT !.work[q] = @ \ (over \cup {t})]
  <2>1. ASSUME NEW over, NEW t PROVE Sane(W(over, t)) /\ W(over, t).tracker = d.tracker
    <3>1. W(over, t).tracker = d.tracker
      BY DEF Sane, Manager, Fields
    <3> QED
      BY <3>1, WithWorkSane
  <2>2. [d EXCEPT !.work[q] = {}].tracker = d.tracker
    BY DEF Sane, Manager, Fields
  <2> HIDE DEF W
  <2>3. PICK over :
          \/ d' = [d EXCEPT !.work[q] = {}]
          \/ \E t, result : \E s \in Processed(W(over, t), t, result, q) : d' = s
    BY <1>6 DEF ProcessOrphanTx, W
  <2>4. CASE d' = [d EXCEPT !.work[q] = {}]
    BY <1>2, <2>2, <2>4
  <2>5. CASE \E t, result : \E s \in Processed(W(over, t), t, result, q) : d' = s
    <3>1. PICK t, result : d' \in Processed(W(over, t), t, result, q)
      BY <2>5
    <3>2. Sane(W(over, t)) /\ W(over, t).tracker = d.tracker
      BY <2>1
    <3>3. Forgot(W(over, t), d')
      BY <3>1, <3>2, ProcessedForgot
    <3> QED
      BY <1>2, <3>2, <3>3 DEF Forgot
  <2> QED
    BY <2>3, <2>4, <2>5
<1>7. ASSUME NEW q \in Peers, NEW t, Inv(q, t) PROVE Once(a, d'.tracker[h], p)
  <2> DEFINE g == IF q \in WtxidRelay THEN Wtxid[t] ELSE Txid[t]
             wtxid == q \in WtxidRelay
             orphan == {o \in Orphans(d) : wtxid /\ Wtxid[o] = g}
             o == CHOOSE o \in orphan : TRUE
  <2>1. d' \in {d, Announced(d, {q}, {g}, wtxid), Resolve(d, o, {q})}
    BY <1>7 DEF Inv, AddTxAnnouncement
  <2>2. wtxid \in BOOLEAN
    OBVIOUS
  <2> HIDE DEF g, wtxid, o
  <2>3. a[p].state # "NONE" => d'.tracker[h][p] = a[p]
    BY <2>1, <2>2, AnnouncedTracker, ResolveTracker, SMTT(20)
  <2> HIDE DEF a
  <2> QED
    BY <2>3 DEF Once, In
<1>8. ASSUME NEW q \in Peers, NEW t, Tx(q, t) PROVE Once(a, d'.tracker[h], p)
  <2> DEFINE e == Answered(d, q, t)
             b == e.tracker[h]
  <2>1. PICK out \in TryReceived(e, t, q) : d' = out[1]
    BY <1>8 DEF Tx
  <2>2. Sane(e) /\ b = IF h \in Both(t) THEN MakeCompleted(h, a, q) ELSE a
    BY AnsweredSane, AnsweredTracker
  <2> HIDE DEF e
  <2>3. AskedFor(e, t, d')
    BY <2>1, <2>2, TryReceivedAsked
  <2>4. Once(a, b, p)
    BY <1>1, <1>2, <2>2, MakeCompletedOnce
  <2>5. \/ d'.tracker[h] \in {b, Nobody}
        \/ h \notin Both(t) /\ (b[p].state # "NONE" => d'.tracker[h][p] = b[p])
    BY <2>3 DEF AskedFor
  <2> HIDE DEF a, b
  <2>6. CASE d'.tracker[h] \in {b, Nobody}
    BY <2>4, <2>6 DEF Once
  <2>7. CASE h \notin Both(t) /\ (b[p].state # "NONE" => d'.tracker[h][p] = b[p])
    BY <2>2, <2>7 DEF Once, In
  <2> QED
    BY <2>5, <2>6, <2>7
<1>9. ASSUME NEW q \in Peers, NEW g \in Hashes, ReceivedNotFound(q, g)
      PROVE  Once(a, d'.tracker[h], p)
  <2> DEFINE r == [d.tracker EXCEPT ![g] = ReceivedResponse(g, @, q)]
  <2>1. r[h] \in {a, MakeCompleted(h, a, q)}
    BY DEF Sane, ReceivedResponse
  <2>2. d' = [d EXCEPT !.tracker = r]
    BY <1>9 DEF ReceivedNotFound
  <2> HIDE DEF r
  <2>3. d'.tracker = r
    BY <2>2 DEF Sane, Manager, Fields
  <2> QED
    BY <1>1, <1>2, <2>1, <2>3, MakeCompletedOnce
<1>10. ASSUME NEW q \in Peers, NEW g \in Hashes, TimePasses(q, g)
       PROVE  Once(a, d'.tracker[h], p)
  <2> DEFINE r == [d.tracker EXCEPT ![g][q].due = TRUE]
  <2>1. r[h][p].state = a[p].state
    BY <1>1 DEF Sane, Announcements
  <2>2. d' = [d EXCEPT !.tracker = r]
    BY <1>10 DEF TimePasses
  <2> HIDE DEF r
  <2>3. d'.tracker = r
    BY <2>2 DEF Sane, Manager, Fields
  <2> HIDE DEF a
  <2> QED
    BY <2>1, <2>3 DEF Once, In
<1>11. TipChanged(d).tracker = d.tracker /\ BlockDisconnected(d).tracker = d.tracker
  BY DEF Sane, Manager, Fields, TipChanged, BlockDisconnected
<1>12. ASSUME NEW B, ConnectTip(B) PROVE Once(a, d'.tracker[h], p)
  BY <1>2, <1>11, <1>12 DEF ConnectTip
<1>13. CASE DisconnectTip \/ ActiveTipChange
  BY <1>2, <1>11, <1>13 DEF DisconnectTip, ActiveTipChange
<1>14. CASE DeliverSignal
  <2>1. ASSUME NEW B PROVE BlockConnected(d, B).tracker[h] \in {a, Nobody}
    <3> DEFINE hs == UNION {Both(t) : t \in B}
               e == EraseForBlock(d, B)
               f == [e EXCEPT !.confirmed = @ \cup hs]
    <3>1. Sane(e) /\ e.tracker = d.tracker
      BY WithOrphansSane DEF EraseForBlock, WithOrphans, Sane, Manager, Fields
    <3> HIDE DEF e, hs
    <3>2. Sane(f) /\ f.tracker = d.tracker
      BY <3>1, FiltersSane, FiltersTracker
    <3> HIDE DEF f
    <3>3. ForgetTxHashes(f, hs).tracker[h] \in {a, Nobody}
      BY <3>2, ForgetTxHashesTracker, SMTT(20)
    <3> QED
      BY <3>3 DEF BlockConnected, f, e, hs
  <2> QED
    BY <1>2, <1>11, <1>14, <2>1 DEF DeliverSignal
<1> QED
  BY <1>3, <1>4, <1>5, <1>6, <1>7, <1>8, <1>9, <1>10, <1>12, <1>13, <1>14 DEF Next

\* Only known peers connect.
LEMMA NextConnected ==
  ASSUME connected \subseteq Peers, [Next]_vars
  PROVE  connected' \subseteq Peers
BY DEF Next, vars, ConnectedPeer, FinalizeNode, SendMessages, ProcessOrphanTx, Inv, Tx,
       ReceivedNotFound, TimePasses, ConnectTip, DisconnectTip, ActiveTipChange,
       DeliverSignal

\* No peer is asked twice for the same hash while it is connected and the hash
\* is tracked, whatever the peers announce, send and withhold, and whatever the
\* limits are: neither a second announcement, a timeout, a late or an
\* unrequested answer nor the resolution of orphans revives an announcement.
THEOREM TrackerAsksOnce == Spec => AskedOnce
<1> DEFINE Inv0 == Sane(d) /\ connected \subseteq Peers
           Step == \A h \in Hashes : \A p \in connected \cap connected' :
                      Once(d.tracker[h], d'.tracker[h], p)
<1>1. Init => Inv0
  BY InitSane DEF Init
<1>2. Inv0 /\ [Next]_vars => Inv0'
  BY NextSane, NextConnected
<1>3. Inv0 /\ [Next]_vars => [Step]_vars
  BY NextOnce
<1>4. [Step]_vars => [\A h \in Hashes : \A p \in connected \cap connected' :
          In(d.tracker[h], p, {"REQUESTED", "COMPLETED"}) =>
              \/ In(d'.tracker[h], p, {d.tracker[h][p].state, "COMPLETED"})
              \/ d'.tracker[h] = Nobody]_vars
  BY DEF Once
<1> QED
  BY <1>1, <1>2, <1>3, <1>4, PTL DEF Spec, AskedOnce

=============================================================================
