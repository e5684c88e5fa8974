------------------------------ MODULE TxRequest ------------------------------
(***************************************************************************)
(* TxRequestTracker (txrequest.cpp): which peer is asked for which         *)
(* transaction.  The tracker maps a hash and a peer to the announcement of *)
(* that hash by that peer; each operator gives the announcements of one    *)
(* hash after a call.                                                      *)
(*                                                                         *)
(* An announcement that waits for its reqtime or expiry is due once that   *)
(* time has passed.  The counters of m_peerinfo are counted afresh, and    *)
(* the order in which a peer's hashes are returned is left open.           *)
(***************************************************************************)
EXTENDS Naturals, FiniteSets

CONSTANTS Peers, Hashes,
          Rank      \* PriorityComputer: hash -> peer -> place, 0 first

ASSUME TxRequestAssumption ==
    /\ Rank \in [Hashes -> [Peers -> Nat]]
    /\ \A h \in Hashes : \A p, q \in Peers : Rank[h][p] = Rank[h][q] => p = q

States == {"NONE", "CANDIDATE_DELAYED", "CANDIDATE_READY", "CANDIDATE_BEST",
           "REQUESTED", "COMPLETED"}

\* m_is_wtxid tells an announced wtxid from a txid.
Announcements == [Peers -> [state : States, due : BOOLEAN, wtxid : BOOLEAN]]

NoAnnouncement == [state |-> "NONE", due |-> FALSE, wtxid |-> FALSE]
Nobody == [p \in Peers |-> NoAnnouncement]

In(a, p, states) == a[p].state \in states
Selected(a) == {p \in Peers : In(a, p, {"CANDIDATE_BEST", "REQUESTED"})}
Waiting(a, p) == In(a, p, {"CANDIDATE_DELAYED", "REQUESTED"})
NonCompleted(a) == {p \in Peers : ~In(a, p, {"NONE", "COMPLETED"})}

Set(ann, s) == [ann EXCEPT !.state = s, !.due = FALSE]
Becomes(a, p, s) == [a EXCEPT ![p] = Set(@, s)]

\* The announcement of highest priority among those of S.
Best(h, S) == CHOOSE p \in S : \A q \in S : Rank[h][p] <= Rank[h][q]

Ready(a) == {p \in Peers : In(a, p, {"CANDIDATE_READY"})}

\* The best ready announcement, if any, is selected.
SelectBest(h, a) ==
    IF Ready(a) = {} THEN a ELSE Becomes(a, Best(h, Ready(a)), "CANDIDATE_BEST")

\* ChangeAndReselect_Not: the next best is not selected.
ChangeAndReselect_Not(h, a, p, s) == Becomes(a, p, s)

ChangeAndReselect(h, a, p, s) ==
    Becomes(IF p \in Selected(a) THEN SelectBest(h, a) ELSE a, p, s)

MakeCompleted(h, a, p) ==
    IF p \notin NonCompleted(a) THEN a
    ELSE IF NonCompleted(a) = {p} THEN Nobody
    ELSE ChangeAndReselect(h, a, p, "COMPLETED")

Passed(a) ==
    [p \in Peers |->
        IF In(a, p, {"CANDIDATE_BEST"}) \/ (In(a, p, {"CANDIDATE_DELAYED"}) /\ a[p].due)
          THEN Set(a[p], "CANDIDATE_READY")
        ELSE IF In(a, p, {"REQUESTED"}) /\ a[p].due
          THEN Set(a[p], "COMPLETED")
        ELSE a[p]]

\* SetTimePoint_Again: what timed out can be requested again.
SetTimePoint_Again(h, a) ==
    LET b == [p \in Peers |->
                IF In(a, p, {"CANDIDATE_BEST"}) \/ (Waiting(a, p) /\ a[p].due)
                  THEN Set(a[p], "CANDIDATE_READY") ELSE a[p]]
    IN  IF Selected(b) # {} THEN b ELSE SelectBest(h, b)

\* What the loops over the due announcements leave: those that were delayed
\* are ready, requests that timed out completed, the best ready one selected
\* if no request is outstanding, and a hash nobody is left for is forgotten.
SetTimePoint(h, a) ==
    LET b == Passed(a)
    IN  IF NonCompleted(b) = {} THEN Nobody
        ELSE IF Selected(b) # {} THEN b
        ELSE SelectBest(h, b)

DisconnectedPeer(h, a, p) ==
    [MakeCompleted(h, a, p) EXCEPT ![p] = NoAnnouncement]

GetCandidatePeers(a) == NonCompleted(a)

\* A second announcement of the same hash is ignored.
ReceivedInv(ann, due, wtxid) ==
    IF ann.state # "NONE" THEN ann
    ELSE [state |-> "CANDIDATE_DELAYED", due |-> due, wtxid |-> wtxid]

\* Called for what GetRequestable returned: the announcement is the best.
RequestedTx(a, p) == Becomes(a, p, "REQUESTED")

ReceivedResponse(h, a, p) == MakeCompleted(h, a, p)

\* The announcements of one hash as SanityCheck (txrequest.cpp:325) asks.
SaneFor(h, a) ==
    /\ \A p, q \in Selected(a) : p = q
    /\ Ready(a) # {} => Selected(a) # {}
    /\ \A p \in Selected(a), q \in Ready(a) :
          In(a, p, {"CANDIDATE_BEST"}) => Rank[h][p] <= Rank[h][q]
    /\ NonCompleted(a) = {} => a = Nobody

=============================================================================
