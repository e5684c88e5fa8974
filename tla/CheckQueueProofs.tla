-------------------------- MODULE CheckQueueProofs --------------------------
(***************************************************************************)
(* The counters of CCheckQueue are exact and every round returns the       *)
(* result of its own checks, for any number of workers, any batch size and *)
(* any checks.                                                             *)
(*                                                                         *)
(* The property is not inductive.  An error is in one of five places, and  *)
(* it is not lost between them: Pending says where it still may be,        *)
(* ErrorsInv that a thread that hands in nothing hands in nothing because  *)
(* there is an error already.  The counters are what tells the master that *)
(* there is no sixth place, with nTodo = 0 nobody has a batch: Covered     *)
(* states what the errors need of them, and CountersInv shows it.          *)
(*                                                                         *)
(* Loop is one critical section with three ways in and four ways out, and  *)
(* the proof follows it: Inside(t, s) is what holds in the middle, when t  *)
(* has m_mutex and the values in s, and neither way in or way out is       *)
(* looked at twice.                                                        *)
(***************************************************************************)
EXTENDS CheckQueue, TLAPS

\* Provers and seconds for the steps that name no prover of their own.
USE ZenonT(10), SMTT(20)

USE CheckQueueAssumption

HasBatch(t) == pc[t] = "work" \/ (pc[t] = "enter" /\ nNow[t] > 0)

InRound == phase \in {"adding", "completing"}

\* The types of everything but the counters.
Typed ==
    /\ queue \in Seq(Check)
    /\ vChecks \in [Threads -> Seq(Check)]
    /\ m_result \in Result /\ returned \in Result
    /\ m_request_stop \in BOOLEAN /\ failing \in BOOLEAN
    /\ pc \in [Threads -> PCs]
    /\ nNow \in [Threads -> 0 .. nBatchSize]
    /\ local_result \in [Threads -> Result]
    /\ do_work \in [Threads -> BOOLEAN]
    /\ phase \in {"idle", "adding", "completing", "stopping", "gone"}
    /\ notify \in {"none", "one", "all"}
    /\ round \in 0 .. MaxRounds /\ adds \in 0 .. MaxAdds

\* The master is in Loop while it completes a round; workers leave Loop only
\* for a stop.
ControlInv ==
    /\ phase = "completing" <=> pc[Master] # "out"
    /\ pc[Master] = "out" => nNow[Master] = 0
    /\ m_request_stop <=> phase \in {"stopping", "gone"}
    /\ \A w \in Workers : pc[w] = "out" => m_request_stop
    /\ \A t \in Threads : pc[t] = "work" => nNow[t] > 0
    /\ InRound => round > 0

\* A thread that has an error of this round to report, or will have.
Reporter(t) ==
    \/ /\ pc[t] = "work" /\ do_work[t]
       /\ \E i \in DOMAIN vChecks[t] : vChecks[t][i].fails
    \/ pc[t] = "enter" /\ nNow[t] > 0 /\ local_result[t] = round

\* The error of the round is still to be found or handed in.
Pending ==
    \/ \E i \in DOMAIN queue : queue[i].fails
    \/ \E t \in Threads : Reporter(t)

OfRound(check) == check.round = round /\ (check.fails => failing)

\* What t has is of this round, and it skips checks only if there is a result r.
Honest(t, r) ==
    /\ pc[t] = "work" => \A i \in DOMAIN vChecks[t] : OfRound(vChecks[t][i])
    /\ pc[t] = "work" /\ ~do_work[t] => r # None
    /\ pc[t] = "enter" /\ nNow[t] > 0 =>
          \/ local_result[t] = None
          \/ r # None
          \/ local_result[t] = round /\ failing

\* Every check and every error a thread may hand in is of this round, and a
\* failing check leads to an error.
ErrorsInv ==
    /\ m_result # None => m_result = round /\ failing
    /\ ~InRound => m_result = None
    /\ InRound /\ failing => m_result # None \/ Pending
    /\ \A i \in DOMAIN queue : OfRound(queue[i])
    /\ \A t \in Threads : Honest(t, m_result)

EInv == Typed /\ ControlInv /\ ErrorsInv /\ ResultOfThisRound

\* What the errors need of the counters: nTodo covers the batches of all
\* threads, and there is nothing to do between rounds.
Covered ==
    /\ nTodo \in Nat /\ nIdle \in Nat /\ nTotal \in Nat
    /\ ~InRound => nTodo = 0
    /\ nTodo = 0 => queue = <<>>
    /\ \A t \in Threads : HasBatch(t) => nNow[t] <= nTodo
    /\ \A t, u \in Threads : t # u /\ HasBatch(t) /\ HasBatch(u) => nNow[t] < nTodo
    /\ \A t \in Threads : pc[t] = "woken" => nIdle > 0

-----------------------------------------------------------------------------
(* The middle of Loop's critical section *)

Inside(t, s) ==
    /\ pc[t] \in {"enter", "woken"}
    /\ s.pc \in [Threads -> PCs]
    /\ \A u \in Threads :
          s.pc[u] = pc[u] \/ (u = Master /\ pc[u] = "wait" /\ s.pc[u] = "woken")
    /\ s.idle \in Nat /\ s.total \in Nat
    /\ s.todo = 0 => \A u \in Threads \ {t} : ~HasBatch(u)
    /\ s.result \in Result /\ s.local \in Result
    /\ s.result # None => s.result = round /\ failing
    /\ ~InRound => s.result = None
    /\ InRound /\ failing =>
          \/ s.result # None
          \/ \E i \in DOMAIN queue : queue[i].fails
          \/ \E u \in Threads \ {t} : Reporter(u)
    /\ \A u \in Threads \ {t} : Honest(u, s.result)

\* The three ways in: t hands in its batch, begins Loop, or returns from
\* cond.wait.
HandsIn(t, s) == pc[t] = "enter" /\ nNow[t] > 0 /\ s = HandIn(t)

Begins(t, s) == pc[t] = "enter" /\ ~(nNow[t] > 0) /\ s = FirstIteration(t)

WakesUp(t, s) ==
    /\ pc[t] = "woken"
    /\ s = Section(pc, nTotal, nIdle - 1, nTodo, m_result, local_result[t])

\* A thread hands in its batch.
LEMMA HandInInside ==
  ASSUME EInv, Covered, NEW t \in Threads, NEW s, HandsIn(t, s)
  PROVE  Inside(t, s)
<1> DEFINE swap == local_result[t] # None /\ m_result = None
<1>1. Typed /\ ControlInv /\ ErrorsInv
  BY DEF EInv
<1>2. /\ s.pc = IF s.todo = 0 /\ t # Master THEN MasterNotified ELSE pc
      /\ s.total = nTotal /\ s.idle = nIdle
      /\ s.todo = nTodo - nNow[t]
      /\ s.result = IF swap THEN local_result[t] ELSE m_result
      /\ s.local = IF swap THEN m_result ELSE local_result[t]
  BY DEF HandsIn, HandIn, Section
<1>3. pc[t] = "enter" /\ nNow[t] \in 1 .. nBatchSize /\ HasBatch(t)
  BY <1>1, SMTT(20) DEF Typed, HasBatch, HandsIn
<1>4. s.idle \in Nat /\ s.total \in Nat
  BY <1>2 DEF Covered
<1>5. ASSUME s.todo = 0, NEW u \in Threads \ {t} PROVE ~HasBatch(u)
  BY <1>2, <1>3, <1>5, SMTT(20) DEF Covered
<1>6. InRound
  BY <1>3 DEF Covered
<1>10. /\ s.pc \in [Threads -> PCs]
       /\ \A u \in Threads :
             s.pc[u] = pc[u] \/ (u = Master /\ pc[u] = "wait" /\ s.pc[u] = "woken")
  BY <1>1, <1>2 DEF Typed, MasterNotified, Threads, PCs
<1>11. s.result \in Result /\ s.local \in Result
  BY <1>1, <1>2 DEF Typed, Result
<1>12. local_result[t] = None \/ m_result # None \/ (local_result[t] = round /\ failing)
  BY <1>1, <1>3 DEF ErrorsInv, Honest
<1>13. m_result # None => s.result # None
  BY <1>2
<1>14. s.result # None => s.result = round /\ failing
  BY <1>1, <1>2, <1>12 DEF ErrorsInv
<1>16. ASSUME InRound, failing
       PROVE  \/ s.result # None
              \/ \E i \in DOMAIN queue : queue[i].fails
              \/ \E u \in Threads \ {t} : Reporter(u)
  <2>1. CASE m_result # None
    BY <2>1, <1>13
  <2>2. CASE \E i \in DOMAIN queue : queue[i].fails
    BY <2>2
  <2>3. CASE m_result = None /\ \E u \in Threads : Reporter(u)
    <3>1. PICK u \in Threads : Reporter(u)
      BY <2>3
    <3>2. CASE u # t
      BY <3>1, <3>2
    <3>3. CASE u = t
      <4>1. local_result[t] = round
        BY <1>3, <3>1, <3>3 DEF Reporter
      <4>2. round # None
        BY <1>1, SMTT(20) DEF Typed
      <4> QED
        BY <1>2, <2>3, <4>1, <4>2
    <3> QED
      BY <3>2, <3>3
  <2> QED
    BY <1>1, <1>16, <2>1, <2>2, <2>3 DEF ErrorsInv, Pending
<1>17. \A u \in Threads \ {t} : Honest(u, s.result)
  BY <1>1, <1>13 DEF ErrorsInv, Honest
<1> QED
  BY <1>3, <1>4, <1>5, <1>6, <1>10, <1>11, <1>14, <1>16, <1>17 DEF Inside

\* A thread begins Loop, or returns from cond.wait: it has no batch.
LEMMA NoBatchInside ==
  ASSUME EInv, Covered, NEW t \in Threads, NEW s, Begins(t, s) \/ WakesUp(t, s)
  PROVE  Inside(t, s)
<1>1. Typed /\ ControlInv /\ ErrorsInv
  BY DEF EInv
<1>2. /\ s.pc = pc /\ s.todo = nTodo
      /\ s.result = m_result /\ s.local = local_result[t]
  BY DEF Begins, WakesUp, FirstIteration, Section
<1>3. /\ pc[t] \in {"enter", "woken"}
      /\ ~Reporter(t)
  BY DEF Begins, WakesUp, Reporter
<1>4. s.idle \in Nat /\ s.total \in Nat
  BY DEF Begins, WakesUp, Covered, FirstIteration, Section
<1>5. ASSUME s.todo = 0, NEW u \in Threads PROVE ~HasBatch(u)
  <2>1. HasBatch(u) => nNow[u] \in 1 .. nBatchSize
    BY <1>1, SMTT(20) DEF HasBatch, Typed, ControlInv
  <2> QED
    BY <1>2, <1>5, <2>1, SMTT(20) DEF Covered
<1>7. InRound /\ failing =>
          \/ s.result # None
          \/ \E i \in DOMAIN queue : queue[i].fails
          \/ \E u \in Threads \ {t} : Reporter(u)
  BY <1>1, <1>2, <1>3 DEF ErrorsInv, Pending
<1>8. /\ s.result # None => s.result = round /\ failing
      /\ ~InRound => s.result = None
      /\ \A u \in Threads \ {t} : Honest(u, s.result)
  BY <1>1, <1>2 DEF ErrorsInv
<1>9. s.pc \in [Threads -> PCs] /\ s.result \in Result /\ s.local \in Result
  BY <1>1, <1>2 DEF Typed
<1> QED
  BY <1>2, <1>3, <1>4, <1>5, <1>7, <1>8, <1>9 DEF Inside

\* t leaves the critical section for p.
Leaves(t, s, p) == pc' = [s.pc EXCEPT ![t] = p]

\* Where the threads are once t has left: the master may have been notified.
LEMMA LeavesPc ==
  ASSUME NEW t \in Threads, NEW s, Inside(t, s), NEW p \in PCs, Leaves(t, s, p)
  PROVE  /\ pc' \in [Threads -> PCs] /\ pc'[t] = p
         /\ \A u \in Threads \ {t} :
               pc'[u] = pc[u] \/ (u = Master /\ pc[u] = "wait" /\ pc'[u] = "woken")
BY DEF Inside, Leaves

\* Only t does something; the master may be notified.
Alone(t) ==
    \A u \in Threads \ {t} :
        /\ pc'[u] = pc[u] \/ (u = Master /\ pc[u] = "wait" /\ pc'[u] = "woken")
        /\ nNow'[u] = nNow[u] /\ local_result'[u] = local_result[u]
        /\ vChecks'[u] = vChecks[u] /\ do_work'[u] = do_work[u]

\* The other threads still have what they had.
LEMMA OthersKeep ==
  ASSUME NEW t \in Threads, NEW u \in Threads \ {t}, Alone(t),
         NEW r, m_result' = r, UNCHANGED <<round, failing>>
  PROVE  /\ Reporter(u) => Reporter(u)'
         /\ Honest(u, r) => Honest(u, m_result)'
<1>1. /\ pc'[u] \in {"work", "enter"} => pc'[u] = pc[u]
      /\ pc[u] \in {"work", "enter"} => pc'[u] = pc[u]
      /\ nNow'[u] = nNow[u] /\ local_result'[u] = local_result[u]
      /\ vChecks'[u] = vChecks[u] /\ do_work'[u] = do_work[u]
  BY DEF Alone
<1>2. Reporter(u) => Reporter(u)'
  BY <1>1 DEF Reporter
<1>3. Honest(u, r) => Honest(u, m_result)'
  BY <1>1 DEF Honest, OfRound
<1> QED
  BY <1>2, <1>3

\* Where the queued checks are afterwards: in the queue or in t's batch.
Distributed(t) ==
    /\ \A i \in DOMAIN queue' : \E k \in DOMAIN queue : queue'[i] = queue[k]
    /\ pc'[t] = "work" => \A i \in DOMAIN vChecks'[t] :
                             \E k \in DOMAIN queue : vChecks'[t][i] = queue[k]
    /\ \A k \in DOMAIN queue :
          \/ \E i \in DOMAIN queue' : queue'[i] = queue[k]
          \/ pc'[t] = "work" /\ \E i \in DOMAIN vChecks'[t] : vChecks'[t][i] = queue[k]

\* The errors once t has left the critical section, within a round.
LEMMA ErrorsAfter ==
  ASSUME ErrorsInv, NEW t \in Threads, NEW s, Inside(t, s), Alone(t), Distributed(t),
         m_result' = s.result, UNCHANGED <<phase, round, failing>>,
         pc'[t] # "enter", pc'[t] = "work" => do_work'[t] = (s.result = None)
  PROVE  ErrorsInv'
<1>1. /\ InRound' <=> InRound
      /\ \A i \in DOMAIN queue : OfRound(queue[i])
      /\ \A c : OfRound(c) => OfRound(c)'
  BY DEF InRound, ErrorsInv, OfRound
<1>2. ASSUME InRound', failing', m_result' = None PROVE Pending'
  <2>1. CASE \E k \in DOMAIN queue : queue[k].fails
    <3>1. PICK k \in DOMAIN queue : queue[k].fails
      BY <2>1
    <3>2. CASE pc'[t] = "work" /\ \E i \in DOMAIN vChecks'[t] : vChecks'[t][i] = queue[k]
      <4>1. Reporter(t)'
        BY <1>2, <3>1, <3>2 DEF Reporter
      <4> QED
        BY <4>1 DEF Pending
    <3>3. CASE \E i \in DOMAIN queue' : queue'[i] = queue[k]
      BY <3>1, <3>3 DEF Pending
    <3> QED
      BY <3>2, <3>3 DEF Distributed
  <2>2. CASE \E u \in Threads \ {t} : Reporter(u)
    BY <2>2, OthersKeep DEF Pending
  <2> QED
    BY <1>1, <1>2, <2>1, <2>2 DEF Inside
<1>3. /\ m_result' # None => m_result' = round' /\ failing'
      /\ ~InRound' => m_result' = None
  BY <1>1 DEF Inside
<1>4. \A i \in DOMAIN queue' : OfRound(queue[i])'
  BY <1>1 DEF Distributed
<1>5. Honest(t, m_result)'
  <2>1. pc'[t] = "work" => \A i \in DOMAIN vChecks'[t] : OfRound(vChecks[t][i])'
    BY <1>1 DEF Distributed
  <2> QED
    BY <2>1 DEF Honest
<1>6. \A u \in Threads \ {t} : Honest(u, m_result)'
  BY OthersKeep DEF Inside
<1> QED
  BY <1>2, <1>3, <1>4, <1>5, <1>6 DEF ErrorsInv

\* The control state once t has left the critical section, within a round.
LEMMA ControlAfter ==
  ASSUME ControlInv, NEW t \in Threads, NEW s, Inside(t, s), Alone(t),
         pc'[t] = "out" => m_request_stop, pc'[t] = "work" => nNow'[t] > 0,
         UNCHANGED <<phase, round, m_request_stop>>
  PROVE  ControlInv'
<1>1. pc[t] # "out" /\ Master \in Threads /\ Workers \subseteq Threads
  BY DEF Inside, Threads
<1>2. /\ phase = "completing" <=> pc[Master] # "out"
      /\ pc[Master] = "out" => nNow[Master] = 0
      /\ m_request_stop <=> phase \in {"stopping", "gone"}
      /\ \A w \in Workers : pc[w] = "out" => m_request_stop
      /\ \A u \in Threads : pc[u] = "work" => nNow[u] > 0
  BY DEF ControlInv
<1>3. /\ pc'[Master] = "out" <=> pc[Master] = "out"
      /\ pc'[Master] = "out" => nNow'[Master] = 0
  BY <1>1, <1>2 DEF Alone
<1>4. \A w \in Workers : pc'[w] = "out" => m_request_stop
  BY <1>1, <1>2 DEF Alone
<1>5. \A u \in Threads : pc'[u] = "work" => nNow'[u] > 0
  BY <1>2 DEF Alone
<1> QED
  BY <1>2, <1>3, <1>4, <1>5 DEF ControlInv, InRound

\* The master returns.
LEMMA ReturnKeepsEInv ==
  ASSUME EInv, NEW t \in Threads, NEW s, Inside(t, s), Return(t, s), UNCHANGED m_request_stop
  PROVE  EInv'
<1>1. Typed /\ ControlInv /\ ErrorsInv
  BY DEF EInv
<1>2. /\ NothingQueued /\ t = Master /\ s.todo = 0
      /\ m_result' = None /\ returned' = s.result /\ phase' = "idle"
      /\ nNow' = [nNow EXCEPT ![t] = 0]
      /\ local_result' = [local_result EXCEPT ![t] = None]
      /\ UNCHANGED <<queue, vChecks, do_work, notify, round, adds, failing>>
  BY DEF Return
<1>3. phase = "completing" /\ InRound /\ ~InRound'
  BY <1>1, <1>2 DEF ControlInv, Inside, InRound
<1>4. Leaves(t, s, "out") /\ "out" \in PCs
  BY DEF Leaves, Return, PCs
<1>5. /\ pc' \in [Threads -> PCs] /\ pc'[t] = "out"
      /\ \A u \in Threads \ {t} :
            pc'[u] = pc[u] \/ (u = Master /\ pc[u] = "wait" /\ pc'[u] = "woken")
  BY <1>4, LeavesPc
<1>7. \A u \in Threads \ {t} : ~HasBatch(u)
  BY <1>2 DEF Inside
<1>8. Typed'
  <2>1. /\ nNow' \in [Threads -> 0 .. nBatchSize]
        /\ local_result' \in [Threads -> Result]
        /\ m_result' \in Result /\ returned' \in Result
    BY <1>1, <1>2, SMTT(20) DEF Typed, Inside, Result
  <2> QED
    BY <1>1, <1>2, <1>5, <2>1 DEF Typed
<1>9. ControlInv'
  BY <1>1, <1>2, <1>3, <1>5 DEF ControlInv, Typed, InRound, Threads
<1>10. ErrorsInv'
  <2>1. \A u \in Threads : Honest(u, m_result)'
    BY <1>1, <1>2, <1>5, <1>7 DEF HasBatch, Honest, Typed
  <2>2. \A i \in DOMAIN queue' : OfRound(queue[i])'
    BY <1>2, SMTT(20) DEF NothingQueued
  <2> QED
    BY <1>2, <1>3, <2>1, <2>2 DEF ErrorsInv
<1>11. ResultOfThisRound'
  <2>1. \A u \in Threads \ {t} : ~Reporter(u)
    BY <1>7 DEF HasBatch, Reporter
  <2>2. failing => s.result # None
    BY <1>2, <1>3, <2>1, SMTT(20) DEF Inside, NothingQueued
  <2>3. s.result # None => s.result = round /\ failing
    BY DEF Inside
  <2> QED
    BY <1>1, <1>2, <2>2, <2>3 DEF ResultOfThisRound, Typed
<1> QED
  BY <1>8, <1>9, <1>10, <1>11 DEF EInv

\* A thread waits, or a worker leaves because of a stop.
LEMMA WaitOrLeaveKeepsEInv ==
  ASSUME EInv, NEW t \in Threads, NEW s, Inside(t, s),
         Wait(t, s) \/ LeaveOnStop(t, s), UNCHANGED m_request_stop
  PROVE  EInv'
<1>1. Typed /\ ControlInv /\ ErrorsInv /\ ResultOfThisRound
  BY DEF EInv
<1>2. PICK p \in {"out", "wait"} :
        /\ p = "out" => m_request_stop
        /\ Leaves(t, s, p)
        /\ m_result' = s.result
        /\ local_result' = [local_result EXCEPT ![t] = s.local]
        /\ UNCHANGED <<queue, nNow, vChecks, do_work>>
        /\ UNCHANGED <<phase, notify, round, adds, failing, returned>>
  <2>1. CASE Wait(t, s)
    BY <2>1 DEF Wait, master, Leaves
  <2>2. CASE LeaveOnStop(t, s)
    BY <2>2 DEF LeaveOnStop, master, Leaves
  <2> QED
    BY <2>1, <2>2
<1>5. /\ pc' \in [Threads -> PCs] /\ pc'[t] = p
      /\ \A u \in Threads \ {t} :
            pc'[u] = pc[u] \/ (u = Master /\ pc[u] = "wait" /\ pc'[u] = "woken")
  <2>1. p \in PCs
    BY DEF PCs
  <2> QED
    BY <1>2, <2>1, LeavesPc
<1>7. Alone(t) /\ local_result' \in [Threads -> Result]
  BY <1>1, <1>2, <1>5 DEF Alone, Typed, Inside
<1>8. Typed'
  BY <1>1, <1>2, <1>5, <1>7 DEF Typed, Inside
<1>9. ControlInv'
  BY <1>1, <1>2, <1>5, <1>7, ControlAfter
<1>10. ErrorsInv'
  <2>1. Distributed(t)
    BY <1>2, <1>5 DEF Distributed
  <2> QED
    BY <1>1, <1>2, <1>5, <1>7, <2>1, ErrorsAfter
<1>11. ResultOfThisRound'
  BY <1>1, <1>2 DEF ResultOfThisRound
<1> QED
  BY <1>8, <1>9, <1>10, <1>11 DEF EInv

\* The smaller and the larger of two numbers.
LEMMA MinMaxOfTwo ==
  ASSUME NEW a \in Nat, NEW b \in Nat
  PROVE  /\ Min({a, b}) \in {a, b} /\ Min({a, b}) <= a /\ Min({a, b}) <= b
         /\ Max({a, b}) \in {a, b} /\ Max({a, b}) >= a /\ Max({a, b}) >= b
<1> DEFINE S == {a, b}
<1>1. \E x \in S : \A y \in S : x <= y
  BY SMTT(20)
<1>2. \E x \in S : \A y \in S : x >= y
  BY SMTT(20)
<1>3. a \in S /\ b \in S
  OBVIOUS
<1>4. /\ Min(S) \in S /\ Min(S) <= a /\ Min(S) <= b
      /\ Max(S) \in S /\ Max(S) >= a /\ Max(S) >= b
  <2> HIDE DEF S
  <2> QED
    BY <1>1, <1>2, <1>3 DEF Min, Max
<1> QED
  BY <1>4

\* The size of a batch is at least one, at most nBatchSize and at most what is
\* queued.
LEMMA BatchSizeFits ==
  ASSUME NEW s, s.total \in Nat, s.idle \in Nat, queue \in Seq(Check), queue # <<>>
  PROVE  BatchSize(s) \in 1 .. nBatchSize /\ BatchSize(s) <= Len(queue)
<1> DEFINE k == s.total + s.idle + 1
           q == Len(queue) \div k
           m == Min({nBatchSize, q})
<1>1. Len(queue) \in Nat /\ Len(queue) >= 1 /\ k \in Nat /\ k >= 1
  OBVIOUS
<1>2. q \in Nat /\ q <= Len(queue)
  <2> HIDE DEF k
  <2> DEFINE L == Len(queue)
  <2>1. L \in Nat
    BY <1>1
  <2> HIDE DEF L
  <2>2. L \div k \in Nat /\ L \div k <= L
    BY <1>1, <2>1
  <2> QED
    BY <2>2 DEF L
<1> HIDE DEF q
<1>3. m \in {nBatchSize, q} /\ m <= nBatchSize /\ m <= q
  BY <1>2, MinMaxOfTwo
<1>4. m \in Nat
  BY <1>2, <1>3
<1> HIDE DEF m
<1>5. Max({1, m}) \in {1, m} /\ Max({1, m}) >= 1
  BY <1>4, MinMaxOfTwo
<1>6. BatchSize(s) = Max({1, m})
  BY DEF BatchSize, m, q, k
<1> QED
  BY <1>1, <1>2, <1>3, <1>4, <1>5, <1>6, SMTT(20)

\* The checks of q are those of a and those of b.
Splits(q, a, b) ==
    /\ a \in Seq(Check) /\ b \in Seq(Check)
    /\ \A i \in DOMAIN a : \E k \in DOMAIN q : a[i] = q[k]
    /\ \A i \in DOMAIN b : \E k \in DOMAIN q : b[i] = q[k]
    /\ \A k \in DOMAIN q : \/ \E i \in DOMAIN a : a[i] = q[k]
                           \/ \E i \in DOMAIN b : b[i] = q[k]

\* A batch from the end of the queue and what is left: every queued check is in
\* one of them, and nothing else is.
LEMMA SplitQueue ==
  ASSUME NEW q \in Seq(Check), NEW n \in 1 .. Len(q)
  PROVE  /\ Splits(q, SubSeq(q, 1, Len(q) - n), SubSeq(q, Len(q) - n + 1, Len(q)))
         /\ Len(SubSeq(q, 1, Len(q) - n)) = Len(q) - n
<1> DEFINE L == Len(q)
           a == SubSeq(q, 1, L - n)
           b == SubSeq(q, L - n + 1, L)
<1>1. L \in Nat /\ DOMAIN q = 1 .. L /\ n \in 1 .. L /\ \A i \in 1 .. L : q[i] \in Check
  BY SMTT(20)
<1>2. /\ a \in Seq(Check) /\ Len(a) = L - n
      /\ \A i \in 1 .. L - n : a[i] = q[i]
  BY SMTT(20)
<1>3. /\ b \in Seq(Check) /\ Len(b) = n
      /\ \A i \in 1 .. n : b[i] = q[L - n + i]
  BY SMTT(20)
<1> HIDE DEF L, a, b
<1>4. DOMAIN a = 1 .. L - n /\ DOMAIN b = 1 .. n
  BY <1>2, <1>3, SMTT(20)
<1>5. \A i \in DOMAIN a : \E k \in DOMAIN q : a[i] = q[k]
  BY <1>1, <1>2, <1>4, SMTT(20)
<1>6. ASSUME NEW i \in DOMAIN b PROVE \E k \in DOMAIN q : b[i] = q[k]
  <2>1. L - n + i \in DOMAIN q
    BY <1>1, <1>4, SMTT(20)
  <2> QED
    BY <1>3, <1>4, <2>1
<1>7. ASSUME NEW k \in DOMAIN q
      PROVE  \/ \E i \in DOMAIN a : a[i] = q[k]
             \/ \E i \in DOMAIN b : b[i] = q[k]
  <2>1. CASE k <= L - n
    BY <1>1, <1>2, <1>4, <2>1, SMTT(20)
  <2>2. CASE k > L - n
    <3>1. k - (L - n) \in DOMAIN b /\ b[k - (L - n)] = q[L - n + (k - (L - n))]
      BY <1>1, <1>3, <1>4, <2>2, SMTT(20)
    <3>2. L - n + (k - (L - n)) = k
      BY <1>1, SMTT(20)
    <3> QED
      BY <3>1, <3>2
  <2> QED
    BY <1>1, <2>1, <2>2, SMTT(20)
<1>8. Splits(q, a, b)
  BY <1>2, <1>3, <1>5, <1>6, <1>7 DEF Splits
<1> QED
  BY <1>2, <1>8 DEF a, b, L

\* t has left the critical section with a batch of n checks.
Taken(t, s, n) ==
    /\ Leaves(t, s, "work") /\ nNow'[t] = n
    /\ nNow' \in [Threads -> 0 .. nBatchSize]
    /\ vChecks' \in [Threads -> Seq(Check)] /\ queue' \in Seq(Check)
    /\ Len(queue') = Len(queue) - n
    /\ do_work' \in [Threads -> BOOLEAN] /\ do_work'[t] = (s.result = None)
    /\ local_result' \in [Threads -> Result]
    /\ pc' \in [Threads -> PCs] /\ pc'[t] = "work"
    /\ Alone(t) /\ Distributed(t)

\* The values t leaves with when it takes a batch.
LEMMA TakeBatchLocals ==
  ASSUME Typed, NEW t \in Threads, NEW s, Inside(t, s), TakeBatch(t, s)
  PROVE  \E n \in 1 .. nBatchSize : Taken(t, s, n)
<1> DEFINE n == BatchSize(s)
           rest == SubSeq(queue, 1, Len(queue) - n)
           batch == SubSeq(queue, Len(queue) - n + 1, Len(queue))
<1>1. /\ queue # <<>>
      /\ pc' = [s.pc EXCEPT ![t] = "work"]
      /\ nNow' = [nNow EXCEPT ![t] = n]
      /\ vChecks' = [vChecks EXCEPT ![t] = batch]
      /\ queue' = rest
      /\ do_work' = [do_work EXCEPT ![t] = (s.result = None)]
      /\ local_result' = [local_result EXCEPT ![t] = s.local]
  BY DEF TakeBatch
<1>2. /\ nNow \in [Threads -> 0 .. nBatchSize] /\ vChecks \in [Threads -> Seq(Check)]
      /\ do_work \in [Threads -> BOOLEAN] /\ local_result \in [Threads -> Result]
      /\ s.local \in Result /\ queue \in Seq(Check)
  BY DEF Typed, Inside
<1>3. Leaves(t, s, "work") /\ "work" \in PCs
  BY <1>1 DEF Leaves, PCs
<1>4. /\ pc' \in [Threads -> PCs] /\ pc'[t] = "work"
      /\ \A u \in Threads \ {t} :
            pc'[u] = pc[u] \/ (u = Master /\ pc[u] = "wait" /\ pc'[u] = "woken")
  BY <1>3, LeavesPc
<1>5. n \in 1 .. nBatchSize /\ n \in 1 .. Len(queue)
  <2>1. s.total \in Nat /\ s.idle \in Nat
    BY DEF Inside
  <2>2. n \in 1 .. nBatchSize /\ n <= Len(queue)
    BY <1>1, <1>2, <2>1, BatchSizeFits
  <2>3. Len(queue) \in Nat
    BY <1>2, SMTT(20)
  <2> HIDE DEF n
  <2> QED
    BY <2>2, <2>3
<1>6. Splits(queue, rest, batch) /\ Len(rest) = Len(queue) - n
  <2> HIDE DEF n
  <2> QED
    BY <1>2, <1>5, SplitQueue
<1> HIDE DEF n, rest, batch
<1>7. /\ nNow' \in [Threads -> 0 .. nBatchSize] /\ nNow'[t] = n
      /\ vChecks' \in [Threads -> Seq(Check)] /\ vChecks'[t] = batch
      /\ local_result' \in [Threads -> Result]
  BY <1>1, <1>2, <1>5, <1>6, SMTT(20) DEF Splits
<1>8. do_work' \in [Threads -> BOOLEAN] /\ do_work'[t] = (s.result = None)
  BY <1>1, <1>2
<1>9. Alone(t)
  BY <1>1, <1>2, <1>4 DEF Alone
<1>10. queue' \in Seq(Check) /\ Len(queue') = Len(queue) - n
  BY <1>1, <1>6 DEF Splits
<1>11. Distributed(t)
  <2>1. queue' = rest /\ vChecks'[t] = batch /\ pc'[t] = "work"
    BY <1>1, <1>4, <1>7
  <2> QED
    BY <1>6, <2>1 DEF Distributed, Splits
<1> QED
  BY <1>3, <1>4, <1>5, <1>7, <1>8, <1>9, <1>10, <1>11 DEF Taken

\* A thread takes a batch.
LEMMA TakeBatchKeepsEInv ==
  ASSUME EInv, NEW t \in Threads, NEW s, Inside(t, s), TakeBatch(t, s), UNCHANGED m_request_stop
  PROVE  EInv'
<1>1. Typed /\ ControlInv /\ ErrorsInv /\ ResultOfThisRound
  BY DEF EInv
<1>2. /\ m_result' = s.result
      /\ UNCHANGED <<phase, notify, round, adds, failing, returned>>
  BY DEF TakeBatch, master
<1>3. PICK n \in 1 .. nBatchSize : Taken(t, s, n)
  BY <1>1, TakeBatchLocals
<1>5. Typed'
  BY <1>1, <1>2, <1>3 DEF Typed, Inside, Taken
<1>6. ControlInv'
  <2>1. nNow'[t] > 0 /\ pc'[t] # "out"
    BY <1>3, SMTT(20) DEF Taken
  <2> QED
    BY <1>1, <1>2, <1>3, <2>1, ControlAfter DEF Taken
<1>7. ErrorsInv'
  BY <1>1, <1>2, <1>3, ErrorsAfter DEF Taken
<1>8. ResultOfThisRound'
  BY <1>1, <1>2 DEF ResultOfThisRound
<1> QED
  BY <1>5, <1>6, <1>7, <1>8 DEF EInv

-----------------------------------------------------------------------------
(* Loop *)

\* A thread that runs the critical section has come in by one of the ways in.
LEMMA SectionBegins ==
  ASSUME NEW t \in Threads, Enter(t) \/ Resume(t)
  PROVE  \E s : /\ HandsIn(t, s) \/ Begins(t, s) \/ WakesUp(t, s)
               /\ Continue(t, s)
BY DEF Enter, Resume, HandsIn, Begins, WakesUp

\* The critical section, whichever way in and out.
LEMMA LoopKeepsEInv ==
  ASSUME EInv, Covered, NEW t \in Threads, Enter(t) \/ Resume(t)
  PROVE  EInv'
<1>1. PICK s : Inside(t, s) /\ Continue(t, s)
  BY SectionBegins, HandInInside, NoBatchInside
<1>2. UNCHANGED m_request_stop
  BY <1>1 DEF Continue
<1>3. CASE Return(t, s)
  BY <1>1, <1>2, <1>3, ReturnKeepsEInv
<1>4. CASE Wait(t, s) \/ LeaveOnStop(t, s)
  BY <1>1, <1>2, <1>4, WaitOrLeaveKeepsEInv
<1>5. CASE TakeBatch(t, s)
  BY <1>1, <1>2, <1>5, TakeBatchKeepsEInv
<1> QED
  BY <1>1, <1>3, <1>4, <1>5 DEF Continue

-----------------------------------------------------------------------------
(* The steps outside Loop's critical section, and the master's *)

\* r is the error FirstFailure is to find in c.
FoundIn(c, r) ==
    /\ r \in Result
    /\ r # None => \E i \in DOMAIN c : c[i].fails /\ r = c[i].round
    /\ (\E i \in DOMAIN c : c[i].fails) => r # None

\* The checks of a batch are run.
LEMMA WorkKeepsEInv ==
  ASSUME EInv, NEW t \in Threads, Work(t), FoundIn(vChecks[t], FirstFailure(vChecks[t]))
  PROVE  EInv'
<1>1. Typed /\ ControlInv /\ ErrorsInv /\ ResultOfThisRound
  BY DEF EInv
<1>2. /\ pc[t] = "work"
      /\ pc' = [pc EXCEPT ![t] = "enter"]
      /\ local_result' = IF do_work[t]
                           THEN [local_result EXCEPT ![t] = FirstFailure(vChecks[t])]
                           ELSE local_result
      /\ vChecks' = [vChecks EXCEPT ![t] = <<>>]
      /\ UNCHANGED <<queue, nIdle, nTotal, m_result, nTodo, m_request_stop>>
      /\ UNCHANGED <<nNow, do_work, phase, notify, round, adds, failing, returned>>
  BY DEF Work, shared, master
<1>3. nNow[t] > 0 /\ pc' \in [Threads -> PCs] /\ pc'[t] = "enter"
      /\ \A u \in Threads \ {t} : pc'[u] = pc[u]
  BY <1>1, <1>2 DEF Typed, ControlInv, PCs
<1>4. /\ FirstFailure(vChecks[t]) \in Result
      /\ FirstFailure(vChecks[t]) # None =>
            FirstFailure(vChecks[t]) = round /\ failing
      /\ (\E i \in DOMAIN vChecks[t] : vChecks[t][i].fails) =>
            FirstFailure(vChecks[t]) # None
  <2>2. \A i \in DOMAIN vChecks[t] :
           vChecks[t][i].round = round /\ (vChecks[t][i].fails => failing)
    BY <1>1, <1>2 DEF ErrorsInv, Honest, OfRound
  <2> QED
    BY <2>2 DEF FoundIn
<1>5. /\ vChecks' \in [Threads -> Seq(Check)]
      /\ local_result' \in [Threads -> Result]
      /\ \A u \in Threads \ {t} :
            vChecks'[u] = vChecks[u] /\ local_result'[u] = local_result[u]
      /\ vChecks'[t] = <<>>
      /\ do_work[t] => local_result'[t] = FirstFailure(vChecks[t])
  <2>1. vChecks \in [Threads -> Seq(Check)] /\ local_result \in [Threads -> Result]
    BY <1>1 DEF Typed
  <2> QED
    BY <1>2, <1>4, <2>1, SMTT(20)
<1>6. Typed'
  BY <1>1, <1>2, <1>3, <1>5 DEF Typed
<1>7. ControlInv'
  <2>1. \A u \in Threads : /\ pc'[u] = "out" <=> pc[u] = "out"
                           /\ pc'[u] = "work" => pc[u] = "work"
    BY <1>2, <1>3
  <2>2. Master \in Threads /\ Workers \subseteq Threads
    BY DEF Threads
  <2>3. UNCHANGED <<nNow, phase, round, m_request_stop>>
    BY <1>2
  <2> QED
    BY <1>1, <2>1, <2>2, <2>3 DEF ControlInv, InRound
<1>9. ErrorsInv'
  <2>1. \A u \in Threads : m_result # None \/ (Reporter(u) => Reporter(u)')
    <3> TAKE u \in Threads
    <3>1. CASE u # t
      BY <1>2, <1>3, <1>5, <3>1 DEF Reporter
    <3>2. CASE u = t
      BY <1>2, <1>3, <1>4, <1>5, <3>2 DEF Reporter
    <3> QED
      BY <3>1, <3>2
  <2>2. InRound' /\ failing' => m_result' # None \/ Pending'
    BY <1>1, <1>2, <2>1 DEF ErrorsInv, Pending, InRound
  <2>3. \A u \in Threads \ {t} : Honest(u, m_result)'
    BY <1>1, <1>2, <1>3, <1>5, SMTT(20) DEF ErrorsInv, Honest, OfRound
  <2>4. \/ local_result'[t] = None
        \/ m_result' # None
        \/ local_result'[t] = round' /\ failing'
    BY <1>1, <1>2, <1>4, <1>5 DEF ErrorsInv, Honest
  <2>5. Honest(t, m_result)'
    BY <1>3, <2>4 DEF Honest
  <2> QED
    BY <1>1, <1>2, <2>2, <2>3, <2>5 DEF ErrorsInv, InRound, OfRound
<1>10. ResultOfThisRound'
  BY <1>1, <1>2 DEF ResultOfThisRound
<1> QED
  BY <1>6, <1>7, <1>9, <1>10 DEF EInv

\* Threads that wait are woken, by a notification or for no reason.
LEMMA WakeKeepsEInv ==
  ASSUME EInv, pc' \in [Threads -> PCs],
         \A u \in Threads : pc'[u] = pc[u] \/ (pc[u] = "wait" /\ pc'[u] = "woken"),
         notify' \in {"none", "one", "all"},
         UNCHANGED <<shared, locals, phase, round, adds, failing, returned>>
  PROVE  EInv'
<1>1. Typed /\ ControlInv /\ ErrorsInv /\ ResultOfThisRound
  BY DEF EInv
<1>2. /\ UNCHANGED <<queue, nIdle, nTotal, m_result, nTodo, m_request_stop>>
      /\ UNCHANGED <<nNow, vChecks, local_result, do_work>>
      /\ UNCHANGED <<phase, round, adds, failing, returned>>
  BY DEF shared, locals
<1>3. \A u \in Threads : pc'[u] \in {"work", "enter", "out"} \/ pc[u] \in {"work", "enter", "out"}
                            => pc'[u] = pc[u]
  OBVIOUS
<1>4. Typed'
  BY <1>1, <1>2 DEF Typed
<1>5. ControlInv'
  BY <1>1, <1>2, <1>3 DEF ControlInv, InRound, Threads
<1>7. ErrorsInv'
  <2>1. \A u \in Threads : Reporter(u)' = Reporter(u)
    BY <1>2 DEF Reporter
  <2>2. InRound' /\ failing' => m_result' # None \/ Pending'
    BY <1>1, <1>2, <2>1, SMTT(20) DEF ErrorsInv, Pending, InRound
  <2> QED
    BY <1>1, <1>2, <1>3, <2>2, SMTT(20) DEF ErrorsInv, Honest, OfRound, InRound
<1>8. ResultOfThisRound'
  BY <1>1, <1>2, SMTT(20) DEF ResultOfThisRound
<1> QED
  BY <1>4, <1>5, <1>7, <1>8 DEF EInv

\* A round begins with nothing left over from the one before.
LEMMA StartRoundKeepsEInv ==
  ASSUME EInv, Covered, StartRound
  PROVE  EInv'
<1>1. Typed /\ ControlInv /\ ErrorsInv
  BY DEF EInv
<1>2. /\ phase = "idle" /\ round < MaxRounds /\ phase' = "adding" /\ round' = round + 1
      /\ adds' = 0 /\ failing' = FALSE /\ returned' = None
      /\ UNCHANGED <<queue, nIdle, nTotal, m_result, nTodo, m_request_stop>>
      /\ UNCHANGED <<pc, nNow, vChecks, local_result, do_work, notify>>
  BY DEF StartRound, shared, locals
<1>3. ~InRound /\ InRound'
  BY <1>2 DEF InRound
<1>4. nTodo = 0 /\ m_result = None /\ queue = <<>>
  BY <1>1, <1>3 DEF Covered, ErrorsInv
<1>5. ASSUME NEW u \in Threads PROVE ~HasBatch(u)
  <2>1. HasBatch(u) => nNow[u] \in 1 .. nBatchSize
    BY <1>1, SMTT(20) DEF HasBatch, Typed, ControlInv
  <2> QED
    BY <1>4, <2>1 DEF Covered
<1>6. Typed'
  <2>1. round' \in 0 .. MaxRounds /\ adds' \in 0 .. MaxAdds /\ returned' \in Result
    BY <1>1, <1>2, SMTT(20) DEF Typed, Result
  <2>2. failing' \in BOOLEAN /\ phase' \in {"idle", "adding", "completing", "stopping", "gone"}
    BY <1>2
  <2> QED
    BY <1>1, <1>2, <2>1, <2>2 DEF Typed
<1>7. ControlInv'
  BY <1>1, <1>2, SMTT(20) DEF ControlInv, Typed
<1>9. ErrorsInv'
  <2>1. \A u \in Threads : Honest(u, m_result)'
    BY <1>2, <1>5 DEF HasBatch, Honest
  <2> QED
    BY <1>2, <1>3, <1>4, <1>5, <2>1, SMTT(20) DEF ErrorsInv
<1>10. ResultOfThisRound'
  BY <1>2 DEF ResultOfThisRound
<1> QED
  BY <1>6, <1>7, <1>9, <1>10 DEF EInv

\* a has the checks of q, in their places, and those of c, and no others.
Joins(a, q, c) ==
    /\ a \in Seq(Check)
    /\ \A i \in DOMAIN a : \/ \E k \in DOMAIN q : a[i] = q[k]
                         \/ \E k \in DOMAIN c : a[i] = c[k]
    /\ \A k \in DOMAIN q : k \in DOMAIN a /\ a[k] = q[k]
    /\ \A k \in DOMAIN c : \E i \in DOMAIN a : a[i] = c[k]

\* What is in the queue once checks c have been appended to q.
LEMMA Appended ==
  ASSUME NEW q \in Seq(Check), NEW c \in Seq(Check)
  PROVE  Joins(q \o c, q, c)
<1> DEFINE a == q \o c
           m == Len(q)
           n == Len(c)
<1>1. /\ m \in Nat /\ n \in Nat /\ DOMAIN q = 1 .. m /\ DOMAIN c = 1 .. n
      /\ a \in Seq(Check) /\ DOMAIN a = 1 .. m + n
      /\ \A i \in 1 .. m : a[i] = q[i]
      /\ \A i \in 1 .. m + n : i > m => a[i] = c[i - m]
  OBVIOUS
<1> HIDE DEF m, n, a
<1>2. ASSUME NEW i \in DOMAIN a
      PROVE  (\E k \in DOMAIN q : a[i] = q[k]) \/ (\E k \in DOMAIN c : a[i] = c[k])
  <2>1. CASE i <= m
    BY <1>1, <2>1, SMTT(20)
  <2>2. CASE i > m
    <3>1. i - m \in DOMAIN c /\ a[i] = c[i - m]
      BY <1>1, <2>2, SMTT(20)
    <3> QED
      BY <3>1
  <2> QED
    BY <1>1, <2>1, <2>2, SMTT(20)
<1>3. ASSUME NEW k \in DOMAIN c PROVE \E i \in DOMAIN a : a[i] = c[k]
  <2>1. m + k \in DOMAIN a /\ m + k > m /\ (m + k) - m = k
    BY <1>1, SMTT(20)
  <2>2. a[m + k] = c[k]
    BY <1>1, <2>1
  <2> QED
    BY <2>1, <2>2
<1>4. Joins(a, q, c)
  BY <1>1, <1>2, <1>3, SMTT(20) DEF Joins
<1> QED
  BY <1>4 DEF a

\* A batch the master may add is a sequence of checks of the round.
LEMMA BatchesAreChecks ==
  ASSUME Typed, round > 0, NEW checks \in Batches
  PROVE  /\ checks \in Seq(Check)
         /\ Len(checks) \in 1 .. MaxChecks
         /\ \A i \in DOMAIN checks : checks[i].round = round
<1>1. PICK n \in 1 .. MaxChecks :
         checks \in [1 .. n -> {[round |-> round, fails |-> f] : f \in BOOLEAN}]
  BY DEF Batches
<1>2. \A i \in 1 .. n : checks[i].round = round /\ checks[i] \in Check
  BY <1>1, SMTT(20) DEF Check, Typed
<1>3. checks \in Seq(Check) /\ Len(checks) = n
  BY <1>1, <1>2, SMTT(20)
<1> QED
  BY <1>1, <1>2, <1>3

\* Checks are added.
LEMMA AddKeepsEInv ==
  ASSUME EInv, NEW checks \in Batches, Add(checks)
  PROVE  EInv'
<1>1. Typed /\ ControlInv /\ ErrorsInv
  BY DEF EInv
<1>2. /\ phase = "adding" /\ adds < MaxAdds /\ adds' = adds + 1
      /\ queue' = queue \o checks
      /\ nTodo' = nTodo + Len(checks)
      /\ notify' \in {"none", "one", "all"}
      /\ failing' = (failing \/ \E i \in DOMAIN checks : checks[i].fails)
      /\ UNCHANGED <<nIdle, nTotal, m_result, m_request_stop, pc, phase, round, returned>>
      /\ UNCHANGED <<nNow, vChecks, local_result, do_work>>
  BY DEF Add, locals
<1>3. InRound /\ InRound' /\ round > 0
  BY <1>1, <1>2 DEF InRound, ControlInv
<1>4. /\ checks \in Seq(Check) /\ queue \in Seq(Check)
      /\ \A i \in DOMAIN checks : checks[i].round = round
  BY <1>1, <1>3, BatchesAreChecks DEF Typed
<1>7. Joins(queue', queue, checks)
  <2>1. queue' = queue \o checks
    BY <1>2
  <2>2. Joins(queue \o checks, queue, checks)
    BY <1>4, Appended
  <2> QED
    BY <2>1, <2>2
<1>11. Typed'
  <2>1. queue' \in Seq(Check)
    BY <1>7 DEF Joins
  <2>2. adds' \in 0 .. MaxAdds
    BY <1>1, <1>2, SMTT(20) DEF Typed
  <2>3. failing' \in BOOLEAN
    BY <1>2
  <2> QED
    BY <1>1, <1>2, <2>1, <2>2, <2>3 DEF Typed
<1>12. ControlInv'
  BY <1>1, <1>2 DEF ControlInv, InRound
<1>14. ErrorsInv'
  <2>1. \A u \in Threads : Reporter(u)' = Reporter(u)
    BY <1>2 DEF Reporter
  <2>2. failing' => m_result' # None \/ Pending'
    <3>1. CASE failing
      BY <1>1, <1>2, <1>3, <1>7, <2>1, <3>1 DEF ErrorsInv, Pending, Joins
    <3>2. CASE \E k \in DOMAIN checks : checks[k].fails
      BY <1>7, <3>2 DEF Pending, Joins
    <3> QED
      BY <1>2, <3>1, <3>2
  <2>3. failing => failing'
    BY <1>2
  <2>4. \A i \in DOMAIN queue' : OfRound(queue[i])'
    <3>1. \A k \in DOMAIN queue : OfRound(queue[k])
      BY <1>1 DEF ErrorsInv
    <3>2. \A c : OfRound(c) => c.round = round' /\ (c.fails => failing')
      BY <1>2, <2>3 DEF OfRound
    <3>3. \A k \in DOMAIN checks : checks[k].round = round' /\ (checks[k].fails => failing')
      BY <1>2, <1>4
    <3> QED
      BY <1>7, <3>1, <3>2, <3>3, SMTT(20) DEF OfRound, Joins
  <2>5. \A u \in Threads : Honest(u, m_result)'
    BY <1>1, <1>2, <2>3 DEF ErrorsInv, Honest, OfRound
  <2> QED
    BY <1>1, <1>2, <1>3, <2>2, <2>3, <2>4, <2>5 DEF ErrorsInv
<1>15. ResultOfThisRound'
  BY <1>2 DEF ResultOfThisRound
<1> QED
  BY <1>11, <1>12, <1>14, <1>15 DEF EInv

\* The master enters Loop; it has no batch yet.
LEMMA CompleteKeepsEInv ==
  ASSUME EInv, Complete
  PROVE  EInv'
<1>1. Typed /\ ControlInv /\ ErrorsInv
  BY DEF EInv
<1>2. /\ phase = "adding" /\ phase' = "completing"
      /\ pc' = [pc EXCEPT ![Master] = "enter"]
      /\ UNCHANGED <<queue, nIdle, nTotal, m_result, nTodo, m_request_stop>>
      /\ UNCHANGED <<nNow, vChecks, local_result, do_work>>
      /\ UNCHANGED <<notify, round, adds, failing, returned>>
  BY DEF Complete, shared, locals
<1>3. InRound /\ InRound'
  BY <1>2 DEF InRound
<1>4. /\ Master \in Threads /\ Master \notin Workers
      /\ pc[Master] = "out" /\ nNow[Master] = 0
      /\ pc' \in [Threads -> PCs] /\ pc'[Master] = "enter"
      /\ \A u \in Threads \ {Master} : pc'[u] = pc[u]
  <2>1. Master \in Threads /\ Master \notin Workers
    BY DEF Threads
  <2>2. pc[Master] = "out" /\ nNow[Master] = 0
    BY <1>1, <1>2 DEF ControlInv
  <2>3. /\ pc' \in [Threads -> PCs] /\ pc'[Master] = "enter"
        /\ \A u \in Threads \ {Master} : pc'[u] = pc[u]
    <3>1. pc \in [Threads -> PCs] /\ "enter" \in PCs
      BY <1>1 DEF Typed, PCs
    <3> QED
      BY <1>2, <2>1, <3>1
  <2> QED
    BY <2>1, <2>2, <2>3
<1>5. Typed'
  BY <1>1, <1>2, <1>4 DEF Typed
<1>6. ControlInv'
  BY <1>1, <1>2, <1>3, <1>4 DEF ControlInv, Threads
<1>8. ErrorsInv'
  <2>1. ASSUME NEW u \in Threads PROVE Reporter(u) => Reporter(u)'
    <3>1. UNCHANGED <<nNow, vChecks, local_result, do_work, round>>
      BY <1>2
    <3>2. CASE u # Master
      BY <1>4, <3>1, <3>2 DEF Reporter
    <3>3. CASE u = Master
      BY <1>4, <3>3 DEF Reporter
    <3> QED
      BY <3>2, <3>3
  <2>2. failing => m_result' # None \/ Pending'
    BY <1>1, <1>2, <1>3, <2>1 DEF ErrorsInv, Pending
  <2>3. ASSUME NEW u \in Threads PROVE Honest(u, m_result)'
    <3>1. CASE u = Master
      BY <1>2, <1>4, <3>1, SMTT(20) DEF Honest
    <3>2. CASE u # Master
      BY <1>1, <1>2, <1>4, <3>2 DEF ErrorsInv, Honest, OfRound
    <3> QED
      BY <3>1, <3>2
  <2>4. \A i \in DOMAIN queue' : OfRound(queue[i])'
    BY <1>1, <1>2 DEF ErrorsInv, OfRound
  <2> QED
    BY <1>1, <1>2, <1>3, <2>2, <2>3, <2>4 DEF ErrorsInv
<1>9. ResultOfThisRound'
  BY <1>2 DEF ResultOfThisRound
<1> QED
  BY <1>5, <1>6, <1>8, <1>9 DEF EInv

\* The destructor stops the workers, and has joined them.
LEMMA StopKeepsEInv ==
  ASSUME EInv, RequestStop \/ Join
  PROVE  EInv'
<1>1. Typed /\ ControlInv /\ ErrorsInv /\ ResultOfThisRound
  BY DEF EInv
<1>2. /\ phase \in {"idle", "stopping"} /\ phase' \in {"stopping", "gone"}
      /\ m_request_stop' = TRUE
      /\ notify' \in {"none", "one", "all"}
      /\ UNCHANGED <<queue, nIdle, nTotal, m_result, nTodo>>
      /\ UNCHANGED <<pc, nNow, vChecks, local_result, do_work>>
      /\ UNCHANGED <<round, adds, failing, returned>>
  <2>1. CASE RequestStop
    BY <2>1 DEF RequestStop, locals
  <2>2. CASE Join
    BY <1>1, <2>2 DEF Join, shared, locals, Typed, ControlInv
  <2> QED
    BY <2>1, <2>2
<1>3. ~InRound /\ ~InRound'
  BY <1>2 DEF InRound
<1>4. Typed'
  BY <1>1, <1>2 DEF Typed
<1>5. ControlInv'
  BY <1>1, <1>2, <1>3 DEF ControlInv
<1>7. ErrorsInv'
  BY <1>1, <1>2, <1>3 DEF ErrorsInv, Honest, OfRound
<1>8. ResultOfThisRound'
  BY <1>2 DEF ResultOfThisRound
<1> QED
  BY <1>4, <1>5, <1>7, <1>8 DEF EInv

\* Nothing is queued and nobody has a batch at the beginning.
LEMMA InitEInv == Init => EInv
<1> SUFFICES ASSUME Init PROVE EInv
  OBVIOUS
<1>1. Typed
  <2>3. queue \in Seq(Check) /\ vChecks \in [Threads -> Seq(Check)]
    BY SMTT(20) DEF Init
  <2>4. /\ pc \in [Threads -> PCs] /\ nNow \in [Threads -> 0 .. nBatchSize]
        /\ local_result \in [Threads -> Result] /\ do_work \in [Threads -> BOOLEAN]
    BY SMTT(20) DEF Init, PCs, Result
  <2>5. /\ m_result \in Result /\ returned \in Result
        /\ round \in 0 .. MaxRounds /\ adds \in 0 .. MaxAdds
    BY DEF Init, Result
  <2>6. /\ m_request_stop \in BOOLEAN /\ failing \in BOOLEAN
        /\ phase \in {"idle", "adding", "completing", "stopping", "gone"}
        /\ notify \in {"none", "one", "all"}
    BY DEF Init
  <2> QED
    BY <2>3, <2>4, <2>5, <2>6 DEF Typed
<1>2. ControlInv
  <2>2. Master \in Threads /\ Workers \subseteq Threads
    BY DEF Threads
  <2> QED
    BY <2>2 DEF Init, ControlInv, InRound
<1>4. ErrorsInv
  BY DEF Init, ErrorsInv, InRound, Honest
<1>5. ResultOfThisRound
  BY DEF Init, ResultOfThisRound
<1> QED
  BY <1>1, <1>2, <1>4, <1>5 DEF EInv

-----------------------------------------------------------------------------
(* The counters *)

Idle == {t \in Threads : pc[t] \in {"wait", "woken"}}

\* The threads nTotal counts: those in Loop and the workers that have left it,
\* which they do without counting down.
Counted == {t \in Threads : InLoop(t) \/ (t \in Workers /\ pc[t] = "out")}

\* What the counters count; between rounds there is nothing to do.
CountersInv ==
    /\ nIdle = Cardinality(Idle)
    /\ nTotal = Cardinality(Counted)
    /\ nTodo = Len(queue) + Cardinality(Batched)
    /\ nTodo <= adds * MaxChecks
    /\ ~InRound => nTodo = 0

IInv == EInv /\ CountersInv

OthersBatched(t) == {x \in Batched : x[1] # t}

-----------------------------------------------------------------------------
INSTANCE FiniteSetTheorems

(* Sets *)

\* Threads, and with them every set of threads, are finite.
LEMMA ThreadsFinite ==
  /\ IsFiniteSet(Threads)
  /\ \A S \in SUBSET Threads :
        IsFiniteSet(S) /\ Cardinality(S) \in 0 .. Cardinality(Threads)
<1>1. IsFiniteSet(Threads)
  BY FS_AddElement DEF Threads
<1>2. \A S \in SUBSET Threads :
        /\ IsFiniteSet(S) /\ Cardinality(S) \in Nat
        /\ Cardinality(S) <= Cardinality(Threads)
  BY <1>1, FS_Subset, FS_CardinalityType
<1>3. Cardinality(Threads) \in Nat
  BY <1>1, FS_CardinalityType
<1> QED
  BY <1>1, <1>2, <1>3, SMTT(20)

\* A set of threads with one thread removed or added.
LEMMA OneThread ==
  ASSUME NEW S \in SUBSET Threads, NEW t \in Threads
  PROVE  /\ Cardinality(S) \in Nat
         /\ Cardinality(S \ {t}) \in Nat
         /\ t \in S => Cardinality(S) = Cardinality(S \ {t}) + 1
         /\ t \notin S => Cardinality(S) = Cardinality(S \ {t})
<1> DEFINE R == S \ {t}
<1>1. IsFiniteSet(R) /\ Cardinality(R) \in Nat /\ Cardinality(S) \in Nat
  BY ThreadsFinite, SMTT(20)
<1>2. Cardinality(R \cup {t}) = Cardinality(R) + 1
  <2>1. t \notin R
    OBVIOUS
  <2> HIDE DEF R
  <2> QED
    BY <1>1, <2>1, FS_AddElement
<1>3. CASE t \in S
  <2>1. S = R \cup {t}
    BY <1>3
  <2> QED
    BY <1>1, <1>2, <1>3, <2>1
<1>4. CASE t \notin S
  <2>1. S = R
    BY <1>4
  <2> QED
    BY <1>1, <1>4, <2>1
<1> QED
  BY <1>3, <1>4

\* Every set of numbered checks is finite.
LEMMA BatchesFinite ==
  ASSUME NEW S, S \subseteq Threads \X (1 .. nBatchSize)
  PROVE  IsFiniteSet(S) /\ Cardinality(S) \in Nat
<1>1. IsFiniteSet(1 .. nBatchSize)
  BY FS_Interval, SMTT(20)
<1>2. IsFiniteSet(Threads \X (1 .. nBatchSize))
  BY <1>1, ThreadsFinite, FS_Product
<1> QED
  BY <1>2, FS_Subset, FS_CardinalityType

\* A batch of n checks is n numbered checks.
LEMMA OneBatch ==
  ASSUME NEW t \in Threads, NEW n \in 0 .. nBatchSize
  PROVE  Cardinality({t} \X (1 .. n)) = n
<1> DEFINE T == {t}
           N == 1 .. n
<1>1. IsFiniteSet(N) /\ Cardinality(N) = n
  BY FS_Interval
<1>2. IsFiniteSet(T) /\ Cardinality(T) = 1
  BY FS_Singleton
<1>3. Cardinality(T \X N) = Cardinality(T) * Cardinality(N)
  <2> HIDE DEF T, N
  <2> QED
    BY <1>1, <1>2, FS_Product
<1> QED
  BY <1>1, <1>2, <1>3, SMTT(20)

\* A set of numbered checks with the batch of one more thread in it.
LEMMA WithBatchOf ==
  ASSUME NEW S, S \subseteq (Threads \X (1 .. nBatchSize)), NEW t \in Threads,
         \A x \in S : x[1] # t, NEW n \in 0 .. nBatchSize
  PROVE  Cardinality(S \cup ({t} \X (1 .. n))) = Cardinality(S) + n
<1> DEFINE B == {t} \X (1 .. n)
<1>1. B \subseteq Threads \X (1 .. nBatchSize)
  BY SMTT(20)
<1>2. S \cap B = {}
  OBVIOUS
<1>3. Cardinality(B) = n
  BY OneBatch
<1>4. Cardinality(S \cap B) = 0
  BY <1>2, FS_EmptySet
<1>5. Cardinality(S \cup B) = Cardinality(S) + n
  <2> HIDE DEF B
  <2>1. IsFiniteSet(S) /\ IsFiniteSet(B) /\ Cardinality(S) \in Nat
    BY <1>1, BatchesFinite
  <2>2. Cardinality(S \cup B) = Cardinality(S) + Cardinality(B) - Cardinality(S \cap B)
    BY <2>1, FS_Union
  <2> QED
    BY <1>3, <1>4, <2>1, <2>2, SMTT(20)
<1> QED
  BY <1>5

\* A nonempty set of positions has a least one.
LEMMA MinExists ==
  ASSUME NEW S, S \subseteq Nat, S # {}
  PROVE  Min(S) \in S
<1> DEFINE R == OpToRel(<, Nat)
<1>1. PICK x \in S : \A y \in S : ~(<<y, x>> \in R)
  <2>1. IsWellFoundedOn(R, Nat)
    BY NatLessThanWellFounded
  <2> HIDE DEF R
  <2> QED
    BY <2>1, WFMin
<1>2. \A y \in S : x <= y
  <2> SUFFICES ASSUME NEW y \in S PROVE x <= y
    OBVIOUS
  <2>1. ~(y < x)
    BY <1>1 DEF OpToRel
  <2> QED
    BY <2>1
<1> QED
  BY <1>2 DEF Min

\* FirstFailure finds an error exactly if there is one.
LEMMA FirstFailureFound ==
  ASSUME NEW c \in Seq(Check)
  PROVE  FoundIn(c, FirstFailure(c))
<1> DEFINE bad == {i \in DOMAIN c : c[i].fails}
<1>1. bad \subseteq Nat /\ \A i \in DOMAIN c : c[i] \in Check
  BY SMTT(20)
<1>2. CASE bad = {}
  BY <1>2 DEF FirstFailure, Result, FoundIn
<1>3. CASE bad # {}
  <2>1. Min(bad) \in bad
    BY <1>1, <1>3, MinExists
  <2>2. FirstFailure(c) = c[Min(bad)].round
    BY <1>3 DEF FirstFailure
  <2>3. c[Min(bad)].round \in 1 .. MaxRounds
    BY <1>1, <2>1 DEF Check
  <2> DEFINE m == Min(bad)
  <2>4. m \in DOMAIN c /\ c[m].fails
    BY <2>1
  <2>5. FirstFailure(c) # None
    BY <2>2, <2>3, SMTT(20)
  <2> HIDE DEF m
  <2> QED
    BY <2>2, <2>3, <2>4, <2>5 DEF Result, m, FoundIn
<1> QED
  BY <1>2, <1>3

-----------------------------------------------------------------------------
(* Counting *)

\* The batches of all threads are those of the others and t's own.
LEMMA BatchesOf ==
  ASSUME Typed, NEW t \in Threads
  PROVE  /\ Cardinality(OthersBatched(t)) \in Nat
         /\ Cardinality(Batched) = Cardinality(OthersBatched(t)) + Outstanding(t)
<1>1. Outstanding(t) \in 0 .. nBatchSize
  BY SMTT(20) DEF Typed, Outstanding
<1>2. /\ OthersBatched(t) \subseteq (Threads \X (1 .. nBatchSize))
      /\ \A x \in OthersBatched(t) : x[1] # t
  BY DEF Batched, OthersBatched
<1>3. Batched = OthersBatched(t) \cup ({t} \X (1 .. Outstanding(t)))
  BY <1>1, SMTT(20) DEF Batched, OthersBatched
<1>4. Cardinality(OthersBatched(t) \cup ({t} \X (1 .. Outstanding(t))))
        = Cardinality(OthersBatched(t)) + Outstanding(t)
  <2> DEFINE n == Outstanding(t)
             S == OthersBatched(t)
  <2> HIDE DEF n, S
  <2>1. Cardinality(S \cup ({t} \X (1 .. n))) = Cardinality(S) + n
    BY <1>1, <1>2, WithBatchOf DEF n, S
  <2> QED
    BY <2>1 DEF n, S
<1>5. Cardinality(OthersBatched(t)) \in Nat
  BY <1>2, BatchesFinite
<1> QED
  BY <1>3, <1>4, <1>5

\* A thread with a batch is among those whose batches are counted.
LEMMA OthersHaveNone ==
  ASSUME Typed, ControlInv, NEW t \in Threads, NEW u \in Threads \ {t}, HasBatch(u)
  PROVE  Cardinality(OthersBatched(t)) > 0
<1>1. nNow[u] \in 1 .. nBatchSize /\ Outstanding(u) = nNow[u]
  BY SMTT(20) DEF HasBatch, Typed, ControlInv, Outstanding
<1>2. <<u, 1>> \in OthersBatched(t)
  BY <1>1, SMTT(20) DEF OthersBatched, Batched
<1>3. OthersBatched(t) \subseteq Threads \X (1 .. nBatchSize)
  BY DEF OthersBatched, Batched
<1>4. IsFiniteSet(OthersBatched(t)) /\ Cardinality(OthersBatched(t)) \in Nat
  BY <1>3, BatchesFinite
<1>5. Cardinality(OthersBatched(t)) # 0
  BY <1>2, <1>4, FS_EmptySet
<1> QED
  BY <1>4, <1>5, SMTT(20)

\* What the errors need of the counters.
LEMMA CountersCover ==
  ASSUME Typed, ControlInv, CountersInv
  PROVE  Covered
<1>1. Len(queue) \in Nat /\ (Len(queue) = 0 => queue = <<>>)
  BY SMTT(20) DEF Typed
<1>2. Idle \in SUBSET Threads /\ Counted \in SUBSET Threads
  BY DEF Idle, Counted
<1>3. nIdle \in Nat /\ nTotal \in Nat
  BY <1>2, ThreadsFinite DEF CountersInv
<1>4. Cardinality(Batched) \in Nat
  BY BatchesFinite DEF Batched
<1>5. nTodo \in Nat /\ (nTodo = 0 => queue = <<>>) /\ nTodo >= Cardinality(Batched)
  BY <1>1, <1>4 DEF CountersInv
<1>6. ASSUME NEW t \in Threads, HasBatch(t) PROVE nNow[t] <= nTodo
  <2>1. Outstanding(t) = nNow[t] /\ nNow[t] \in Nat
    BY <1>6, SMTT(20) DEF HasBatch, Outstanding, Typed
  <2> QED
    BY <1>4, <1>5, <2>1, BatchesOf
<1>7. ASSUME NEW t \in Threads, NEW u \in Threads, t # u, HasBatch(t), HasBatch(u)
      PROVE  nNow[t] < nTodo
  <2>1. Outstanding(t) = nNow[t] /\ nNow[t] \in Nat
    BY <1>7, SMTT(20) DEF HasBatch, Outstanding, Typed
  <2>2. Cardinality(OthersBatched(t)) > 0
    BY <1>7, OthersHaveNone
  <2> QED
    BY <1>4, <1>5, <2>1, <2>2, BatchesOf, SMTT(20)
<1>8. ASSUME NEW t \in Threads, pc[t] = "woken" PROVE nIdle > 0
  <2>1. t \in Idle
    BY <1>8 DEF Idle
  <2>2. Cardinality(Idle) = Cardinality(Idle \ {t}) + 1 /\ Cardinality(Idle \ {t}) \in Nat
    BY <1>2, <2>1, OneThread
  <2> QED
    BY <2>2 DEF CountersInv
<1>9. ~InRound => nTodo = 0
  BY DEF CountersInv
<1> QED
  BY <1>3, <1>5, <1>6, <1>7, <1>8, <1>9 DEF Covered

\* What the counters are in the middle of Loop's critical section: t is in Loop,
\* awake and without a batch.
CountersInside(t, s) ==
    /\ s.idle = Cardinality(Idle \ {t})
    /\ s.total = Cardinality(Counted \ {t}) + 1
    /\ s.todo = Len(queue) + Cardinality(OthersBatched(t))
    /\ s.todo <= adds * MaxChecks
    /\ ~InRound => s.todo = 0

\* They are that, whichever way t has come in.
LEMMA CountersEnter ==
  ASSUME Typed, CountersInv, Covered, NEW t \in Threads, NEW s,
         HandsIn(t, s) \/ Begins(t, s) \/ WakesUp(t, s)
  PROVE  CountersInside(t, s)
<1>1. /\ nTodo = Len(queue) + Cardinality(Batched)
      /\ nIdle = Cardinality(Idle) /\ nTotal = Cardinality(Counted)
      /\ nTodo <= adds * MaxChecks /\ (~InRound => nTodo = 0)
  BY DEF CountersInv
<1>2. /\ Cardinality(OthersBatched(t)) \in Nat /\ Len(queue) \in Nat
      /\ Cardinality(Batched) = Cardinality(OthersBatched(t)) + Outstanding(t)
  BY BatchesOf, SMTT(20) DEF Typed
<1>3. adds * MaxChecks \in Nat
  BY SMTT(20) DEF Typed
<1>4. Idle \in SUBSET Threads /\ Counted \in SUBSET Threads
  BY DEF Idle, Counted
<1>5. /\ Cardinality(Idle \ {t}) \in Nat /\ Cardinality(Counted \ {t}) \in Nat
      /\ t \in Idle => Cardinality(Idle) = Cardinality(Idle \ {t}) + 1
      /\ t \notin Idle => Cardinality(Idle) = Cardinality(Idle \ {t})
      /\ t \in Counted => Cardinality(Counted) = Cardinality(Counted \ {t}) + 1
      /\ t \notin Counted => Cardinality(Counted) = Cardinality(Counted \ {t})
  BY <1>4, OneThread
<1>6. CASE HandsIn(t, s)
  <2>1. /\ t \notin Idle /\ t \in Counted /\ Outstanding(t) = nNow[t] /\ nNow[t] \in Nat
        /\ nNow[t] > 0
        /\ s.idle = nIdle /\ s.total = nTotal /\ s.todo = nTodo - nNow[t]
    <3>1. pc[t] = "enter" /\ nNow[t] > 0 /\ nNow[t] \in Nat
      BY <1>6, SMTT(20) DEF HandsIn, Typed
    <3>2. s.idle = nIdle /\ s.total = nTotal /\ s.todo = nTodo - nNow[t]
      BY <1>6 DEF HandsIn, HandIn, Section
    <3>3. t \notin Idle /\ t \in Counted /\ Outstanding(t) = nNow[t]
      BY <3>1 DEF Idle, Counted, InLoop, Outstanding
    <3> QED
      BY <3>1, <3>2, <3>3
  <2>2. s.todo <= nTodo /\ s.todo \in Nat
    BY <1>1, <1>2, <2>1
  <2>3. s.todo = Len(queue) + Cardinality(OthersBatched(t))
    BY <1>1, <1>2, <2>1
  <2>4. s.todo <= adds * MaxChecks /\ (~InRound => s.todo = 0)
    BY <1>1, <1>2, <1>3, <2>1, <2>2, SMTT(20)
  <2>5. s.idle = Cardinality(Idle \ {t}) /\ s.total = Cardinality(Counted \ {t}) + 1
    BY <1>1, <1>5, <2>1
  <2> QED
    BY <2>3, <2>4, <2>5 DEF CountersInside
<1>7. CASE Begins(t, s)
  <2>1. /\ t \notin Idle /\ t \notin Counted /\ Outstanding(t) = 0
        /\ s.idle = nIdle /\ s.total = nTotal + 1 /\ s.todo = nTodo
    BY <1>7 DEF Begins, FirstIteration, Section, Idle, Counted, InLoop, Outstanding
  <2>2. s.todo = Len(queue) + Cardinality(OthersBatched(t))
    BY <1>1, <1>2, <2>1, SMTT(20)
  <2>3. s.todo <= adds * MaxChecks /\ (~InRound => s.todo = 0)
    BY <1>1, <2>1
  <2>4. s.idle = Cardinality(Idle \ {t}) /\ s.total = Cardinality(Counted \ {t}) + 1
    BY <1>1, <1>5, <2>1
  <2> QED
    BY <2>2, <2>3, <2>4 DEF CountersInside
<1>8. CASE WakesUp(t, s)
  <2>1. /\ t \in Idle /\ t \in Counted /\ Outstanding(t) = 0
        /\ s.idle = nIdle - 1 /\ s.total = nTotal /\ s.todo = nTodo
    BY <1>8 DEF WakesUp, Section, Idle, Counted, InLoop, Outstanding
  <2>2. s.todo = Len(queue) + Cardinality(OthersBatched(t))
    BY <1>1, <1>2, <2>1, SMTT(20)
  <2>3. s.todo <= adds * MaxChecks /\ (~InRound => s.todo = 0)
    BY <1>1, <2>1
  <2>4. s.idle = Cardinality(Idle \ {t}) /\ s.total = Cardinality(Counted \ {t}) + 1
    BY <1>1, <1>5, <2>1, SMTT(20)
  <2> QED
    BY <2>2, <2>3, <2>4 DEF CountersInside
<1> QED
  BY <1>6, <1>7, <1>8

\* What is counted once t has left the critical section for p.
LEMMA CountersLeave ==
  ASSUME NEW t \in Threads, NEW s, Inside(t, s), CountersInside(t, s), NEW p \in PCs,
         Leaves(t, s, p), \A u \in Threads \ {t} : nNow'[u] = nNow[u],
         p \in {"out", "wait", "work"}
  PROVE  /\ Cardinality(Idle') = s.idle + (IF p = "wait" THEN 1 ELSE 0)
         /\ Cardinality(Counted') = s.total - (IF p = "out" /\ t = Master THEN 1 ELSE 0)
         /\ OthersBatched(t)' = OthersBatched(t)
<1>1. /\ pc'[t] = p
      /\ \A u \in Threads \ {t} :
            pc'[u] = pc[u] \/ (u = Master /\ pc[u] = "wait" /\ pc'[u] = "woken")
  BY LeavesPc
<1>2. /\ Idle \in SUBSET Threads /\ Counted \in SUBSET Threads
      /\ Idle' \in SUBSET Threads /\ Counted' \in SUBSET Threads
  BY DEF Idle, Counted
<1>3. Cardinality(Idle' \ {t}) = Cardinality(Idle \ {t})
  <2>1. Idle' \ {t} = Idle \ {t}
    BY <1>1 DEF Idle
  <2> QED
    BY <2>1
<1>4. Cardinality(Counted' \ {t}) = Cardinality(Counted \ {t})
  <2>1. Counted' \ {t} = Counted \ {t}
    BY <1>1 DEF Counted, InLoop
  <2> QED
    BY <2>1
<1>5. t \in Idle' <=> p = "wait"
  BY <1>1 DEF Idle
<1>6. t \in Counted' <=> ~(p = "out" /\ t = Master)
  BY <1>1 DEF Counted, InLoop, Threads
<1>7. /\ Cardinality(Idle \ {t}) \in Nat /\ Cardinality(Counted \ {t}) \in Nat
      /\ t \in Idle' => Cardinality(Idle') = Cardinality(Idle' \ {t}) + 1
      /\ t \notin Idle' => Cardinality(Idle') = Cardinality(Idle' \ {t})
      /\ t \in Counted' => Cardinality(Counted') = Cardinality(Counted' \ {t}) + 1
      /\ t \notin Counted' => Cardinality(Counted') = Cardinality(Counted' \ {t})
  BY <1>2, OneThread
<1>8. s.idle = Cardinality(Idle \ {t}) /\ s.total = Cardinality(Counted \ {t}) + 1
  BY DEF CountersInside
<1>9. OthersBatched(t)' = OthersBatched(t)
  <2>1. \A u \in Threads \ {t} : Outstanding(u)' = Outstanding(u)
    BY <1>1 DEF Outstanding
  <2>2. ASSUME NEW x \in Threads \X (1 .. nBatchSize), x[1] # t
        PROVE  x \in Batched' <=> x \in Batched
    <3>1. x[1] \in Threads
      OBVIOUS
    <3>2. Outstanding(x[1])' = Outstanding(x[1])
      BY <2>1, <2>2, <3>1
    <3> QED
      BY <3>2 DEF Batched
  <2>3. /\ \A x \in Batched : x \in Threads \X (1 .. nBatchSize)
        /\ \A x \in Batched' : x \in Threads \X (1 .. nBatchSize)
    BY DEF Batched
  <2> QED
    BY <2>2, <2>3 DEF OthersBatched
<1>10. Cardinality(Idle') = s.idle + (IF p = "wait" THEN 1 ELSE 0)
  <2>1. p = "wait" => Cardinality(Idle') = s.idle + 1
    BY <1>3, <1>5, <1>7, <1>8
  <2>2. s.idle \in Nat /\ (p # "wait" => Cardinality(Idle') = s.idle)
    BY <1>3, <1>5, <1>7, <1>8
  <2>3. s.idle = s.idle + 0
    BY <2>2, SMTT(20)
  <2> QED
    BY <2>1, <2>2, <2>3
<1>11. Cardinality(Counted') = s.total - (IF p = "out" /\ t = Master THEN 1 ELSE 0)
  <2> DEFINE n == Cardinality(Counted \ {t})
  <2>1. p = "out" /\ t = Master => Cardinality(Counted') = n
    BY <1>4, <1>6, <1>7
  <2>2. ~(p = "out" /\ t = Master) => Cardinality(Counted') = n + 1
    BY <1>4, <1>6, <1>7
  <2>3. n \in Nat /\ s.total = n + 1
    BY <1>7, <1>8
  <2> HIDE DEF n
  <2> QED
    BY <2>1, <2>2, <2>3, SMTT(20)
<1> QED
  BY <1>9, <1>10, <1>11

\* A thread leaves without a batch: it returns, waits, or leaves for a stop.
LEMMA EmptyHandedCounters ==
  ASSUME EInv, NEW t \in Threads, NEW s, Inside(t, s), CountersInside(t, s),
         Return(t, s) \/ Wait(t, s) \/ LeaveOnStop(t, s), nTodo' = s.todo,
         UNCHANGED m_request_stop
  PROVE  CountersInv'
<1>1. PICK p \in {"out", "wait"} :
         /\ Leaves(t, s, p) /\ p \in PCs
         /\ nTotal' = s.total - (IF p = "out" /\ t = Master THEN 1 ELSE 0)
         /\ nIdle' = s.idle + (IF p = "wait" THEN 1 ELSE 0)
         /\ \A u \in Threads \ {t} : nNow'[u] = nNow[u]
         /\ UNCHANGED <<queue, adds>>
         /\ InRound' \/ s.todo = 0 \/ ~InRound
  <2>1. Typed /\ ControlInv
    BY DEF EInv
  <2>2. s.total \in Nat /\ s.idle \in Nat
    BY DEF Inside
  <2>3. CASE Return(t, s)
    <3>1. /\ t = Master /\ s.todo = 0 /\ Leaves(t, s, "out") /\ "out" \in PCs
          /\ nTotal' = s.total - 1 /\ nIdle' = s.idle
          /\ nNow' = [nNow EXCEPT ![t] = 0] /\ UNCHANGED <<queue, adds>>
      BY <2>3 DEF Return, Leaves, PCs
    <3>2. \A u \in Threads \ {t} : nNow'[u] = nNow[u]
      BY <2>1, <3>1 DEF Typed
    <3>3. nIdle' = s.idle + 0
      BY <2>2, <3>1, SMTT(20)
    <3> QED
      BY <3>1, <3>2, <3>3
  <2>4. CASE Wait(t, s)
    <3>1. /\ Leaves(t, s, "wait") /\ "wait" \in PCs
          /\ nTotal' = s.total /\ nIdle' = s.idle + 1
          /\ nNow' = nNow /\ UNCHANGED <<queue, adds>> /\ phase' = phase
      BY <2>4 DEF Wait, Leaves, PCs, master
    <3>2. nTotal' = s.total - 0
      BY <2>2, <3>1
    <3> QED
      BY <3>1, <3>2 DEF InRound
  <2>5. CASE LeaveOnStop(t, s)
    <3>1. t # Master
      BY <2>1, <2>5 DEF LeaveOnStop, ControlInv, Inside
    <3>2. /\ Leaves(t, s, "out") /\ "out" \in PCs
          /\ nTotal' = s.total /\ nIdle' = s.idle
          /\ nNow' = nNow /\ UNCHANGED <<queue, adds>> /\ phase' = phase
      BY <2>5 DEF LeaveOnStop, Leaves, PCs, master
    <3>3. nTotal' = s.total - 0 /\ nIdle' = s.idle + 0
      BY <2>2, <3>2
    <3> QED
      BY <3>1, <3>2, <3>3 DEF InRound
  <2> QED
    BY <2>3, <2>4, <2>5
<1>2. /\ Cardinality(Idle') = nIdle' /\ Cardinality(Counted') = nTotal'
      /\ OthersBatched(t)' = OthersBatched(t)
  BY <1>1, CountersLeave
<1>3. Cardinality(Batched') = Cardinality(OthersBatched(t))
  <2>0. pc'[t] \in {"out", "wait"}
    BY <1>1, LeavesPc
  <2>1. Outstanding(t)' = 0
    BY <2>0 DEF Outstanding
  <2>2. Batched' = OthersBatched(t)'
    BY <2>1, SMTT(20) DEF OthersBatched, Batched
  <2> QED
    BY <1>2, <2>2
<1> QED
  BY <1>1, <1>2, <1>3 DEF CountersInside, CountersInv

\* A thread takes a batch: its checks move from the queue to t.
LEMMA TakeBatchCounters ==
  ASSUME EInv, NEW t \in Threads, NEW s, Inside(t, s), CountersInside(t, s),
         TakeBatch(t, s), nTodo' = s.todo
  PROVE  CountersInv'
<1>1. /\ nTotal' = s.total /\ nIdle' = s.idle
      /\ UNCHANGED <<phase, adds>>
  BY DEF TakeBatch, master
<1>2. PICK n \in 1 .. nBatchSize : Taken(t, s, n)
  BY TakeBatchLocals DEF EInv
<1>3. /\ Leaves(t, s, "work") /\ "work" \in PCs
      /\ \A u \in Threads \ {t} : nNow'[u] = nNow[u]
      /\ Len(queue') = Len(queue) - n /\ Outstanding(t)' = n
  BY <1>2 DEF Taken, Alone, PCs, Outstanding
<1>4. s.idle \in Nat /\ s.total \in Nat /\ Len(queue) \in Nat
  <2>1. s.idle \in Nat /\ s.total \in Nat /\ queue \in Seq(Check)
    BY DEF Inside, EInv, Typed
  <2> QED
    BY <2>1
<1>5. /\ Cardinality(Idle') = nIdle' /\ Cardinality(Counted') = nTotal'
      /\ OthersBatched(t)' = OthersBatched(t)
  <2>1. /\ Cardinality(Idle') = s.idle + 0 /\ Cardinality(Counted') = s.total - 0
        /\ OthersBatched(t)' = OthersBatched(t)
    BY <1>3, CountersLeave
  <2> QED
    BY <1>1, <1>4, <2>1
<1>6. /\ Cardinality(Batched') = Cardinality(OthersBatched(t)) + n
      /\ Cardinality(OthersBatched(t)) \in Nat
  <2>1. Batched' = OthersBatched(t)' \cup ({t} \X (1 .. n))
    BY <1>3, SMTT(20) DEF Batched, OthersBatched
  <2>2. /\ OthersBatched(t) \subseteq (Threads \X (1 .. nBatchSize))
        /\ \A x \in OthersBatched(t) : x[1] # t
    BY DEF Batched, OthersBatched
  <2>3. /\ Cardinality(OthersBatched(t) \cup ({t} \X (1 .. n)))
             = Cardinality(OthersBatched(t)) + n
        /\ Cardinality(OthersBatched(t)) \in Nat
    BY <2>2, WithBatchOf, BatchesFinite, SMTT(20)
  <2> QED
    BY <1>5, <2>1, <2>3
<1>7. nTodo' = Len(queue') + Cardinality(Batched')
  BY <1>3, <1>4, <1>6, SMTT(20) DEF CountersInside
<1> QED
  BY <1>1, <1>5, <1>7 DEF CountersInside, CountersInv, InRound

\* u is counted after the step as it was before.
Steady(u) ==
    /\ nNow'[u] = nNow[u]
    /\ \/ pc'[u] = pc[u]
       \/ pc[u] = "wait" /\ pc'[u] = "woken"
       \/ pc[u] = "work" /\ pc'[u] = "enter" /\ nNow[u] > 0
       \/ u = Master /\ pc[u] = "out" /\ pc'[u] = "enter" /\ ~(nNow[u] > 0)

\* The steps outside the critical section do not change what is counted.
LEMMA NothingCounted ==
  ASSUME \A u \in Threads : Steady(u)
  PROVE  Idle' = Idle /\ Counted' = Counted /\ Batched' = Batched
<1>1. Idle' = Idle
  BY DEF Idle, Steady
<1>2. Counted' = Counted
  BY DEF Counted, InLoop, Steady
<1>3. \A u \in Threads : Outstanding(u)' = Outstanding(u)
  BY DEF Outstanding, Steady
<1>4. Batched' = Batched
  BY <1>3 DEF Batched
<1> QED
  BY <1>1, <1>2, <1>4

\* Such a step keeps the counters exact, unless there is still something to do
\* when a round begins or ends.
LEMMA SteadyCounters ==
  ASSUME CountersInv, \A u \in Threads : Steady(u),
         UNCHANGED <<queue, nIdle, nTotal, nTodo>>,
         nTodo' <= adds' * MaxChecks, InRound /\ ~InRound' => nTodo = 0
  PROVE  CountersInv'
BY NothingCounted DEF CountersInv

\* Checks are added.
LEMMA AddCounters ==
  ASSUME EInv, Covered, CountersInv, NEW checks \in Batches, Add(checks)
  PROVE  CountersInv'
<1>1. Typed /\ ControlInv
  BY DEF EInv
<1>2. /\ phase = "adding" /\ phase' = "adding" /\ adds' = adds + 1
      /\ queue' = queue \o checks
      /\ nTodo' = nTodo + Len(checks)
      /\ UNCHANGED <<nIdle, nTotal, pc, nNow>>
  BY DEF Add, locals
<1>3. checks \in Seq(Check) /\ Len(checks) \in 1 .. MaxChecks
  BY <1>1, <1>2, BatchesAreChecks DEF ControlInv, InRound
<1>4. Len(queue') = Len(queue) + Len(checks) /\ Len(queue) \in Nat
  BY <1>1, <1>2, <1>3, SMTT(20) DEF Typed
<1>5. Idle' = Idle /\ Counted' = Counted /\ Batched' = Batched
  BY <1>2, NothingCounted DEF Steady
<1>6. Cardinality(Batched) \in Nat
  BY BatchesFinite DEF Batched
<1>7. nTodo' = Len(queue') + Cardinality(Batched')
  BY <1>2, <1>3, <1>4, <1>5, <1>6, SMTT(20) DEF CountersInv
<1>8. nTodo' <= adds' * MaxChecks
  <2>1. nTodo \in Nat /\ adds \in Nat /\ nTodo <= adds * MaxChecks
    BY <1>1, SMTT(20) DEF Typed, Covered, CountersInv
  <2>2. (adds + 1) * MaxChecks = adds * MaxChecks + MaxChecks /\ adds * MaxChecks \in Nat
    BY <2>1
  <2> QED
    BY <1>2, <1>3, <2>1, <2>2, SMTT(20)
<1> QED
  BY <1>2, <1>5, <1>7, <1>8 DEF CountersInv, InRound

\* The counters' ranges: nobody is counted twice.
LEMMA CountersTyped ==
  ASSUME IInv
  PROVE  TypeOK
<1>1. Typed /\ CountersInv /\ Covered
  BY CountersCover DEF IInv, EInv
<1>2. Idle \in SUBSET Threads /\ Counted \in SUBSET Threads
  BY DEF Idle, Counted
<1>3. nIdle \in 0 .. Cardinality(Threads) /\ nTotal \in 0 .. Cardinality(Threads)
  BY <1>1, <1>2, ThreadsFinite DEF CountersInv
<1>4. nTodo \in 0 .. MaxAdds * MaxChecks
  <2>1. nTodo \in Nat /\ adds \in 0 .. MaxAdds /\ nTodo <= adds * MaxChecks
    BY <1>1 DEF Typed, Covered, CountersInv
  <2>2. adds * MaxChecks <= MaxAdds * MaxChecks /\ adds * MaxChecks \in Nat
        /\ MaxAdds * MaxChecks \in Nat
    BY <2>1, SMTT(20)
  <2> DEFINE a == adds * MaxChecks
             b == MaxAdds * MaxChecks
  <2> HIDE DEF a, b
  <2>3. nTodo \in 0 .. b
    BY <2>1, <2>2, SMTT(20) DEF a, b
  <2> QED
    BY <2>3 DEF b
<1>5. /\ \A i \in DOMAIN queue : queue[i] \in Check
      /\ \A t \in Threads : \A i \in DOMAIN vChecks[t] : vChecks[t][i] \in Check
  BY <1>1, SMTT(20) DEF Typed
<1> QED
  BY <1>1, <1>3, <1>4, <1>5 DEF Typed, TypeOK

-----------------------------------------------------------------------------
(* The steps *)

\* Loop's critical section.
LEMMA LoopKeepsIInv ==
  ASSUME IInv, NEW t \in Threads, Enter(t) \/ Resume(t)
  PROVE  IInv'
<1>1. EInv /\ Typed /\ CountersInv /\ Covered
  BY CountersCover DEF IInv, EInv
<1>2. EInv'
  BY <1>1, LoopKeepsEInv
<1>3. PICK s : /\ HandsIn(t, s) \/ Begins(t, s) \/ WakesUp(t, s)
               /\ Continue(t, s)
  BY SectionBegins
<1>4. Inside(t, s) /\ CountersInside(t, s)
  BY <1>1, <1>3, HandInInside, NoBatchInside, CountersEnter
<1>5. CountersInv'
  BY <1>1, <1>3, <1>4, EmptyHandedCounters, TakeBatchCounters DEF Continue
<1> QED
  BY <1>2, <1>5 DEF IInv

\* The checks of a batch are run.
LEMMA WorkKeepsIInv ==
  ASSUME IInv, NEW t \in Threads, Work(t)
  PROVE  IInv'
<1>1. EInv /\ Typed /\ ControlInv /\ CountersInv
  BY DEF IInv, EInv
<1>2. EInv'
  <2>1. vChecks[t] \in Seq(Check)
    BY <1>1 DEF Typed
  <2>2. FoundIn(vChecks[t], FirstFailure(vChecks[t]))
    BY <2>1, FirstFailureFound
  <2> QED
    BY <1>1, <2>2, WorkKeepsEInv
<1>3. /\ UNCHANGED <<queue, nIdle, nTotal, nTodo, nNow, adds, phase>>
      /\ pc[t] = "work" /\ pc' = [pc EXCEPT ![t] = "enter"]
  BY DEF Work, shared, master
<1>4. \A u \in Threads : Steady(u)
  BY <1>1, <1>3 DEF Typed, ControlInv, Steady
<1>5. CountersInv'
  BY <1>1, <1>3, <1>4, SteadyCounters DEF CountersInv, InRound
<1> QED
  BY <1>2, <1>5 DEF IInv

\* Threads are woken, or nothing happens.
LEMMA WakeKeepsIInv ==
  ASSUME IInv, pc' \in [Threads -> PCs],
         \A u \in Threads : pc'[u] = pc[u] \/ (pc[u] = "wait" /\ pc'[u] = "woken"),
         notify' \in {"none", "one", "all"},
         UNCHANGED <<shared, locals, phase, round, adds, failing, returned>>
  PROVE  IInv'
<1>1. EInv'
  BY WakeKeepsEInv DEF IInv
<1>2. /\ UNCHANGED <<queue, nIdle, nTotal, nTodo, adds, phase>>
      /\ \A u \in Threads : Steady(u)
  BY DEF shared, locals, Steady
<1>3. CountersInv'
  BY <1>2, SteadyCounters DEF IInv, CountersInv, InRound
<1> QED
  BY <1>1, <1>3 DEF IInv

\* The master's steps other than Add and the notification.
LEMMA MasterKeepsIInv ==
  ASSUME IInv, StartRound \/ Complete \/ RequestStop \/ Join
  PROVE  IInv'
<1>1. EInv /\ Typed /\ ControlInv /\ CountersInv /\ Covered
  BY CountersCover DEF IInv, EInv
<1>2. EInv'
  BY <1>1, StartRoundKeepsEInv, CompleteKeepsEInv, StopKeepsEInv
<1>3. /\ UNCHANGED <<queue, nIdle, nTotal, nTodo, nNow>>
      /\ UNCHANGED adds \/ (adds' = 0 /\ ~InRound)
      /\ ~InRound \/ InRound'
      /\ UNCHANGED pc \/ (phase = "adding" /\ pc' = [pc EXCEPT ![Master] = "enter"])
  BY DEF StartRound, Complete, RequestStop, Join, shared, locals, InRound
<1>4. nTodo' <= adds' * MaxChecks
  BY <1>1, <1>3, SMTT(20) DEF CountersInv
<1>5. \A u \in Threads : Steady(u)
  BY <1>1, <1>3, SMTT(20) DEF Typed, ControlInv, Steady, Threads
<1>6. CountersInv'
  BY <1>1, <1>3, <1>4, <1>5, SteadyCounters
<1> QED
  BY <1>2, <1>6 DEF IInv

\* Nothing is counted before the first thread has entered Loop.
LEMMA InitIInv == Init => IInv
<1> SUFFICES ASSUME Init PROVE IInv
  OBVIOUS
<1>1. Idle = {} /\ Counted = {} /\ Batched = {}
  BY SMTT(20) DEF Init, Idle, Counted, InLoop, Threads, Batched, Outstanding
<1>2. Len(queue) = 0 /\ nTodo = 0 /\ adds = 0 /\ nIdle = 0 /\ nTotal = 0
  BY DEF Init
<1>3. Cardinality(Idle) = 0 /\ Cardinality(Counted) = 0 /\ Cardinality(Batched) = 0
  BY <1>1, FS_EmptySet
<1>4. CountersInv
  BY <1>2, <1>3 DEF CountersInv
<1> QED
  BY <1>4, InitEInv DEF IInv

\* Every step preserves the invariant.
LEMMA NextIInv == IInv /\ [Next]_vars => IInv'
<1> SUFFICES ASSUME IInv, [Next]_vars PROVE IInv'
  OBVIOUS
<1>1. CASE \E t \in Threads : Enter(t) \/ Resume(t)
  BY <1>1, LoopKeepsIInv
<1>2. CASE \E t \in Threads : Work(t)
  BY <1>2, WorkKeepsIInv
<1>3. CASE \E t \in Threads : SpuriousWakeup(t)
  <2>1. PICK t \in Threads : SpuriousWakeup(t)
    BY <1>3
  <2>2. pc \in [Threads -> PCs] /\ notify \in {"none", "one", "all"}
    BY DEF IInv, EInv, Typed
  <2>3. /\ pc' \in [Threads -> PCs]
        /\ \A u \in Threads : pc'[u] = pc[u] \/ (pc[u] = "wait" /\ pc'[u] = "woken")
    BY <2>1, <2>2 DEF SpuriousWakeup, PCs
  <2> QED
    BY <2>1, <2>2, <2>3, WakeKeepsIInv DEF SpuriousWakeup, master
<1>4. CASE \E W \in SUBSET Workers : NotifyWorkers(W)
  <2>1. PICK W \in SUBSET Workers : NotifyWorkers(W)
    BY <1>4
  <2>2. pc \in [Threads -> PCs]
    BY DEF IInv, EInv, Typed
  <2>3. W \subseteq Waiting
    BY <2>1 DEF NotifyWorkers
  <2>4. /\ pc' \in [Threads -> PCs]
        /\ \A u \in Threads : pc'[u] = pc[u] \/ (pc[u] = "wait" /\ pc'[u] = "woken")
    BY <2>1, <2>2, <2>3 DEF NotifyWorkers, PCs, Waiting
  <2> QED
    BY <2>1, <2>4, WakeKeepsIInv DEF NotifyWorkers
<1>5. CASE StartRound \/ Complete \/ RequestStop \/ Join
  BY <1>5, MasterKeepsIInv
<1>8. CASE \E checks \in Batches : Add(checks)
  <2>1. EInv /\ CountersInv /\ Covered
    BY CountersCover DEF IInv, EInv
  <2> QED
    BY <1>8, <2>1, AddKeepsEInv, AddCounters DEF IInv
<1>9. CASE Gone \/ UNCHANGED vars
  <2>1. UNCHANGED vars
    BY <1>9 DEF Gone
  <2>2. pc' = pc /\ notify' = notify /\ UNCHANGED <<shared, locals, master>>
    BY <2>1 DEF vars, master
  <2>3. /\ pc' \in [Threads -> PCs] /\ notify' \in {"none", "one", "all"}
        /\ \A u \in Threads : pc'[u] = pc[u]
    BY <2>2 DEF IInv, EInv, Typed
  <2> QED
    BY <2>2, <2>3, WakeKeepsIInv DEF master
<1> QED
  BY <1>1, <1>2, <1>3, <1>4, <1>5, <1>8, <1>9 DEF Next, ThreadStep, MasterStep

-----------------------------------------------------------------------------
(* The results *)

\* The inductive invariant: counters, errors and control of CCheckQueue are
\* consistent in every state, for any workers, batch size and checks.
THEOREM CheckQueueInvariant == Spec => []IInv
<1>1. Init => IInv
  BY InitIInv
<1>2. IInv /\ [Next]_vars => IInv'
  BY NextIInv
<1> QED
  BY <1>1, <1>2, PTL DEF Spec

\* Complete returns an error exactly if some check of its own round fails
\* (checkqueue.h:99-106, 164-169): no report is lost, none outlives its round.
THEOREM CheckQueueResult == Spec => []ResultOfThisRound
<1>1. IInv => ResultOfThisRound
  BY DEF IInv, EInv
<1> QED
  BY <1>1, CheckQueueInvariant, PTL

\* nTodo, nIdle and nTotal count what checkqueue.h:49-63 says they count.
THEOREM CheckQueueCounters == Spec => []CountersExact
<1>1. IInv => CountersExact
  <2> SUFFICES ASSUME IInv PROVE CountersExact
    OBVIOUS
  <2>1. TypeOK /\ ControlInv /\ CountersInv
    BY CountersTyped DEF IInv, EInv
  <2>2. ASSUME ~m_request_stop PROVE Counted = {t \in Threads : InLoop(t)}
    BY <2>1, <2>2 DEF ControlInv, Counted
  <2>3. ~m_request_stop =>
          /\ nIdle = Cardinality({t \in Threads : pc[t] \in {"wait", "woken"}})
          /\ nTotal = Cardinality({t \in Threads : InLoop(t)})
    BY <2>1, <2>2 DEF CountersInv, Idle
  <2> QED
    BY <2>1, <2>3 DEF CountersExact, CountersInv
<1> QED
  BY <1>1, CheckQueueInvariant, PTL

=============================================================================
