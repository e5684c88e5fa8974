--------------------------- MODULE SchedulerProofs ---------------------------
(***************************************************************************)
(* CScheduler and SerialTaskRunner for any number of service threads and   *)
(* clients.  That callbacks run one at a time needs m_are_callbacks_running*)
(* to be set exactly while some thread is between the test in ProcessQueue *)
(* and the destructor that clears it; that they run in order and none is   *)
(* lost needs the callback being run and the pending ones to be exactly    *)
(* those inserted after the last one that has returned.                    *)
(*                                                                         *)
(* The second half is about the task queue and the end of the scheduler:   *)
(* the tasks stay in order, the threads that service the queue are counted *)
(* exactly, when join has returned none is left (and after StopWhenDrained *)
(* no task either), and a single thread runs no task before it is due.     *)
(***************************************************************************)
EXTENDS Scheduler, TLAPS

\* Provers and seconds for the steps that name no prover of their own.
USE ZenonT(10), SMTT(20)

Tasks == [time : Int, f : {"ProcessQueue", "Timed"}]

InRunner == {"process", "callback", "finish", "maybe", "schedule", "notify"}
ServicePCs == InRunner \cup {"unused", "start", "wait", "woken", "run",
                             "relock", "left"}
ClientPCs == {"idle", "maybe", "schedule", "notify"}
MainPCs == InRunner \cup {"idle", "notifyAll", "join", "joined", "flush",
                          "flushTest", "flushed"}
PCs == ServicePCs \cup MainPCs
Returns == {"relock", "idle", "flush", "flushTest"}

\* The shapes of the variables.
Typed ==
    /\ pc \in [Threads -> PCs]
    /\ ret \in [Threads -> Returns]
    /\ until \in [Threads -> Int \cup {None}]
    /\ task \in [Threads -> Tasks \cup {None}]
    /\ callback \in [Threads -> Nat \cup {None}]
    /\ taskQueue \in Seq(Tasks)
    /\ m_callbacks_pending \in Seq(Nat)
    /\ m_are_callbacks_running \in BOOLEAN
    /\ stopRequested \in BOOLEAN /\ stopWhenEmpty \in BOOLEAN
    /\ inserted \in Nat /\ done \in Nat
    /\ now \in 0 .. MaxNow

\* Where the threads of each kind are, and where schedule() returns to.
Placed ==
    /\ \A s \in Services : pc[s] \in ServicePCs /\ ret[s] = "relock"
    /\ \A c \in Clients :
          /\ pc[c] \in ClientPCs
          /\ pc[c] # "idle" => ret[c] = "idle"
    /\ pc[Main] \in MainPCs
    /\ pc[Main] \in InRunner \cup {"flushTest"} => ret[Main] \in {"flush", "flushTest"}

ControlInv == Typed /\ Placed

\* The callback being run and those pending are the ones inserted after the
\* last that returned, and m_are_callbacks_running tells whether one is being
\* run, by one thread.
Running == {"callback", "finish"}

OneRuns ==
    /\ \A t \in Threads : pc[t] \in Running => m_are_callbacks_running
    /\ \A t, u \in Threads : pc[t] \in Running /\ pc[u] \in Running => t = u

NoneLost ==
    /\ \A i \in 1 .. Len(m_callbacks_pending) :
          m_callbacks_pending[i] = inserted - Len(m_callbacks_pending) + i
    /\ \A t \in Threads :
          pc[t] = "callback" =>
             /\ callback[t] = done + 1
             /\ inserted - Len(m_callbacks_pending) = done + 1
    /\ (\A t \in Threads : pc[t] # "callback") =>
          inserted - Len(m_callbacks_pending) = done

SerialInv == OneRuns /\ NoneLost

-----------------------------------------------------------------------------
(* How the program counters move *)

\* t goes to l, and any number of waiting threads are woken up.
Moves(t, l) ==
    /\ pc' \in [Threads -> PCs]
    /\ pc'[t] = l
    /\ \A u \in Threads \ {t} :
          pc'[u] = pc[u] \/ (u \in Services /\ pc[u] = "wait" /\ pc'[u] = "woken")

\* A step without a notification moves one thread.
LEMMA GotoMoves ==
  ASSUME Typed, NEW t \in Threads, NEW l \in PCs, Goto(t, l)
  PROVE  Moves(t, l)
BY DEF Typed, Goto, Moves

\* notify_one wakes at most one waiting thread.
LEMMA NotifyOneMoves ==
  ASSUME Typed, NEW t \in Threads, NEW l \in PCs, l # "wait",
         pc' \in NotifyOne([pc EXCEPT ![t] = l])
  PROVE  Moves(t, l)
<1> DEFINE p == [pc EXCEPT ![t] = l]
<1>1. p \in [Threads -> PCs] /\ p[t] = l /\ \A u \in Threads \ {t} : p[u] = pc[u]
  BY DEF Typed
<1>2. CASE pc' = p
  BY <1>1, <1>2 DEF Moves
<1>3. CASE \E w \in Waiters(p) : pc' = [p EXCEPT ![w] = "woken"]
  <2> PICK w \in Waiters(p) : pc' = [p EXCEPT ![w] = "woken"]
    BY <1>3
  <2>1. w \in Services /\ w \in Threads /\ p[w] = "wait" /\ w # t
    BY <1>1 DEF Waiters, Threads
  <2> HIDE DEF p
  <2>2. "woken" \in PCs
    BY DEF PCs, ServicePCs
  <2> QED
    BY <1>1, <2>1, <2>2 DEF Moves
<1> QED
  BY <1>2, <1>3 DEF NotifyOne

\* notify_all of the stop.
LEMMA NotifyAllMoves ==
  ASSUME Typed, Placed, pc' = NotifyAll([pc EXCEPT ![Main] = "join"])
  PROVE  Moves(Main, "join")
<1>1. Main \in Threads /\ "join" \in PCs /\ "woken" \in PCs
  BY DEF Threads, PCs, MainPCs, ServicePCs
<1>2. \A u \in Threads : pc[u] = "wait" => u \in Services
  BY DEF Threads, Placed, ClientPCs, MainPCs, InRunner
<1> QED
  BY <1>1, <1>2 DEF Typed, NotifyAll, Moves

\* Every step but those of the task runner leaves the running threads where
\* they are.
SameRunning ==
    \A u \in Threads :
        /\ pc[u] = "callback" <=> pc'[u] = "callback"
        /\ pc[u] = "finish" <=> pc'[u] = "finish"

\* A move between places that are not Running.
LEMMA MovesSame ==
  ASSUME NEW t \in Threads, NEW l, Moves(t, l), pc[t] \notin Running, l \notin Running
  PROVE  SameRunning
BY DEF Moves, SameRunning, Running

-----------------------------------------------------------------------------
(* Types and places *)

\* The loop of serviceQueue.
LEMMA LoopMoves ==
  ASSUME Typed, NEW t \in Services, NEW n, Loop(t, n)
  PROVE  /\ \/ shouldStop /\ Moves(t, "left") /\ nThreadsServicingQueue' = n - 1
               /\ until' = [until EXCEPT ![t] = None]
            \/ ~shouldStop /\ Moves(t, "wait") /\ nThreadsServicingQueue' = n
               /\ until' = [until EXCEPT ![t] = IF taskQueue = <<>> THEN None
                                                ELSE taskQueue[1].time]
         /\ UNCHANGED <<taskQueue, stopRequested, stopWhenEmpty, runner, now,
                        task, callback, ret, counts>>
<1>1. t \in Threads /\ "left" \in PCs /\ "wait" \in PCs
  BY DEF Threads, PCs, ServicePCs
<1>2. CASE shouldStop
  BY <1>1, <1>2, NotifyOneMoves DEF Loop
<1>3. CASE ~shouldStop
  BY <1>1, <1>3, GotoMoves DEF Loop
<1> QED
  BY <1>2, <1>3

\* A scheduled task is a task among the others.
LEMMA ScheduledTyped ==
  ASSUME taskQueue \in Seq(Tasks), NEW t \in Int, NEW f \in {"ProcessQueue", "Timed"},
         Scheduled(t, f)
  PROVE  taskQueue' \in Seq(Tasks)
<1> DEFINE e == [time |-> t, f |-> f]
<1>1. e \in Tasks
  BY DEF Tasks
<1> HIDE DEF e
<1>2. PICK k \in 0 .. Len(taskQueue) :
        taskQueue' = SubSeq(taskQueue, 1, k) \o <<e>> \o SubSeq(taskQueue, k + 1, Len(taskQueue))
  BY DEF Scheduled, Behind, e
<1> QED
  BY <1>1, <1>2

\* Only service threads are at the places of serviceQueue.
LEMMA ServicePlaces ==
  ASSUME Placed, NEW t \in Threads,
         pc[t] \in {"start", "relock", "wait", "woken", "run"}
  PROVE  t \in Services
BY DEF Placed, Threads, ClientPCs, MainPCs, InRunner

\* Every step of a thread keeps the types.
LEMMA TypedStep ==
  ASSUME Typed, Placed, NoneLost, NEW t \in Threads, Step(t) \/ SpuriousWakeup(t)
  PROVE  Typed'
<1> USE DEF Typed, scheduler, runner, locals, counts
<1>0. /\ Returns \subseteq PCs
      /\ {"woken", "run", "process", "relock", "notify", "schedule",
          "callback", "finish", "maybe"} \subseteq PCs
  BY DEF Returns, PCs, ServicePCs, MainPCs, InRunner
<1>a. ASSUME t \in Services, NEW n, Loop(t, n) PROVE Typed'
  <2>1. pc' \in [Threads -> PCs]
    BY <1>a, LoopMoves DEF Moves
  <2>2. /\ \/ until' = [until EXCEPT ![t] = None]
           \/ until' = [until EXCEPT ![t] = taskQueue[1].time] /\ taskQueue # <<>>
        /\ UNCHANGED <<taskQueue, stopRequested, stopWhenEmpty, runner, now,
                       task, callback, ret, counts>>
    BY <1>a DEF Loop
  <2>3. taskQueue # <<>> => taskQueue[1].time \in Int
    <3>1. taskQueue # <<>> => taskQueue[1] \in Tasks
      BY SMTT(20)
    <3> QED
      BY <3>1 DEF Tasks
  <2> QED
    BY <2>1, <2>2, <2>3
<1>1. CASE StartService(t) BY <1>1, <1>a, ServicePlaces DEF StartService
<1>2. CASE Relock(t)       BY <1>2, <1>a DEF Relock
<1>3. CASE Wakeup(t)       BY <1>0, <1>3 DEF Wakeup, Goto
<1>4. CASE Resume(t)
  <2>1. t \in Services
    BY <1>4, ServicePlaces DEF Resume
  <2>2. CASE ~MayPop(t)
    BY <1>4, <1>a, <2>1, <2>2 DEF Resume
  <2>3. CASE MayPop(t)
    <3>1. taskQueue # <<>>
      BY <2>3 DEF MayPop
    <3>2. Head(taskQueue) \in Tasks /\ Tail(taskQueue) \in Seq(Tasks)
      BY <3>1, SMTT(20)
    <3> QED
      BY <1>0, <1>4, <2>3, <3>2 DEF Resume, Goto
  <2> QED
    BY <2>2, <2>3
<1>5. CASE Run(t)          BY <1>0, <1>5 DEF Run, Goto, Returns
<1>6. CASE MaybeScheduleProcessQueue(t)
  BY <1>0, <1>6 DEF MaybeScheduleProcessQueue, Goto
<1>7. CASE ScheduleProcessQueue(t)
  <2>1. taskQueue' \in Seq(Tasks)
    BY <1>7, ScheduledTyped, SchedulerAssumption, SMTT(20) DEF ScheduleProcessQueue
  <2> QED
    BY <1>0, <1>7, <2>1 DEF ScheduleProcessQueue, Goto
<1>8. CASE Notify(t)
  <2>1. Moves(t, ret[t])
    BY <1>0, <1>8, NotifyOneMoves DEF Notify, Returns
  <2> QED
    BY <1>8, <2>1 DEF Notify, Moves
<1>9. CASE ProcessQueue(t)
  <2>1. CASE m_are_callbacks_running \/ m_callbacks_pending = <<>>
    BY <1>0, <1>9, <2>1 DEF ProcessQueue, Goto
  <2>2. CASE ~m_are_callbacks_running /\ m_callbacks_pending # <<>>
    <3>1. Head(m_callbacks_pending) \in Nat /\ Tail(m_callbacks_pending) \in Seq(Nat)
      BY <2>2, SMTT(20)
    <3> QED
      BY <1>0, <1>9, <2>2, <3>1 DEF ProcessQueue, Goto
  <2> QED
    BY <2>1, <2>2
<1>10. CASE RunCallback(t)
  <2>1. callback[t] \in Nat
    BY <1>10, SMTT(20) DEF RunCallback, NoneLost
  <2> QED
    BY <1>0, <1>10, <2>1 DEF RunCallback, Goto
<1>11. CASE CallbackFinished(t) BY <1>0, <1>11 DEF CallbackFinished, Goto
<1> QED
  BY <1>1, <1>2, <1>3, <1>4, <1>5, <1>6, <1>7, <1>8, <1>9, <1>10, <1>11
     DEF Step, Timeout, SpuriousWakeup

\* insert keeps the types.
LEMMA InsertTyped ==
  ASSUME Typed, NEW t \in Threads, NEW r \in Returns, Insert(t, r)
  PROVE  Typed'
<1>1. "maybe" \in PCs
  BY DEF PCs, ServicePCs, InRunner
<1>2. inserted' \in Nat /\ m_callbacks_pending' \in Seq(Nat)
  BY SMTT(20) DEF Typed, Insert
<1> QED
  BY <1>1, <1>2 DEF Typed, Insert, Goto, scheduler

\* MockForward moves every task to an earlier time.
LEMMA ForwardTyped ==
  ASSUME taskQueue \in Seq(Tasks)
  PROVE  [i \in DOMAIN taskQueue |-> [taskQueue[i] EXCEPT !.time = @ - 1]] \in Seq(Tasks)
<1>1. \A i \in DOMAIN taskQueue : [taskQueue[i] EXCEPT !.time = @ - 1] \in Tasks
  <2> TAKE i \in DOMAIN taskQueue
  <2>1. taskQueue[i] \in Tasks
    OBVIOUS
  <2> QED
    BY <2>1, SMTT(20) DEF Tasks
<1> DEFINE g(i) == [taskQueue[i] EXCEPT !.time = @ - 1]
<1>2. \A i \in 1 .. Len(taskQueue) : g(i) \in Tasks
  BY <1>1, SMTT(20)
<1>3. DOMAIN taskQueue = 1 .. Len(taskQueue) /\ Len(taskQueue) \in Nat
  OBVIOUS
<1> HIDE DEF g
<1>4. [i \in 1 .. Len(taskQueue) |-> g(i)] \in Seq(Tasks)
  BY <1>2, <1>3
<1> QED
  BY <1>3, <1>4 DEF g

\* The calls of clients keep the types.
LEMMA ClientTyped ==
  ASSUME Typed, NEW c \in Clients, ClientCall(c)
  PROVE  Typed'
<1>0. c \in Threads /\ "idle" \in Returns /\ "notify" \in PCs
  BY DEF Threads, Returns, PCs, ServicePCs, InRunner
<1>1. CASE Insert(c, "idle")
  BY <1>0, <1>1, InsertTyped
<1>2. ASSUME NEW delta \in 1 .. MaxNow, ScheduleFromNow(c, delta) PROVE Typed'
  <2>1. now + delta \in Int
    BY SchedulerAssumption, SMTT(20) DEF Typed
  <2>2. taskQueue' \in Seq(Tasks)
    BY <1>2, <2>1, ScheduledTyped DEF ScheduleFromNow, Typed
  <2> QED
    BY <1>0, <1>2, <2>2 DEF Typed, ScheduleFromNow, Goto, runner
<1>3. CASE MockForward(c)
  <2>1. taskQueue' \in Seq(Tasks)
    BY <1>3, ForwardTyped DEF MockForward, Typed
  <2> QED
    BY <1>0, <1>3, <2>1 DEF Typed, MockForward, Goto, runner
<1> QED
  BY <1>1, <1>2, <1>3 DEF ClientCall

\* What the main thread does of its own.
MainCall ==
    \/ \E whenDrained \in BOOLEAN : StopBegun(whenDrained)
    \/ MainStep
    \/ LateInsert

\* The steps of the main thread keep the types.
LEMMA MainTyped ==
  ASSUME Typed, Placed, MainCall
  PROVE  Typed'
<1> USE DEF Typed, scheduler, runner, locals, counts
<1>0. /\ Main \in Threads /\ {"flush", "flushTest"} \subseteq Returns
      /\ {"notifyAll", "join", "joined", "process", "flushed"} \subseteq PCs
  BY DEF Threads, Returns, PCs, MainPCs, InRunner
<1>1. ASSUME NEW d \in BOOLEAN, StopBegun(d) PROVE Typed'
  <2>1. stopRequested' \in BOOLEAN /\ stopWhenEmpty' \in BOOLEAN
    BY <1>1 DEF StopBegun
  <2> QED
    BY <1>0, <1>1, <2>1 DEF StopBegun, Goto
<1>2. CASE StopNotify
  <2>1. pc' \in [Threads -> PCs]
    BY <1>2, NotifyAllMoves DEF StopNotify, Moves
  <2> QED
    BY <1>2, <2>1 DEF StopNotify
<1>3. CASE Join       BY <1>0, <1>3 DEF Join, Goto
<1>4. CASE BeginFlush BY <1>0, <1>4 DEF BeginFlush, Goto
<1>5. CASE FlushTest  BY <1>0, <1>5 DEF FlushTest, Goto
<1>6. CASE LateInsert BY <1>0, <1>6, InsertTyped DEF LateInsert
<1> QED
  BY <1>1, <1>2, <1>3, <1>4, <1>5, <1>6 DEF MainCall, MainStep

\* A thread of its kind may be at l with r the place schedule() returns to.
FitsAt(t, l, r) ==
    /\ t \in Services => l \in ServicePCs /\ r = "relock"
    /\ t \in Clients => l \in ClientPCs /\ (l # "idle" => r = "idle")
    /\ t = Main =>
          /\ l \in MainPCs
          /\ l \in InRunner \cup {"flushTest"} => r \in {"flush", "flushTest"}

\* In Placed every thread fits where it is.
LEMMA PlacedFits == Placed <=> \A t \in Threads : FitsAt(t, pc[t], ret[t])
BY SchedulerAssumption DEF Placed, FitsAt, Threads

\* A step that moves one thread to a place where it fits keeps Placed.
LEMMA FitsKeepsPlaced ==
  ASSUME Typed, Placed, NEW t \in Threads, NEW l \in PCs, Moves(t, l),
         FitsAt(t, l, ret'[t]), \A u \in Threads \ {t} : ret'[u] = ret[u]
  PROVE  Placed'
<1>1. ASSUME NEW u \in Threads PROVE FitsAt(u, pc'[u], ret'[u])
  <2>1. CASE u = t
    BY <2>1 DEF Moves
  <2>2. CASE u # t
    <3>1. FitsAt(u, pc[u], ret[u]) /\ ret'[u] = ret[u]
      BY <2>2, PlacedFits
    <3>2. pc'[u] = pc[u] \/ (u \in Services /\ pc'[u] = "woken")
      BY <2>2 DEF Moves
    <3> QED
      BY <3>1, <3>2, SchedulerAssumption DEF FitsAt, ServicePCs
  <2> QED
    BY <2>1, <2>2
<1> QED
  BY <1>1, SchedulerAssumption DEF Placed, FitsAt, Threads

\* The places a step of a thread takes it to.
LEMMA StepPlaced ==
  ASSUME Typed, Placed, NEW t \in Threads, Step(t) \/ SpuriousWakeup(t)
  PROVE  Placed'
<1> USE DEF locals
<1>0. /\ Returns \subseteq PCs /\ ret[t] \in PCs /\ ret[t] # "wait"
      /\ {"left", "wait", "woken", "run", "process", "relock", "notify",
          "schedule", "callback", "finish", "maybe"} \subseteq PCs
  BY DEF Typed, Returns, PCs, ServicePCs, MainPCs, InRunner
<1>f. FitsAt(t, pc[t], ret[t])
  BY PlacedFits
<1>a. ASSUME NEW l \in PCs, Moves(t, l), FitsAt(t, l, ret[t]), ret' = ret PROVE Placed'
  BY <1>a, FitsKeepsPlaced
<1>b. ASSUME t \in Services, NEW l \in ServicePCs, Moves(t, l), ret' = ret PROVE Placed'
  BY <1>a, <1>b, <1>f, SchedulerAssumption DEF FitsAt, PCs
<1>s. ServicePCs = InRunner \cup {"unused", "start", "wait", "woken", "run", "relock", "left"}
  BY DEF ServicePCs
<1>c. ASSUME t \in Services, NEW n, Loop(t, n) PROVE Placed'
  BY <1>b, <1>c, <1>s, LoopMoves
<1>1. CASE StartService(t) BY <1>1, <1>c, ServicePlaces DEF StartService
<1>2. CASE Relock(t)       BY <1>2, <1>c DEF Relock
<1>3. CASE Wakeup(t)
  BY <1>0, <1>3, <1>b, <1>s, ServicePlaces, GotoMoves DEF Wakeup
<1>4. CASE Resume(t)
  <2>1. t \in Services
    BY <1>4, ServicePlaces DEF Resume
  <2>2. CASE ~MayPop(t)
    BY <1>4, <1>c, <2>1, <2>2 DEF Resume
  <2>3. CASE MayPop(t)
    BY <1>0, <1>4, <1>b, <1>s, <2>1, <2>3, GotoMoves DEF Resume
  <2> QED
    BY <2>2, <2>3
<1>5. CASE Run(t)
  <2>1. t \in Services
    BY <1>5, ServicePlaces DEF Run
  <2>2. ret' = ret
    BY <1>5, <2>1 DEF Run, Placed, Typed
  <2>3. Moves(t, "process") \/ Moves(t, "relock")
    BY <1>0, <1>5, GotoMoves DEF Run
  <2>4. "process" \in ServicePCs /\ "relock" \in ServicePCs
    BY DEF ServicePCs, InRunner
  <2> QED
    BY <1>b, <2>1, <2>2, <2>3, <2>4
<1>r. pc[t] \in InRunner =>
        FitsAt(t, ret[t], ret[t]) /\ \A l \in {"schedule", "notify"} : FitsAt(t, l, ret[t])
  BY <1>f, SchedulerAssumption DEF FitsAt, InRunner, ServicePCs, ClientPCs, MainPCs
<1>q. pc[t] \in {"process", "callback", "finish"} => \A l \in InRunner : FitsAt(t, l, ret[t])
  BY <1>f, SchedulerAssumption DEF FitsAt, InRunner, ServicePCs, ClientPCs, MainPCs
<1>i. {"process", "callback", "finish", "maybe", "schedule", "notify"} = InRunner
  BY DEF InRunner
<1>6. CASE MaybeScheduleProcessQueue(t)
  <2>1. Moves(t, ret[t]) \/ Moves(t, "schedule")
    BY <1>0, <1>6, GotoMoves DEF MaybeScheduleProcessQueue
  <2> QED
    BY <1>0, <1>6, <1>a, <1>r, <1>i, <2>1 DEF MaybeScheduleProcessQueue
<1>7. CASE ScheduleProcessQueue(t)
  <2>1. Moves(t, "notify")
    BY <1>0, <1>7, GotoMoves DEF ScheduleProcessQueue
  <2> QED
    BY <1>0, <1>7, <1>a, <1>r, <1>i, <2>1 DEF ScheduleProcessQueue
<1>8. CASE Notify(t)
  <2>1. Moves(t, ret[t])
    BY <1>0, <1>8, NotifyOneMoves DEF Notify
  <2> QED
    BY <1>0, <1>8, <1>a, <1>r, <1>i, <2>1 DEF Notify
<1>9. CASE ProcessQueue(t)
  <2>1. Moves(t, ret[t]) \/ Moves(t, "callback")
    BY <1>0, <1>9, GotoMoves DEF ProcessQueue
  <2> QED
    BY <1>0, <1>9, <1>a, <1>r, <1>q, <1>i, <2>1 DEF ProcessQueue
<1>10. CASE RunCallback(t)
  <2>1. Moves(t, "finish")
    BY <1>0, <1>10, GotoMoves DEF RunCallback
  <2> QED
    BY <1>0, <1>10, <1>a, <1>q, <1>i, <2>1 DEF RunCallback
<1>11. CASE CallbackFinished(t)
  <2>1. Moves(t, "maybe")
    BY <1>0, <1>11, GotoMoves DEF CallbackFinished
  <2> QED
    BY <1>0, <1>11, <1>a, <1>q, <1>i, <2>1 DEF CallbackFinished
<1> QED
  BY <1>1, <1>2, <1>3, <1>4, <1>5, <1>6, <1>7, <1>8, <1>9, <1>10, <1>11
     DEF Step, Timeout, SpuriousWakeup

\* The calls of clients, and the main thread.
LEMMA CallPlaced ==
  ASSUME Typed, Placed, (\E c \in Clients : ClientCall(c)) \/ MainCall
  PROVE  Placed'
<1>0. /\ Main \in Threads /\ Clients \subseteq Threads
      /\ {"maybe", "notify", "notifyAll", "join", "joined", "process",
          "flushed"} \subseteq PCs
  BY DEF Threads, PCs, MainPCs, InRunner
<1>1. ASSUME NEW c \in Clients, ClientCall(c) PROVE Placed'
  <2>1. /\ Moves(c, "maybe") \/ Moves(c, "notify")
        /\ ret' = [ret EXCEPT ![c] = "idle"]
    BY <1>0, <1>1, GotoMoves DEF ClientCall, Insert, ScheduleFromNow, MockForward
  <2>2. FitsAt(c, "maybe", "idle") /\ FitsAt(c, "notify", "idle")
    BY SchedulerAssumption DEF FitsAt, ClientPCs
  <2>3. ret'[c] = "idle" /\ \A u \in Threads \ {c} : ret'[u] = ret[u]
    BY <1>0, <2>1 DEF Typed
  <2> QED
    BY <1>0, <2>1, <2>2, <2>3, FitsKeepsPlaced
<1>2. ASSUME NEW l \in MainPCs \ (InRunner \cup {"flushTest"}), Moves(Main, l), ret' = ret
      PROVE  Placed'
  <2>1. FitsAt(Main, l, ret'[Main]) /\ l \in PCs
    BY <1>2, SchedulerAssumption DEF FitsAt, PCs
  <2> QED
    BY <1>0, <1>2, <2>1, FitsKeepsPlaced
<1>3. ASSUME NEW l \in InRunner, Moves(Main, l), NEW r \in {"flush", "flushTest"},
             ret'[Main] = r, \A u \in Threads \ {Main} : ret'[u] = ret[u]
      PROVE  Placed'
  <2>1. FitsAt(Main, l, ret'[Main]) /\ l \in PCs
    BY <1>3, SchedulerAssumption DEF FitsAt, PCs, MainPCs
  <2> QED
    BY <1>0, <1>3, <2>1, FitsKeepsPlaced
<1>m. MainPCs = InRunner \cup {"idle", "notifyAll", "join", "joined", "flush",
                               "flushTest", "flushed"}
  BY DEF MainPCs
<1>i. {"process", "callback", "finish", "maybe", "schedule", "notify"} = InRunner
  BY DEF InRunner
<1> USE DEF locals
<1>4. ASSUME NEW d \in BOOLEAN, StopBegun(d) PROVE Placed'
  BY <1>0, <1>2, <1>4, <1>m, <1>i, GotoMoves DEF StopBegun
<1>5. CASE StopNotify
  BY <1>2, <1>5, <1>m, <1>i, NotifyAllMoves DEF StopNotify
<1>6. CASE Join
  BY <1>0, <1>2, <1>6, <1>m, <1>i, GotoMoves DEF Join
<1>7. CASE BeginFlush
  <2>1. Moves(Main, "process")
    BY <1>0, <1>7, GotoMoves DEF BeginFlush
  <2>2. ret'[Main] = "flushTest" /\ \A u \in Threads \ {Main} : ret'[u] = ret[u]
    BY <1>0, <1>7 DEF BeginFlush, Typed
  <2> QED
    BY <1>3, <1>i, <2>1, <2>2
<1>8. CASE FlushTest
  <2>1. Moves(Main, "process") \/ Moves(Main, "flushed")
    BY <1>0, <1>8, GotoMoves DEF FlushTest
  <2>2. CASE Moves(Main, "flushed")
    BY <1>2, <1>8, <1>m, <1>i, <2>2 DEF FlushTest
  <2>3. CASE Moves(Main, "process")
    <3>1. ret[Main] \in {"flush", "flushTest"} /\ ret' = ret
      BY <1>8 DEF FlushTest, Placed
    <3> QED
      BY <1>3, <1>i, <2>3, <3>1
  <2> QED
    BY <2>1, <2>2, <2>3
<1>9. CASE LateInsert
  <2>1. Moves(Main, "maybe")
    BY <1>0, <1>9, GotoMoves DEF LateInsert, Insert
  <2>2. ret'[Main] = "flush" /\ \A u \in Threads \ {Main} : ret'[u] = ret[u]
    BY <1>0, <1>9 DEF LateInsert, Insert, Typed
  <2> QED
    BY <1>3, <1>i, <2>1, <2>2
<1> QED
  BY <1>1, <1>4, <1>5, <1>6, <1>7, <1>8, <1>9 DEF MainCall, MainStep

-----------------------------------------------------------------------------
(* Callbacks run one at a time and in order *)

\* What a step can do to the callbacks: nothing, insert one, begin one, run
\* it to its end, or clear m_are_callbacks_running after it.
serial == <<m_callbacks_pending, m_are_callbacks_running, callback, inserted, done>>

Quiet == UNCHANGED serial /\ SameRunning

Inserts ==
    /\ inserted' = inserted + 1
    /\ m_callbacks_pending' = Append(m_callbacks_pending, inserted')
    /\ UNCHANGED <<m_are_callbacks_running, callback, done>>
    /\ SameRunning

Begins(t) ==
    /\ ~m_are_callbacks_running /\ m_callbacks_pending # <<>>
    /\ m_are_callbacks_running' = TRUE
    /\ callback' = [callback EXCEPT ![t] = Head(m_callbacks_pending)]
    /\ m_callbacks_pending' = Tail(m_callbacks_pending)
    /\ pc' = [pc EXCEPT ![t] = "callback"]
    /\ UNCHANGED <<inserted, done>>

SerialAction ==
    \/ Quiet
    \/ Inserts
    \/ \E t \in Threads : Begins(t) \/ RunCallback(t) \/ CallbackFinished(t)

\* A step of a thread is one of these.
LEMMA StepSerial ==
  ASSUME Typed, Placed, NEW t \in Threads, Step(t) \/ SpuriousWakeup(t)
  PROVE  SerialAction
<1> USE DEF runner, locals, counts, serial, Quiet
<1>0. /\ ret[t] \in PCs /\ ret[t] # "wait" /\ ret[t] \notin Running
      /\ {"woken", "run", "process", "relock", "notify", "schedule"} \subseteq PCs
  BY DEF Typed, Returns, Running, PCs, ServicePCs, MainPCs, InRunner
<1>a. ASSUME NEW l, Moves(t, l), l \notin {"callback", "finish"},
             pc[t] \notin {"callback", "finish"}, UNCHANGED serial
      PROVE  Quiet
  BY <1>a, MovesSame DEF Running
<1>b. ASSUME t \in Services, NEW n, Loop(t, n), pc[t] \notin {"callback", "finish"}
      PROVE  Quiet
  BY <1>a, <1>b, LoopMoves
<1>1. CASE StartService(t) BY <1>1, <1>b, ServicePlaces DEF StartService, SerialAction
<1>2. CASE Relock(t)       BY <1>2, <1>b DEF Relock, SerialAction
<1>3. CASE Wakeup(t)
  BY <1>0, <1>3, <1>a, GotoMoves DEF Wakeup, SerialAction
<1>4. CASE Resume(t)
  <2>1. t \in Services
    BY <1>4, ServicePlaces DEF Resume
  <2>2. CASE ~MayPop(t)
    BY <1>4, <1>b, <2>1, <2>2 DEF Resume, SerialAction
  <2>3. CASE MayPop(t)
    BY <1>0, <1>4, <1>a, <2>3, GotoMoves DEF Resume, SerialAction
  <2> QED
    BY <2>2, <2>3
<1>5. CASE Run(t)
  <2>1. Moves(t, "process") \/ Moves(t, "relock")
    BY <1>0, <1>5, GotoMoves DEF Run
  <2> QED
    BY <1>5, <1>a, <2>1 DEF Run, SerialAction
<1>6. CASE MaybeScheduleProcessQueue(t)
  <2>1. Moves(t, ret[t]) \/ Moves(t, "schedule")
    BY <1>0, <1>6, GotoMoves DEF MaybeScheduleProcessQueue
  <2> QED
    BY <1>0, <1>6, <1>a, <2>1 DEF MaybeScheduleProcessQueue, SerialAction, Running
<1>7. CASE ScheduleProcessQueue(t)
  BY <1>0, <1>7, <1>a, GotoMoves DEF ScheduleProcessQueue, SerialAction
<1>8. CASE Notify(t)
  <2>1. Moves(t, ret[t])
    BY <1>0, <1>8, NotifyOneMoves DEF Notify
  <2> QED
    BY <1>0, <1>8, <1>a, <2>1 DEF Notify, SerialAction, Running
<1>9. CASE ProcessQueue(t)
  <2>1. CASE m_are_callbacks_running \/ m_callbacks_pending = <<>>
    <3>1. Moves(t, ret[t])
      BY <1>0, <1>9, <2>1, GotoMoves DEF ProcessQueue
    <3> QED
      BY <1>0, <1>9, <1>a, <2>1, <3>1 DEF ProcessQueue, SerialAction, Running
  <2>2. CASE ~m_are_callbacks_running /\ m_callbacks_pending # <<>>
    BY <1>9, <2>2 DEF ProcessQueue, Goto, Begins, SerialAction
  <2> QED
    BY <2>1, <2>2
<1>10. CASE RunCallback(t) \/ CallbackFinished(t)
  BY <1>10 DEF SerialAction
<1> QED
  BY <1>1, <1>2, <1>3, <1>4, <1>5, <1>6, <1>7, <1>8, <1>9, <1>10
     DEF Step, Timeout, SpuriousWakeup

\* insert appends the next callback.
LEMMA InsertSerial ==
  ASSUME Typed, NEW t \in Threads, NEW r, Insert(t, r), pc[t] \notin Running
  PROVE  Inserts
<1>1. "maybe" \in PCs /\ "maybe" \notin Running
  BY DEF PCs, ServicePCs, InRunner, Running
<1>2. SameRunning
  BY <1>1, GotoMoves, MovesSame DEF Insert
<1> QED
  BY <1>2 DEF Insert, Inserts

\* So is a call of a client or a step of the main thread.
LEMMA CallSerial ==
  ASSUME Typed, Placed, (\E c \in Clients : ClientCall(c)) \/ MainCall
  PROVE  SerialAction
<1> USE DEF runner, locals, counts, serial, Quiet
<1>0. /\ Main \in Threads /\ Clients \subseteq Threads
      /\ {"notify", "notifyAll", "join", "joined", "process", "flushed"} \subseteq PCs
  BY DEF Threads, PCs, MainPCs, InRunner
<1>a. ASSUME NEW t \in Threads, NEW l, Moves(t, l), l \notin {"callback", "finish"},
             pc[t] \notin {"callback", "finish"}, UNCHANGED serial
      PROVE  SerialAction
  BY <1>a, MovesSame DEF Running, SerialAction
<1>1. ASSUME NEW c \in Clients, ClientCall(c) PROVE SerialAction
  <2>1. CASE pc[c] = "idle" /\ Insert(c, "idle")
    BY <1>0, <2>1, InsertSerial DEF SerialAction, Running
  <2>2. CASE (\E delta \in 1 .. MaxNow : ScheduleFromNow(c, delta)) \/ MockForward(c)
    <3>1. /\ pc[c] = "idle" /\ Goto(c, "notify") /\ UNCHANGED serial
      BY <2>2 DEF ScheduleFromNow, MockForward
    <3>2. Moves(c, "notify")
      BY <1>0, <3>1, GotoMoves
    <3> QED
      BY <1>0, <1>a, <3>1, <3>2
  <2> QED
    BY <1>1, <2>1, <2>2 DEF ClientCall
<1>2. ASSUME NEW d \in BOOLEAN, StopBegun(d) PROVE SerialAction
  <2>1. Moves(Main, "notifyAll")
    BY <1>0, <1>2, GotoMoves DEF StopBegun
  <2> QED
    BY <1>0, <1>2, <1>a, <2>1 DEF StopBegun
<1>3. CASE StopNotify
  BY <1>0, <1>3, <1>a, NotifyAllMoves DEF StopNotify
<1>4. CASE Join
  BY <1>0, <1>4, <1>a, GotoMoves DEF Join
<1>5. CASE BeginFlush
  <2>1. Moves(Main, "process")
    BY <1>0, <1>5, GotoMoves DEF BeginFlush
  <2> QED
    BY <1>0, <1>5, <1>a, <2>1 DEF BeginFlush
<1>6. CASE FlushTest
  <2>1. Moves(Main, "process") \/ Moves(Main, "flushed")
    BY <1>0, <1>6, GotoMoves DEF FlushTest
  <2> QED
    BY <1>0, <1>6, <1>a, <2>1 DEF FlushTest
<1>7. CASE LateInsert
  BY <1>0, <1>7, InsertSerial DEF LateInsert, SerialAction, Running
<1> QED
  BY <1>1, <1>2, <1>3, <1>4, <1>5, <1>6, <1>7 DEF MainCall, MainStep

\* Every such step keeps the callbacks serial: a callback begins only when
\* none is being run, and then the first pending one is the next in order.
LEMMA SerialStep ==
  ASSUME Typed, SerialInv, SerialAction
  PROVE  SerialInv'
<1> USE DEF Typed, SerialInv, OneRuns, Running
<1>1. CASE Quiet
  BY <1>1 DEF Quiet, serial, SameRunning, NoneLost
<1>2. CASE Inserts
  <2>1. OneRuns'
    BY <1>2 DEF Inserts, SameRunning
  <2>2. /\ Len(m_callbacks_pending') = Len(m_callbacks_pending) + 1
        /\ inserted' - Len(m_callbacks_pending') = inserted - Len(m_callbacks_pending)
    BY <1>2, SMTT(20) DEF Inserts
  <2>3. \A i \in 1 .. Len(m_callbacks_pending') :
          m_callbacks_pending'[i] = inserted' - Len(m_callbacks_pending') + i
    <3> TAKE i \in 1 .. Len(m_callbacks_pending')
    <3>1. CASE i = Len(m_callbacks_pending')
      BY <1>2, <2>2, <3>1, SMTT(20) DEF Inserts
    <3>2. CASE i \in 1 .. Len(m_callbacks_pending)
      <4>1. m_callbacks_pending'[i] = m_callbacks_pending[i]
        BY <1>2, <3>2, SMTT(20) DEF Inserts
      <4> QED
        BY <2>2, <3>2, <4>1 DEF NoneLost
    <3> QED
      BY <2>2, <3>1, <3>2, SMTT(20)
  <2> QED
    BY <1>2, <2>1, <2>2, <2>3 DEF Inserts, SameRunning, NoneLost
<1>3. ASSUME NEW t \in Threads, Begins(t) PROVE SerialInv'
  <2>1. \A u \in Threads : pc[u] \notin Running
    BY <1>3 DEF Begins
  <2>2. pc'[t] = "callback" /\ \A u \in Threads \ {t} : pc'[u] = pc[u]
    BY <1>3 DEF Begins
  <2>3. OneRuns'
    BY <1>3, <2>1, <2>2 DEF Begins
  <2>4. inserted - Len(m_callbacks_pending) = done
    BY <2>1 DEF NoneLost
  <2>5. /\ Len(m_callbacks_pending') = Len(m_callbacks_pending) - 1
        /\ Len(m_callbacks_pending) >= 1
    BY <1>3, SMTT(20) DEF Begins
  <2>6. callback'[t] = done' + 1
    BY <1>3, <2>4, <2>5, SMTT(20) DEF Begins, NoneLost
  <2>7. \A i \in 1 .. Len(m_callbacks_pending') :
          m_callbacks_pending'[i] = inserted' - Len(m_callbacks_pending') + i
    BY <1>3, <2>5, SMTT(20) DEF Begins, NoneLost
  <2> QED
    BY <1>3, <2>1, <2>2, <2>3, <2>4, <2>5, <2>6, <2>7, SMTT(20) DEF Begins, NoneLost
<1>4. ASSUME NEW t \in Threads, RunCallback(t) PROVE SerialInv'
  <2>1. pc[t] = "callback" /\ pc'[t] = "finish" /\ \A u \in Threads \ {t} : pc'[u] = pc[u]
    BY <1>4 DEF RunCallback, Goto
  <2>2. \A u \in Threads : pc'[u] # "callback"
    BY <2>1
  <2>3. done' = done + 1 /\ inserted - Len(m_callbacks_pending) = done + 1
    BY <1>4, <2>1 DEF RunCallback, NoneLost
  <2> QED
    BY <1>4, <2>1, <2>2, <2>3 DEF RunCallback, NoneLost, runner
<1>5. ASSUME NEW t \in Threads, CallbackFinished(t) PROVE SerialInv'
  <2>1. pc[t] = "finish" /\ pc'[t] = "maybe" /\ \A u \in Threads \ {t} : pc'[u] = pc[u]
    BY <1>5 DEF CallbackFinished, Goto
  <2> QED
    BY <1>5, <2>1 DEF CallbackFinished, NoneLost, locals, counts
<1> QED
  BY <1>1, <1>2, <1>3, <1>4, <1>5 DEF SerialAction

\* What is true initially.
LEMMA InitSerial == Init => ControlInv /\ SerialInv
<1> SUFFICES ASSUME Init PROVE ControlInv /\ SerialInv
  OBVIOUS
<1> USE SchedulerAssumption DEF Init
<1>0. /\ \A t \in Threads : pc[t] \in {"start", "unused", "idle"}
      /\ pc \in [Threads -> {"start", "unused", "idle"}]
      /\ \A s \in Services : pc[s] \in {"start", "unused"}
      /\ \A c \in Clients : pc[c] = "idle"
      /\ pc[Main] = "idle"
  BY DEF Threads
<1>1. {"start", "unused", "idle"} \subseteq PCs /\ "relock" \in Returns
  BY DEF PCs, ServicePCs, MainPCs, Returns
<1>2. m_are_callbacks_running \in BOOLEAN /\ stopRequested \in BOOLEAN
      /\ stopWhenEmpty \in BOOLEAN
  OBVIOUS
<1>3. Typed
  <2>1. pc \in [Threads -> PCs]
    BY <1>0, <1>1
  <2>2. /\ ret \in [Threads -> Returns]
        /\ until \in [Threads -> Int \cup {None}]
        /\ task \in [Threads -> Tasks \cup {None}]
        /\ callback \in [Threads -> Nat \cup {None}]
    BY <1>1
  <2>3. taskQueue \in Seq(Tasks) /\ m_callbacks_pending \in Seq(Nat)
        /\ inserted \in Nat /\ done \in Nat /\ now \in 0 .. MaxNow
    BY SMTT(20)
  <2> QED
    BY <1>2, <2>1, <2>2, <2>3 DEF Typed
<1>4. Placed
  BY <1>0 DEF Placed, Threads, ServicePCs, ClientPCs, MainPCs, InRunner
<1>5. SerialInv
  <2>1. \A t \in Threads : pc[t] \notin {"callback", "finish"}
    BY <1>0
  <2>2. Len(m_callbacks_pending) = 0 /\ inserted = 0 /\ done = 0
    OBVIOUS
  <2>3. NoneLost
    <3>1. inserted - Len(m_callbacks_pending) = done
      BY ONLY <2>2
    <3>2. 1 .. Len(m_callbacks_pending) = {}
      BY ONLY <2>2
    <3> QED
      BY ONLY <2>1, <3>1, <3>2 DEF NoneLost
  <2> QED
    BY ONLY <2>1, <2>3 DEF SerialInv, OneRuns, Running
<1> QED
  BY <1>3, <1>4, <1>5 DEF ControlInv

\* Every step keeps the types and places, and is one of the serial actions.
LEMMA NextSerial ==
  ASSUME ControlInv, SerialInv, [Next]_vars
  PROVE  ControlInv' /\ SerialAction
<1> USE DEF ControlInv
<1>0. NoneLost
  BY DEF SerialInv
<1>1. ASSUME NEW t \in Threads, Step(t) \/ SpuriousWakeup(t)
      PROVE  ControlInv' /\ SerialAction
  BY <1>0, <1>1, TypedStep, StepPlaced, StepSerial
<1>2. CASE (\E c \in Clients : ClientCall(c)) \/ MainCall
  <2>1. Typed'
    BY <1>2, ClientTyped, MainTyped
  <2> QED
    BY <1>2, <2>1, CallPlaced, CallSerial
<1>3. CASE Tick
  <2>1. now' \in 0 .. MaxNow /\ UNCHANGED <<scheduler, runner, pc, locals, counts>>
    BY <1>3, SchedulerAssumption, SMTT(20) DEF Tick, Typed
  <2>2. Quiet /\ Placed'
    BY <2>1 DEF Quiet, serial, SameRunning, runner, locals, counts, Placed
  <2>3. Typed'
    BY <2>1 DEF Typed, scheduler, runner, locals, counts
  <2> QED
    BY <2>2, <2>3 DEF SerialAction
<1>4. CASE UNCHANGED vars
  <2>1. UNCHANGED <<now, scheduler, runner, pc, locals, counts>>
    BY <1>4 DEF vars
  <2>2. Quiet /\ Placed'
    BY <2>1 DEF Quiet, serial, SameRunning, runner, locals, counts, Placed
  <2>3. Typed'
    BY <2>1 DEF Typed, scheduler, runner, locals, counts
  <2> QED
    BY <2>2, <2>3 DEF SerialAction
<1> QED
  BY <1>1, <1>2, <1>3, <1>4 DEF Next, MainCall, Flushed

\* Callbacks stay serial, for any number of service threads and clients.
THEOREM SchedulerSerial == Spec => [](ControlInv /\ SerialInv)
<1>1. ControlInv /\ SerialInv /\ [Next]_vars => ControlInv' /\ SerialInv'
  BY NextSerial, SerialStep DEF ControlInv
<1> QED
  BY <1>1, InitSerial, PTL DEF Spec

\* The callback that is being run, as the refinement maps it.
Current == IF \E t \in Threads : pc[t] = "callback"
             THEN callback[CHOOSE t \in Threads : pc[t] = "callback"] ELSE None

\* It is that of the one thread at "callback", if there is one.
LEMMA CurrentIs ==
  OneRuns => /\ \A t \in Threads : pc[t] = "callback" => Current = callback[t]
             /\ (\A t \in Threads : pc[t] # "callback") => Current = None
<1> SUFFICES ASSUME OneRuns, NEW t \in Threads, pc[t] = "callback"
             PROVE  Current = callback[t]
  BY DEF Current
<1> DEFINE c == CHOOSE u \in Threads : pc[u] = "callback"
<1>1. c \in Threads /\ pc[c] = "callback"
  OBVIOUS
<1>2. c = t
  BY <1>1 DEF OneRuns, Running
<1> QED
  BY <1>2 DEF Current

\* Each serial action is a step of the serial queue or leaves it alone.
LEMMA SerialRefines ==
  ASSUME Typed, SerialInv, SerialInv', SerialAction
  PROVE  [Callbacks!Insert \/ Callbacks!Begin \/ Callbacks!End]_(Callbacks!svars)
<1>0. OneRuns /\ OneRuns' /\ NoneLost
  BY DEF SerialInv
<1>1. /\ \A t \in Threads : pc[t] = "callback" => Current = callback[t]
      /\ (\A t \in Threads : pc[t] # "callback") => Current = None
  BY <1>0, CurrentIs
<1>2. /\ \A t \in Threads : pc'[t] = "callback" => Current' = callback'[t]
      /\ (\A t \in Threads : pc'[t] # "callback") => Current' = None
  <2>1. (OneRuns => /\ \A t \in Threads : pc[t] = "callback" => Current = callback[t]
                    /\ (\A t \in Threads : pc[t] # "callback") => Current = None)'
    BY CurrentIs, PTL
  <2> QED
    BY <1>0, <2>1
<1>3. ASSUME \A u \in Threads : pc'[u] = "callback" <=> pc[u] = "callback",
             callback' = callback
      PROVE  Current' = Current
  <2>1. CASE \A u \in Threads : pc[u] # "callback"
    BY <1>1, <1>2, <1>3, <2>1
  <2>2. ASSUME NEW u \in Threads, pc[u] = "callback" PROVE Current' = Current
    BY <1>1, <1>2, <1>3, <2>2
  <2> QED
    BY <2>1, <2>2
<1>s. SameRunning => \A u \in Threads : pc'[u] = "callback" <=> pc[u] = "callback"
  BY DEF SameRunning
<1>4. CASE Quiet
  <2>1. Current' = Current /\ UNCHANGED <<m_callbacks_pending, inserted, done>>
    BY <1>3, <1>s, <1>4 DEF Quiet, serial
  <2> QED
    BY <2>1 DEF Callbacks!svars, Current
<1>5. CASE Inserts
  <2>1. Current' = Current
    BY <1>3, <1>s, <1>5 DEF Inserts
  <2> QED
    BY <1>5, <2>1 DEF Inserts, Callbacks!Insert, Current
<1>6. ASSUME NEW t \in Threads, Begins(t)
      PROVE  Callbacks!Begin
  <2>1. \A u \in Threads : pc[u] # "callback"
    BY <1>0, <1>6 DEF Begins, OneRuns, Running
  <2>2. pc'[t] = "callback" /\ callback'[t] = Head(m_callbacks_pending)
    BY <1>6 DEF Begins, Typed
  <2>3. Current = None /\ Current' = Head(m_callbacks_pending)
    BY <1>1, <1>2, <2>1, <2>2
  <2> QED
    BY <1>6, <2>3 DEF Begins, Callbacks!Begin, Current
<1>7. ASSUME NEW t \in Threads, RunCallback(t)
      PROVE  Callbacks!End
  <2>1. pc[t] = "callback" /\ callback[t] = done + 1 /\ done' = callback[t]
    BY <1>0, <1>7 DEF RunCallback, NoneLost
  <2>2. \A u \in Threads : pc'[u] # "callback"
    BY <1>0, <1>7 DEF RunCallback, Goto, Typed, OneRuns, Running
  <2>3. Current = done + 1 /\ done' = Current /\ Current' = None
    BY <1>1, <1>2, <2>1, <2>2
  <2> QED
    BY <1>7, <2>3 DEF RunCallback, runner, Callbacks!End, Current
<1>8. ASSUME NEW t \in Threads, CallbackFinished(t)
      PROVE  UNCHANGED Callbacks!svars
  <2>1. callback' = callback /\ UNCHANGED <<m_callbacks_pending, inserted, done>>
    BY <1>8 DEF CallbackFinished, locals, counts
  <2>2. \A u \in Threads : pc'[u] = "callback" <=> pc[u] = "callback"
    BY <1>8 DEF CallbackFinished, Goto, Typed
  <2>3. Current' = Current
    BY <1>3, <2>1, <2>2
  <2> QED
    BY <2>1, <2>3 DEF Callbacks!svars, Current
<1> QED
  BY <1>4, <1>5, <1>6, <1>7, <1>8 DEF SerialAction

\* The scheduler's threads and the flush at shutdown run the callbacks as a
\* single thread would: one at a time, in order, none lost or repeated, for
\* any number of service threads and clients.
THEOREM SchedulerImplementsSerialQueue == Spec => ImplementsSerialQueue
<1>1. Init => Callbacks!SInit
  <2> SUFFICES ASSUME Init PROVE Callbacks!SInit
    OBVIOUS
  <2>1. \A t \in Threads : pc[t] # "callback"
    BY DEF Init
  <2> QED
    BY <2>1 DEF Init, Callbacks!SInit
<1>2. /\ ControlInv /\ SerialInv /\ SerialInv'
      /\ [Next]_vars
      => [Callbacks!Insert \/ Callbacks!Begin \/ Callbacks!End]_(Callbacks!svars)
  BY NextSerial, SerialRefines DEF ControlInv
<1> QED
  BY <1>1, <1>2, SchedulerSerial, PTL
     DEF Spec, ImplementsSerialQueue, Callbacks!SSpec

-----------------------------------------------------------------------------
(* The task queue and the end of the scheduler *)

Gone == {"left", "unused"}

\* The shutdown: clients are idle once it has begun, no thread leaves before,
\* and when all have left and the stop was to wait for it, the queue is empty.
StopInv ==
    /\ \E s \in Services : pc[s] # "unused"
    /\ pc[Main] # "idle" => \A c \in Clients : pc[c] = "idle"
    /\ pc[Main] = "idle" =>
          /\ ~stopRequested /\ ~stopWhenEmpty
          /\ \A s \in Services : pc[s] # "left"
    /\ stopWhenEmpty => ~stopRequested
    /\ pc[Main] = "joined" => \A s \in Services : pc[s] \in Gone
    /\ /\ pc[Main] \in {"idle", "notifyAll", "join", "joined"}
       /\ \A s \in Services : pc[s] \in Gone
       /\ stopWhenEmpty
       => taskQueue = <<>>

\* The tasks are ordered by time.
Sorted(q) == \A i, j \in DOMAIN q : i < j => q[i].time <= q[j].time

Servicing == {t \in Services : pc[t] \notin {"start", "left", "unused"}}
CountInv == nThreadsServicingQueue = Cardinality(Servicing)

\* A single service thread: while it waits with a timeout the queue's first task
\* is due no later than that, and what it runs is due.
Alone == \A t, u \in Used : t = u
DueInv ==
    Alone => \A t \in Services :
        /\ pc[t] \in {"wait", "woken"} /\ until[t] # None =>
              taskQueue # <<>> /\ taskQueue[1].time <= until[t]
        /\ pc[t] = "run" => task[t] \in Tasks /\ task[t].time <= now

StoppedInv == StopInv /\ Sorted(taskQueue) /\ CountInv /\ DueInv

-----------------------------------------------------------------------------
(* What the steps of each kind of thread do to the queue *)

\* The threads that service the queue once t has been counted.
Counted(t) ==
    IF pc[t] = "start" THEN nThreadsServicingQueue + 1 ELSE nThreadsServicingQueue

Leaves(t) ==
    /\ Moves(t, "left") /\ shouldStop
    /\ pc[t] \in {"start", "relock", "woken"}
    /\ nThreadsServicingQueue' = Counted(t) - 1
    /\ until' = [until EXCEPT ![t] = None]
    /\ UNCHANGED <<taskQueue, task>>

Waits(t) ==
    /\ Moves(t, "wait")
    /\ pc[t] \in {"start", "relock", "woken"}
    /\ nThreadsServicingQueue' = Counted(t)
    /\ until' = [until EXCEPT ![t] = IF taskQueue = <<>> THEN None ELSE taskQueue[1].time]
    /\ UNCHANGED <<taskQueue, task>>

Wakes(t) ==
    /\ Moves(t, "woken") /\ pc[t] = "wait"
    /\ UNCHANGED <<taskQueue, nThreadsServicingQueue, until, task>>

Pops(t) ==
    /\ Moves(t, "run") /\ pc[t] = "woken" /\ MayPop(t)
    /\ task' = [task EXCEPT ![t] = Head(taskQueue)]
    /\ taskQueue' = Tail(taskQueue)
    /\ until' = [until EXCEPT ![t] = None]
    /\ UNCHANGED nThreadsServicingQueue

\* What t does outside of the loop: it may schedule ProcessQueue.
Working == {"run", "process", "callback", "finish", "maybe", "schedule", "notify"}
Works(t) ==
    /\ pc[t] \in Working
    /\ \E l \in (Working \ {"run"}) \cup {"relock"} : Moves(t, l)
    /\ \A u \in Threads \ {t} : task'[u] = task[u]
    /\ UNCHANGED taskQueue \/ Scheduled(now, "ProcessQueue")
    /\ UNCHANGED <<nThreadsServicingQueue, until>>

\* Every step of a service thread is one of these.
LEMMA ServiceStep ==
  ASSUME Typed, Placed, NEW t \in Services, Step(t) \/ SpuriousWakeup(t)
  PROVE  /\ Leaves(t) \/ Waits(t) \/ Wakes(t) \/ Pops(t) \/ Works(t)
         /\ UNCHANGED <<now, stopRequested, stopWhenEmpty>>
<1> USE DEF scheduler, locals
<1>0. t \in Threads /\ ret[t] = "relock"
      /\ {"woken", "run", "process", "relock", "notify", "schedule", "callback",
          "finish", "maybe"} \subseteq PCs
  BY DEF Threads, Placed, PCs, ServicePCs, InRunner
<1>a. ASSUME Loop(t, Counted(t)), pc[t] \in {"start", "relock", "woken"}
      PROVE  (Leaves(t) \/ Waits(t)) /\ UNCHANGED <<now, stopRequested, stopWhenEmpty>>
  BY <1>a, LoopMoves DEF Leaves, Waits
<1>b. ASSUME pc[t] \in Working, Goto(t, "relock") \/ (\E l \in Working \ {"run"} : Goto(t, l)),
             \A u \in Threads \ {t} : task'[u] = task[u],
             UNCHANGED taskQueue \/ Scheduled(now, "ProcessQueue"),
             UNCHANGED <<nThreadsServicingQueue, until>>
      PROVE  Works(t)
  <2>1. Working \subseteq PCs
    BY DEF Working, PCs, ServicePCs, InRunner
  <2>2. \E l \in (Working \ {"run"}) \cup {"relock"} : Moves(t, l)
    BY <1>0, <1>b, <2>1, GotoMoves
  <2> QED
    BY <1>b, <2>2 DEF Works
<1>1. CASE StartService(t) BY <1>1, <1>a DEF StartService, Counted
<1>2. CASE Relock(t)       BY <1>2, <1>a DEF Relock, Counted
<1>3. CASE Wakeup(t)       BY <1>0, <1>3, GotoMoves DEF Wakeup, Wakes
<1>4. CASE Resume(t)
  <2>1. CASE ~MayPop(t)
    BY <1>4, <1>a, <2>1 DEF Resume, Counted
  <2>2. CASE MayPop(t)
    BY <1>0, <1>4, <2>2, GotoMoves DEF Resume, Pops
  <2> QED
    BY <2>1, <2>2
<1> USE <1>0 DEF Working
<1>5. CASE Run(t)
  BY <1>5, <1>b DEF Run, Typed
<1>6. CASE MaybeScheduleProcessQueue(t)
  BY <1>6, <1>b DEF MaybeScheduleProcessQueue
<1>7. CASE ScheduleProcessQueue(t)
  BY <1>7, <1>b DEF ScheduleProcessQueue
<1>8. CASE Notify(t)
  <2>1. Moves(t, "relock")
    BY <1>8, NotifyOneMoves DEF Notify
  <2> QED
    BY <1>8, <2>1 DEF Notify, Works
<1>9. CASE ProcessQueue(t)
  BY <1>9, <1>b DEF ProcessQueue
<1>10. CASE RunCallback(t)
  BY <1>10, <1>b DEF RunCallback
<1>11. CASE CallbackFinished(t)
  BY <1>11, <1>b DEF CallbackFinished
<1> QED
  BY <1>1, <1>2, <1>3, <1>4, <1>5, <1>6, <1>7, <1>8, <1>9, <1>10, <1>11
     DEF Step, Timeout, SpuriousWakeup

\* What other threads can do to the queue.
Reschedules ==
    \/ UNCHANGED taskQueue
    \/ \E time \in Int, f \in {"ProcessQueue", "Timed"} : Scheduled(time, f)
    \/ taskQueue' = [i \in DOMAIN taskQueue |-> [taskQueue[i] EXCEPT !.time = @ - 1]]

ClientActs(c) ==
    /\ pc[c] # "idle" \/ pc[Main] = "idle"
    /\ \E l \in ClientPCs : Moves(c, l)
    /\ Reschedules
    /\ UNCHANGED <<nThreadsServicingQueue, until, task, now, stopRequested, stopWhenEmpty>>

\* Every step and call of a client is of this kind.
LEMMA ClientStep ==
  ASSUME Typed, Placed, NEW c \in Clients,
         Step(c) \/ SpuriousWakeup(c) \/ ClientCall(c)
  PROVE  ClientActs(c)
<1> USE DEF scheduler, locals
<1>0. /\ c \in Threads /\ pc[c] \in ClientPCs /\ (pc[c] # "idle" => ret[c] = "idle")
      /\ c \notin Services /\ now \in Int
  BY SchedulerAssumption, SMTT(20) DEF Threads, Placed, Typed
<1>1. {"idle", "maybe", "schedule", "notify"} = ClientPCs /\ ClientPCs \subseteq PCs
  BY DEF ClientPCs, PCs, MainPCs, InRunner
<1>2. CASE MaybeScheduleProcessQueue(c)
  BY <1>0, <1>1, <1>2, GotoMoves DEF MaybeScheduleProcessQueue, ClientActs, Reschedules
<1>3. CASE ScheduleProcessQueue(c)
  BY <1>0, <1>1, <1>3, GotoMoves DEF ScheduleProcessQueue, ClientActs, Reschedules
<1>4. CASE Notify(c)
  <2>1. Moves(c, "idle")
    BY <1>0, <1>1, <1>4, NotifyOneMoves DEF Notify
  <2> QED
    BY <1>1, <1>4, <2>1 DEF Notify, ClientActs, Reschedules
<1>5. CASE pc[c] = "idle" /\ pc[Main] = "idle" /\ Insert(c, "idle")
  BY <1>0, <1>1, <1>5, GotoMoves DEF Insert, ClientActs, Reschedules
<1>6. ASSUME NEW delta \in 1 .. MaxNow, ScheduleFromNow(c, delta) PROVE ClientActs(c)
  <2>1. Moves(c, "notify")
    BY <1>0, <1>1, <1>6, GotoMoves DEF ScheduleFromNow
  <2>2. Reschedules
    <3>1. now + delta \in Int
      BY <1>0
    <3> QED
      BY <1>6, <3>1 DEF ScheduleFromNow, Reschedules
  <2> QED
    BY <1>1, <1>6, <2>1, <2>2 DEF ScheduleFromNow, ClientActs
<1>7. CASE MockForward(c)
  BY <1>0, <1>1, <1>7, GotoMoves DEF MockForward, ClientActs, Reschedules
<1>8. pc[c] \in {"idle", "maybe", "schedule", "notify"}
  BY <1>0, <1>1
<1> QED
  BY <1>0, <1>2, <1>3, <1>4, <1>5, <1>6, <1>7, <1>8
     DEF Step, StartService, Relock, Timeout, SpuriousWakeup, Wakeup, Resume, Run,
         ProcessQueue, RunCallback, CallbackFinished, ClientCall

\* The main thread: it begins the stop when the clients are idle, has joined
\* when the service threads are gone, and schedules only after that.
MainGoes(l) ==
    /\ Moves(Main, l)
    /\ l # "idle"
    /\ pc[Main] = "idle" => /\ l = "notifyAll"
                            /\ \A c \in Clients : pc[c] = "idle"
                            /\ stopWhenEmpty' => ~stopRequested'
                            /\ pc' = [pc EXCEPT ![Main] = l]
    /\ pc[Main] # "idle" => UNCHANGED <<stopRequested, stopWhenEmpty>>
    /\ l = "joined" => \A s \in Services : pc[s] \in Gone
    /\ l \in {"notifyAll", "join", "joined"} =>
          UNCHANGED taskQueue /\ pc[Main] \in {"idle", "notifyAll", "join"}

MainActs ==
    /\ \E l \in MainPCs : MainGoes(l)
    /\ Reschedules
    /\ UNCHANGED <<nThreadsServicingQueue, until, task, now>>

\* Every step of the main thread is of this kind.
LEMMA MainStepActs ==
  ASSUME Typed, Placed, Step(Main) \/ SpuriousWakeup(Main) \/ MainCall
  PROVE  MainActs
<1> USE DEF scheduler, locals
<1>0. /\ Main \in Threads /\ Main \notin Services /\ now \in Int
      /\ pc[Main] \in MainPCs
      /\ pc[Main] \in InRunner => ret[Main] \in {"flush", "flushTest"}
  BY SchedulerAssumption, SMTT(20) DEF Threads, Placed, Typed
<1>1. /\ MainPCs = {"process", "callback", "finish", "maybe", "schedule", "notify",
                    "idle", "notifyAll", "join", "joined", "flush", "flushTest", "flushed"}
      /\ InRunner = {"process", "callback", "finish", "maybe", "schedule", "notify"}
      /\ MainPCs \subseteq PCs
  BY DEF PCs, MainPCs, InRunner
<1>a. ASSUME NEW l \in {"process", "callback", "finish", "maybe", "schedule", "notify",
                        "flush", "flushTest", "flushed"},
             Moves(Main, l), pc[Main] # "idle", Reschedules,
             UNCHANGED <<nThreadsServicingQueue, until, task, now, stopRequested, stopWhenEmpty>>
      PROVE  MainActs
  <2>1. MainGoes(l)
    BY <1>a DEF MainGoes
  <2> QED
    BY <1>1, <1>a, <2>1 DEF MainActs
<1>2. CASE MaybeScheduleProcessQueue(Main)
  <2>1. Moves(Main, ret[Main]) \/ Moves(Main, "schedule")
    BY <1>0, <1>1, <1>2, GotoMoves DEF MaybeScheduleProcessQueue
  <2> QED
    BY <1>0, <1>1, <1>2, <1>a, <2>1 DEF MaybeScheduleProcessQueue, Reschedules
<1>3. CASE ScheduleProcessQueue(Main)
  <2>1. Moves(Main, "notify")
    BY <1>0, <1>1, <1>3, GotoMoves DEF ScheduleProcessQueue
  <2> QED
    BY <1>0, <1>3, <1>a, <2>1 DEF ScheduleProcessQueue, Reschedules
<1>4. CASE Notify(Main)
  <2>1. Moves(Main, ret[Main]) /\ ret[Main] \in {"flush", "flushTest"}
    <3>1. ret[Main] \in {"flush", "flushTest"} /\ ret[Main] \in PCs /\ ret[Main] # "wait"
      BY <1>0, <1>1, <1>4 DEF Notify
    <3> QED
      BY <1>0, <1>4, <3>1, NotifyOneMoves DEF Notify
  <2> QED
    BY <1>4, <1>a, <2>1 DEF Notify, Reschedules
<1>5. CASE ProcessQueue(Main)
  <2>1. Moves(Main, ret[Main]) \/ Moves(Main, "callback")
    BY <1>0, <1>1, <1>5, GotoMoves DEF ProcessQueue
  <2> QED
    BY <1>0, <1>1, <1>5, <1>a, <2>1 DEF ProcessQueue, Reschedules
<1>6. CASE RunCallback(Main)
  <2>1. Moves(Main, "finish")
    BY <1>0, <1>1, <1>6, GotoMoves DEF RunCallback
  <2> QED
    BY <1>6, <1>a, <2>1 DEF RunCallback, Reschedules
<1>7. CASE CallbackFinished(Main)
  <2>1. Moves(Main, "maybe")
    BY <1>0, <1>1, <1>7, GotoMoves DEF CallbackFinished
  <2> QED
    BY <1>7, <1>a, <2>1 DEF CallbackFinished, Reschedules
<1>8. ASSUME NEW d \in BOOLEAN, StopBegun(d) PROVE MainActs
  <2>1. Moves(Main, "notifyAll") /\ pc' = [pc EXCEPT ![Main] = "notifyAll"]
    BY <1>0, <1>1, <1>8, GotoMoves DEF StopBegun, Goto
  <2>2. stopWhenEmpty' => ~stopRequested'
    BY <1>8 DEF StopBegun
  <2>3. MainGoes("notifyAll")
    BY <1>8, <2>1, <2>2 DEF StopBegun, MainGoes
  <2> QED
    BY <1>1, <1>8, <2>3 DEF StopBegun, MainActs, Reschedules
<1>9. CASE StopNotify
  <2>1. MainGoes("join")
    BY <1>9, NotifyAllMoves DEF StopNotify, MainGoes
  <2> QED
    BY <1>1, <1>9, <2>1 DEF StopNotify, MainActs, Reschedules
<1>10. CASE Join
  <2>1. Moves(Main, "joined")
    BY <1>0, <1>1, <1>10, GotoMoves DEF Join
  <2>2. MainGoes("joined")
    BY <1>10, <2>1 DEF Join, MainGoes, Gone
  <2> QED
    BY <1>1, <1>10, <2>2 DEF Join, MainActs, Reschedules
<1>11. CASE BeginFlush
  <2>1. Moves(Main, "process")
    BY <1>0, <1>1, <1>11, GotoMoves DEF BeginFlush
  <2> QED
    BY <1>11, <1>a, <2>1 DEF BeginFlush, Reschedules
<1>12. CASE FlushTest
  <2>1. Moves(Main, "process") \/ Moves(Main, "flushed")
    BY <1>0, <1>1, <1>12, GotoMoves DEF FlushTest
  <2> QED
    BY <1>12, <1>a, <2>1 DEF FlushTest, Reschedules
<1>13. CASE LateInsert
  <2>1. Moves(Main, "maybe")
    BY <1>0, <1>1, <1>13, GotoMoves DEF LateInsert, Insert
  <2> QED
    BY <1>13, <1>a, <2>1 DEF LateInsert, Insert, Reschedules
<1>14. pc[Main] \notin {"start", "relock", "wait", "woken", "run"}
  BY <1>0, ServicePlaces
<1> QED
  BY <1>0, <1>2, <1>3, <1>4, <1>5, <1>6, <1>7, <1>8, <1>9, <1>10, <1>11, <1>12, <1>13, <1>14
     DEF Step, StartService, Relock, Timeout, SpuriousWakeup, Wakeup, Resume, Run,
         MainCall, MainStep

-----------------------------------------------------------------------------
(* The stop *)

\* A step of a service thread keeps the order of the shutdown.
LEMMA ServiceStop ==
  ASSUME Placed, StopInv, NEW t \in Services, UNCHANGED <<stopRequested, stopWhenEmpty>>,
         Leaves(t) \/ Waits(t) \/ Wakes(t) \/ Pops(t) \/ Works(t)
  PROVE  StopInv'
<1>1. PICK l : Moves(t, l) /\ l # "unused" /\ pc[t] \notin Gone
              /\ (l = "left" => shouldStop /\ UNCHANGED taskQueue)
  BY SMTT(20) DEF Leaves, Waits, Wakes, Pops, Works, Working, Gone
<1>2. /\ t \in Threads /\ Main \in Threads \ {t} /\ Clients \subseteq Threads \ {t}
      /\ Main \notin Services /\ \A c \in Clients : c \notin Services
      /\ Services \subseteq Threads
  BY SchedulerAssumption DEF Threads
<1>3. pc'[Main] = pc[Main] /\ \A c \in Clients : pc'[c] = pc[c]
  BY <1>1, <1>2 DEF Moves
<1>4. \A s \in Services : /\ pc[s] \in Gone => pc'[s] = pc[s]
                          /\ pc'[s] = "unused" => pc[s] = "unused"
                          /\ s # t /\ pc'[s] \in Gone => pc[s] \in Gone
                          /\ s # t /\ pc'[s] = "left" => pc[s] = "left"
  BY <1>1, <1>2 DEF Moves, Gone
<1>5. pc'[t] = l
  BY <1>1 DEF Moves
<1>6. l # "left" => \E s \in Services : pc'[s] \notin Gone
  BY <1>1, <1>5 DEF Gone
<1>7. pc[Main] = "idle" => l # "left"
  BY <1>1 DEF StopInv, shouldStop
<1>8. stopWhenEmpty /\ l = "left" => taskQueue' = <<>>
  BY <1>1 DEF StopInv, shouldStop
<1>9. pc[Main] # "joined"
  BY <1>1 DEF StopInv
<1> HIDE DEF Gone
<1> QED
  BY <1>3, <1>4, <1>5, <1>6, <1>7, <1>8, <1>9 DEF StopInv

\* So does a step of a client, and it never happens once the stop has begun.
LEMMA ClientStop ==
  ASSUME Placed, StopInv, NEW c \in Clients, ClientActs(c)
  PROVE  StopInv'
<1>1. PICK l \in ClientPCs : Moves(c, l)
  BY DEF ClientActs
<1>2. /\ c \in Threads /\ Main \in Threads \ {c} /\ Services \subseteq Threads \ {c}
      /\ Main \notin Services
  BY SchedulerAssumption DEF Threads
<1>3. pc[Main] = "idle"
  BY DEF ClientActs, StopInv
<1>4. pc'[Main] = pc[Main]
  BY <1>1, <1>2 DEF Moves
<1>5. \A s \in Services : pc'[s] = pc[s] \/ pc'[s] = "woken"
  BY <1>1, <1>2 DEF Moves
<1>6. UNCHANGED <<stopRequested, stopWhenEmpty>>
  BY DEF ClientActs
<1> QED
  BY <1>3, <1>4, <1>5, <1>6 DEF StopInv

\* And so does a step of the main thread.
LEMMA MainStop ==
  ASSUME Typed, Placed, StopInv, MainActs
  PROVE  StopInv'
<1>1. PICK l \in MainPCs : MainGoes(l)
  BY DEF MainActs
<1>2. /\ Main \in Threads /\ Services \subseteq Threads \ {Main}
      /\ Clients \subseteq Threads \ {Main}
      /\ Main \notin Services /\ \A c \in Clients : c \notin Services
  BY SchedulerAssumption DEF Threads
<1>3. pc'[Main] = l /\ l # "idle"
  BY <1>1 DEF MainGoes, Moves
<1>4. \A c \in Clients : pc'[c] = pc[c]
  BY <1>1, <1>2 DEF MainGoes, Moves
<1>5. \A s \in Services : pc'[s] = pc[s] \/ (pc[s] = "wait" /\ pc'[s] = "woken")
  BY <1>1, <1>2 DEF MainGoes, Moves
<1>6. CASE pc[Main] = "idle"
  <2>1. \E s \in Services : pc'[s] \notin Gone
    BY <1>5, <1>6 DEF StopInv, Gone
  <2> QED
    BY <1>1, <1>3, <1>4, <1>5, <1>6, <2>1 DEF StopInv, MainGoes, Gone
<1>7. CASE pc[Main] # "idle"
  <2>1. \A s \in Services : pc'[s] \in Gone <=> pc[s] \in Gone
    BY <1>5 DEF Gone
  <2> QED
    BY <1>1, <1>3, <1>4, <1>5, <1>7, <2>1, SMTT(20) DEF StopInv, MainGoes
<1> QED
  BY <1>6, <1>7

-----------------------------------------------------------------------------
(* The order of the tasks *)

\* The elements of the queue after a task has been scheduled.
LEMMA ScheduledElements ==
  ASSUME taskQueue \in Seq(Tasks), NEW t \in Int,
         NEW f \in {"ProcessQueue", "Timed"}, Scheduled(t, f)
  PROVE  \E k \in Behind(t) :
            /\ DOMAIN taskQueue' = 1 .. Len(taskQueue) + 1
            /\ \A i \in 1 .. k : taskQueue'[i] = taskQueue[i]
            /\ taskQueue'[k + 1].time = t
            /\ \A i \in k + 2 .. Len(taskQueue) + 1 : taskQueue'[i] = taskQueue[i - 1]
<1> DEFINE e == [time |-> t, f |-> f]
<1>0. e.time = t /\ e \in Tasks
  BY DEF Tasks
<1> HIDE DEF e
<1>1. PICK k \in Behind(t) :
        taskQueue' = SubSeq(taskQueue, 1, k) \o <<e>> \o SubSeq(taskQueue, k + 1, Len(taskQueue))
  BY DEF Scheduled, e
<1>2. k \in 0 .. Len(taskQueue) /\ Len(taskQueue) \in Nat
  BY DEF Behind
<1> DEFINE A == SubSeq(taskQueue, 1, k)
           B == A \o <<e>>
           C == SubSeq(taskQueue, k + 1, Len(taskQueue))
<1>3. A \in Seq(Tasks) /\ Len(A) = k /\ \A i \in 1 .. k : A[i] = taskQueue[i]
  BY <1>2
<1>4. C \in Seq(Tasks) /\ Len(C) = Len(taskQueue) - k
      /\ \A i \in 1 .. Len(C) : C[i] = taskQueue[k + i]
  BY <1>2
<1> HIDE DEF A, C
<1>5. B \in Seq(Tasks) /\ Len(B) = k + 1 /\ B[k + 1] = e
      /\ \A i \in 1 .. k : B[i] = taskQueue[i]
  BY <1>0, <1>2, <1>3
<1>6. taskQueue' = B \o C
  BY <1>1 DEF A, C
<1> HIDE DEF B
<1>7. Len(taskQueue') = Len(taskQueue) + 1 /\ taskQueue' \in Seq(Tasks)
  <2>1. Len(taskQueue') = Len(B) + Len(C) /\ taskQueue' \in Seq(Tasks)
    <3>1. B \in Seq(Tasks) /\ C \in Seq(Tasks)
      BY <1>4, <1>5
    <3> QED
      BY ONLY <3>1, <1>6
  <2> QED
    BY <1>2, <1>4, <1>5, <2>1, SMTT(20)
<1>8. DOMAIN taskQueue' = 1 .. Len(taskQueue) + 1
  BY <1>7
<1>9. \A i \in 1 .. k + 1 : taskQueue'[i] = B[i]
  BY <1>2, <1>4, <1>5, <1>6, SMTT(20)
<1>10. \A i \in k + 2 .. Len(taskQueue) + 1 : taskQueue'[i] = taskQueue[i - 1]
  <2> TAKE i \in k + 2 .. Len(taskQueue) + 1
  <2>1. i - (k + 1) \in 1 .. Len(C) /\ k + (i - (k + 1)) = i - 1 /\ i \in Int
    BY <1>2, <1>4, SMTT(20)
  <2>2. taskQueue'[i] = C[i - (k + 1)]
    BY <1>2, <1>4, <1>5, <1>6, <2>1, SMTT(20)
  <2> QED
    BY <1>4, <2>1, <2>2
<1>11. \A i \in 1 .. k : taskQueue'[i] = taskQueue[i]
  BY <1>2, <1>5, <1>9, SMTT(20)
<1>12. taskQueue'[k + 1].time = t
  BY <1>0, <1>2, <1>5, <1>9, SMTT(20)
<1> QED
  BY <1>8, <1>10, <1>11, <1>12

\* Scheduling and MockForward keep the tasks in order, and the first task is
\* due no later than before.
LEMMA RescheduleSorted ==
  ASSUME taskQueue \in Seq(Tasks), Sorted(taskQueue), Reschedules
  PROVE  /\ Sorted(taskQueue)'
         /\ taskQueue # <<>> =>
               taskQueue' # <<>> /\ taskQueue'[1].time <= taskQueue[1].time
<1>0. /\ \A i \in DOMAIN taskQueue : taskQueue[i].time \in Int
      /\ DOMAIN taskQueue = 1 .. Len(taskQueue) /\ Len(taskQueue) \in Nat
  <2>1. \A i \in DOMAIN taskQueue : taskQueue[i] \in Tasks
    OBVIOUS
  <2> QED
    BY <2>1, SMTT(20) DEF Tasks
<1>1. CASE UNCHANGED taskQueue
  BY <1>0, <1>1 DEF Sorted
<1>2. ASSUME NEW t \in Int, NEW f \in {"ProcessQueue", "Timed"}, Scheduled(t, f)
      PROVE  /\ Sorted(taskQueue)'
             /\ taskQueue # <<>> =>
                   taskQueue' # <<>> /\ taskQueue'[1].time <= taskQueue[1].time
  <2>1. PICK k \in Behind(t) :
            /\ DOMAIN taskQueue' = 1 .. Len(taskQueue) + 1
            /\ \A i \in 1 .. k : taskQueue'[i] = taskQueue[i]
            /\ taskQueue'[k + 1].time = t
            /\ \A i \in k + 2 .. Len(taskQueue) + 1 : taskQueue'[i] = taskQueue[i - 1]
    BY <1>2, ScheduledElements
  <2>2. k \in 0 .. Len(taskQueue)
    BY DEF Behind
  <2>3. \A i \in 1 .. k : taskQueue[i].time <= t
    BY <1>0, <2>2, SMTT(20) DEF Behind, Sorted
  <2>4. \A i \in k + 1 .. Len(taskQueue) : taskQueue[i].time > t
    BY <1>0, <2>2 DEF Behind, Sorted
  <2>5. \A i \in k + 2 .. Len(taskQueue) + 1 : i - 1 \in k + 1 .. Len(taskQueue)
    BY <1>0, <2>2
  <2>6. Sorted(taskQueue)'
    <3> SUFFICES ASSUME NEW i \in 1 .. Len(taskQueue) + 1,
                        NEW j \in 1 .. Len(taskQueue) + 1, i < j
                 PROVE  taskQueue'[i].time <= taskQueue'[j].time
      BY <2>1 DEF Sorted
    <3>1. CASE j <= k
      BY <1>0, <2>1, <2>2, <3>1, SMTT(20) DEF Sorted
    <3>2. CASE j = k + 1
      BY <1>0, <2>1, <2>2, <2>3, <3>2, SMTT(20)
    <3>3. CASE j > k + 1 /\ i <= k
      <4>1. j - 1 \in k + 1 .. Len(taskQueue) /\ taskQueue'[j] = taskQueue[j - 1]
            /\ taskQueue'[i] = taskQueue[i]
        BY <1>0, <2>1, <2>2, <3>3, SMTT(20)
      <4> QED
        BY <1>0, <2>2, <3>3, <4>1, SMTT(20) DEF Sorted
    <3>4. CASE j > k + 1 /\ i = k + 1
      <4>1. j - 1 \in k + 1 .. Len(taskQueue) /\ taskQueue'[j] = taskQueue[j - 1]
            /\ taskQueue'[i].time = t
        BY <1>0, <2>1, <2>2, <3>4, SMTT(20)
      <4> QED
        BY <1>0, <2>2, <2>4, <4>1, SMTT(20)
    <3>5. CASE j > k + 1 /\ i > k + 1
      <4>1. /\ j - 1 \in k + 1 .. Len(taskQueue) /\ taskQueue'[j] = taskQueue[j - 1]
            /\ i - 1 \in k + 1 .. Len(taskQueue) /\ taskQueue'[i] = taskQueue[i - 1]
            /\ i - 1 < j - 1
        BY <1>0, <2>1, <2>2, <3>5, SMTT(20)
      <4> QED
        BY <1>0, <2>2, <4>1, SMTT(20) DEF Sorted
    <3> QED
      BY <1>0, <2>2, <3>1, <3>2, <3>3, <3>4, <3>5
  <2>7. ASSUME taskQueue # <<>> PROVE taskQueue'[1].time <= taskQueue[1].time
    BY <1>0, <2>1, <2>2, <2>4, <2>7
  <2>8. taskQueue' # <<>>
    BY <1>0, <2>1, SMTT(20)
  <2> QED
    BY <2>6, <2>7, <2>8
<1>3. CASE taskQueue' = [i \in DOMAIN taskQueue |-> [taskQueue[i] EXCEPT !.time = @ - 1]]
  <2>1. \A i \in DOMAIN taskQueue : taskQueue'[i].time = taskQueue[i].time - 1
    <3> TAKE i \in DOMAIN taskQueue
    <3>1. taskQueue[i] \in Tasks
      OBVIOUS
    <3> QED
      BY <1>3, <3>1 DEF Tasks
  <2>2. DOMAIN taskQueue' = DOMAIN taskQueue
    BY <1>3
  <2> HIDE <1>3
  <2> QED
    BY <1>0, <2>1, <2>2, SMTT(20) DEF Sorted
<1> QED
  BY <1>1, <1>2, <1>3 DEF Reschedules

\* Taking the first task keeps the others in order.
LEMMA TailSorted ==
  ASSUME taskQueue \in Seq(Tasks), Sorted(taskQueue), taskQueue # <<>>,
         taskQueue' = Tail(taskQueue)
  PROVE  Sorted(taskQueue)'
<1>1. DOMAIN taskQueue' = 1 .. Len(taskQueue) - 1
      /\ \A i \in 1 .. Len(taskQueue) - 1 : taskQueue'[i] = taskQueue[i + 1]
  OBVIOUS
<1>2. ASSUME NEW i \in 1 .. Len(taskQueue) - 1, NEW j \in 1 .. Len(taskQueue) - 1, i < j
      PROVE  taskQueue'[i].time <= taskQueue'[j].time
  <2>1. i + 1 \in DOMAIN taskQueue /\ j + 1 \in DOMAIN taskQueue /\ i + 1 < j + 1
    BY <1>2, SMTT(20)
  <2> QED
    BY <1>1, <2>1 DEF Sorted
<1> QED
  BY <1>1, <1>2 DEF Sorted

\* Every step keeps the tasks in order.
LEMMA SortedStep ==
  ASSUME taskQueue \in Seq(Tasks), Sorted(taskQueue), now \in Int,
         \/ \E t \in Services : Leaves(t) \/ Waits(t) \/ Wakes(t) \/ Pops(t) \/ Works(t)
         \/ Reschedules
  PROVE  Sorted(taskQueue)'
<1>1. CASE Reschedules
  BY <1>1, RescheduleSorted
<1>2. ASSUME NEW t \in Services, Leaves(t) \/ Waits(t) \/ Wakes(t) \/ Works(t)
      PROVE  Reschedules
  BY <1>2 DEF Leaves, Waits, Wakes, Works, Reschedules
<1>3. ASSUME NEW t \in Services, Pops(t) PROVE Sorted(taskQueue)'
  BY <1>3, TailSorted DEF Pops, MayPop
<1> QED
  BY <1>1, <1>2, <1>3

-----------------------------------------------------------------------------
(* Tasks run when they are due *)

\* A move leaves the used threads the same and lets none begin to wait or to
\* run a task, except the one that moves.
LEMMA MovesDue ==
  ASSUME NEW t \in Threads, NEW l, Moves(t, l), l # "unused", pc[t] # "unused"
  PROVE  /\ Used' = Used
         /\ \A s \in Services \ {t} :
               /\ pc'[s] \in {"wait", "woken"} => pc[s] \in {"wait", "woken"}
               /\ pc'[s] = "run" => pc[s] = "run"
BY DEF Moves, Used, Threads

\* A thread that is alone runs only what is due: the first task of the queue
\* is due no later than the one it waited for.
LEMMA DueStep ==
  ASSUME Typed, Placed, Sorted(taskQueue), DueInv, NEW t \in Services, now' = now,
         Leaves(t) \/ Waits(t) \/ Wakes(t) \/ Pops(t) \/ Works(t)
  PROVE  DueInv'
<1>0. t \in Threads
  BY DEF Threads
<1>1. PICK l : Moves(t, l) /\ l # "unused" /\ pc[t] # "unused"
  BY DEF Leaves, Waits, Wakes, Pops, Works, Working
<1>2. Used' = Used /\ pc'[t] = l
  BY <1>0, <1>1, MovesDue DEF Moves
<1> SUFFICES ASSUME Alone'
             PROVE  \A s \in Services :
                      /\ pc'[s] \in {"wait", "woken"} /\ until'[s] # None =>
                            taskQueue' # <<>> /\ taskQueue'[1].time <= until'[s]
                      /\ pc'[s] = "run" => task'[s] \in Tasks /\ task'[s].time <= now'
  BY DEF DueInv
<1>3. Alone
  BY <1>2 DEF Alone
<1>4. \A s \in Services \ {t} : pc'[s] = "unused"
  BY <1>1, <1>2 DEF Alone, Used
<1>5. /\ pc[t] \in {"wait", "woken"} /\ until[t] # None =>
            taskQueue # <<>> /\ taskQueue[1].time <= until[t]
      /\ pc[t] = "run" => task[t] \in Tasks /\ task[t].time <= now
  BY <1>3 DEF DueInv
<1>6. SUFFICES /\ pc'[t] \in {"wait", "woken"} /\ until'[t] # None =>
                     taskQueue' # <<>> /\ taskQueue'[1].time <= until'[t]
               /\ pc'[t] = "run" => task'[t] \in Tasks /\ task'[t].time <= now'
  BY <1>4
<1>7. CASE Leaves(t)  BY <1>7 DEF Leaves, Moves
<1>8. CASE Waits(t)
  <2>1. pc'[t] = "wait"
    BY <1>8 DEF Waits, Moves
  <2>2. until'[t] = IF taskQueue = <<>> THEN None ELSE taskQueue[1].time
    BY <1>0, <1>8 DEF Waits, Typed
  <2>3. taskQueue # <<>> => taskQueue[1].time \in Int
    <3>1. taskQueue # <<>> => taskQueue[1] \in Tasks
      BY SMTT(20) DEF Typed
    <3> QED
      BY <3>1 DEF Tasks
  <2>4. taskQueue' = taskQueue
    BY <1>8 DEF Waits
  <2> QED
    BY <2>1, <2>2, <2>3, <2>4, SMTT(20)
<1>9. CASE Wakes(t)
  BY <1>5, <1>9 DEF Wakes, Moves
<1>10. CASE Pops(t)
  <2>1. pc'[t] = "run" /\ pc[t] = "woken" /\ until[t] # None /\ until[t] <= now
    BY <1>10 DEF Pops, Moves, MayPop, TimedOut
  <2>2. taskQueue # <<>> /\ task'[t] = taskQueue[1] /\ taskQueue[1] \in Tasks
    <3>1. taskQueue # <<>> /\ task' = [task EXCEPT ![t] = Head(taskQueue)]
      BY <1>10 DEF Pops, MayPop
    <3>2. taskQueue \in Seq(Tasks) /\ t \in DOMAIN task
      BY <1>0 DEF Typed
    <3> QED
      BY <3>1, <3>2, SMTT(20)
  <2>3. taskQueue[1].time <= until[t] /\ taskQueue[1].time \in Int
        /\ until[t] \in Int /\ now \in Int
    <3>1. until[t] \in Int /\ now \in Int
      BY <1>0, <2>1, SMTT(20) DEF Typed
    <3>2. taskQueue[1].time \in Int
      BY <2>2 DEF Tasks
    <3> QED
      BY <1>5, <2>1, <3>1, <3>2
  <2>4. pc'[t] \notin {"wait", "woken"}
    BY <2>1
  <2>5. taskQueue[1].time <= now
    BY <2>1, <2>3
  <2> QED
    BY <2>2, <2>4, <2>5
<1>11. CASE Works(t)
  BY <1>11 DEF Works, Working, Moves
<1> QED
  BY <1>7, <1>8, <1>9, <1>10, <1>11

\* The other threads only make the first task due earlier.
LEMMA DueOther ==
  ASSUME Typed, Sorted(taskQueue), DueInv, NEW t \in Threads \ Services,
         NEW l, Moves(t, l), l # "unused", pc[t] # "unused",
         Reschedules, UNCHANGED <<until, task, now>>
  PROVE  DueInv'
<1>1. /\ Used' = Used
      /\ \A s \in Services :
            /\ pc'[s] \in {"wait", "woken"} => pc[s] \in {"wait", "woken"}
            /\ pc'[s] = "run" => pc[s] = "run"
  BY MovesDue
<1>2. taskQueue # <<>> => taskQueue' # <<>> /\ taskQueue'[1].time <= taskQueue[1].time
  BY RescheduleSorted DEF Typed
<1>3. (Alone)' => Alone
  BY <1>1 DEF Alone
<1>4. \A s \in Services : until[s] \in Int \cup {None}
  BY DEF Typed, Threads
<1>5. ASSUME NEW s \in Services, Alone, pc'[s] \in {"wait", "woken"}, until'[s] # None
      PROVE  taskQueue' # <<>> /\ taskQueue'[1].time <= until'[s]
  <2>1. taskQueue # <<>> /\ taskQueue[1].time <= until[s] /\ until'[s] = until[s]
    BY <1>1, <1>5 DEF DueInv
  <2>2. taskQueue[1].time \in Int /\ taskQueue'[1].time \in Int /\ until[s] \in Int
    <3>1. taskQueue[1] \in Tasks
      BY <2>1, SMTT(20) DEF Typed
    <3>2. taskQueue' \in Seq(Tasks)
      BY ScheduledTyped, ForwardTyped DEF Reschedules, Typed
    <3>3. taskQueue'[1] \in Tasks
      BY <1>2, <2>1, <3>2, SMTT(20)
    <3> QED
      BY <1>4, <1>5, <2>1, <3>1, <3>3 DEF Tasks
  <2> QED
    BY <1>2, <2>1, <2>2, SMTT(20)
<1>6. ASSUME NEW s \in Services, Alone, pc'[s] = "run"
      PROVE  task'[s] \in Tasks /\ task'[s].time <= now'
  BY <1>1, <1>6 DEF DueInv
<1> QED
  BY <1>3, <1>5, <1>6 DEF DueInv

-----------------------------------------------------------------------------
INSTANCE FiniteSetTheorems

(* The count of the threads *)

\* There are finitely many.
LEMMA ServicingFinite ==
  /\ IsFiniteSet(Servicing)
  /\ Cardinality(Servicing) \in Nat /\ Cardinality(Servicing) <= Cardinality(Services)
<1>1. Servicing \subseteq Services /\ IsFiniteSet(Services)
  BY SchedulerAssumption DEF Servicing
<1>2. Cardinality(Servicing) <= Cardinality(Services) /\ IsFiniteSet(Servicing)
  BY <1>1, FS_Subset
<1> QED
  BY <1>2, FS_CardinalityType

\* A service thread is counted from its first turn of the loop until it leaves.
LEMMA ServiceCount ==
  ASSUME CountInv, NEW t \in Services,
         Leaves(t) \/ Waits(t) \/ Wakes(t) \/ Pops(t) \/ Works(t)
  PROVE  CountInv'
<1>0. t \in Threads /\ Services \subseteq Threads /\ nThreadsServicingQueue \in Nat
  BY ServicingFinite DEF Threads, CountInv
<1>m. ASSUME NEW l, Moves(t, l)
      PROVE  /\ pc'[t] = l
             /\ \A s \in Services \ {t} : s \in Servicing' <=> s \in Servicing
  BY <1>0, <1>m DEF Moves, Servicing
<1>a. ASSUME Servicing' = Servicing, nThreadsServicingQueue' = nThreadsServicingQueue
      PROVE  CountInv'
  BY <1>a DEF CountInv
<1>s. \A x \in Servicing : x \in Services
  BY DEF Servicing
<1>t. \A x \in Servicing' : x \in Services
  BY DEF Servicing
<1>1. CASE Leaves(t) /\ pc[t] = "start"
  <2>1. Servicing' = Servicing
    BY <1>1, <1>m, <1>s, <1>t DEF Leaves, Servicing
  <2>2. nThreadsServicingQueue' = nThreadsServicingQueue
    BY <1>0, <1>1, SMTT(20) DEF Leaves, Counted
  <2> QED
    BY <1>a, <2>1, <2>2
<1>2. CASE Leaves(t) /\ pc[t] # "start"
  <2>1. t \in Servicing /\ t \notin Servicing'
    BY <1>2, <1>m DEF Leaves, Servicing
  <2>2. Servicing' = Servicing \ {t}
    BY <1>2, <1>m, <1>s, <1>t, <2>1 DEF Leaves
  <2>3. Cardinality(Servicing') = Cardinality(Servicing) - 1
    BY <2>1, <2>2, ServicingFinite, FS_RemoveElement
  <2> QED
    BY <1>2, <2>3 DEF Leaves, Counted, CountInv
<1>3. CASE Waits(t) /\ pc[t] = "start"
  <2>1. t \notin Servicing /\ t \in Servicing'
    <3>1. pc'[t] = "wait"
      BY <1>3, <1>m DEF Waits
    <3> QED
      BY <1>3, <3>1 DEF Servicing
  <2>2. Servicing' = Servicing \cup {t}
    BY <1>3, <1>m, <1>s, <1>t, <2>1 DEF Waits
  <2>3. Cardinality(Servicing') = Cardinality(Servicing) + 1
    BY <2>1, <2>2, ServicingFinite, FS_AddElement
  <2> QED
    BY <1>3, <2>3 DEF Waits, Counted, CountInv
<1>4. CASE Waits(t) /\ pc[t] # "start"
  <2>1. Servicing' = Servicing
    BY <1>4, <1>m, <1>s, <1>t DEF Waits, Servicing
  <2> QED
    BY <1>4, <1>a, <2>1 DEF Waits, Counted
<1>5. CASE Wakes(t) \/ Pops(t) \/ Works(t)
  <2>1. Servicing' = Servicing
    <3>1. PICK l \in (Working \ {"run"}) \cup {"woken", "run", "relock"} : Moves(t, l)
      BY <1>5 DEF Wakes, Pops, Works
    <3>2. pc'[t] = l /\ \A s \in Services \ {t} : s \in Servicing' <=> s \in Servicing
      BY <1>m, <3>1
    <3>3. pc[t] \in Working \cup {"wait", "woken"}
      BY <1>5 DEF Wakes, Pops, Works
    <3>4. pc[t] \notin {"start", "left", "unused"}
          /\ l \notin {"start", "left", "unused"}
      BY <3>1, <3>3 DEF Working
    <3>5. t \in Servicing /\ t \in Servicing'
      BY <3>2, <3>4 DEF Servicing
    <3>6. \A s \in Services : s \in Servicing' <=> s \in Servicing
      <4> SUFFICES ASSUME NEW s \in Services PROVE s \in Servicing' <=> s \in Servicing
        OBVIOUS
      <4>1. CASE s = t  BY <3>5, <4>1
      <4>2. CASE s # t  BY <3>2, <4>2
      <4> QED  BY <4>1, <4>2
    <3> QED
      BY <1>s, <1>t, <3>6
  <2>2. nThreadsServicingQueue' = nThreadsServicingQueue
    BY <1>5 DEF Wakes, Pops, Works
  <2> QED
    BY <1>a, <2>1, <2>2
<1> QED
  BY <1>1, <1>2, <1>3, <1>4, <1>5

\* The other threads do not change the count.
LEMMA OtherCount ==
  ASSUME CountInv, NEW t \in Threads \ Services, NEW l, Moves(t, l),
         nThreadsServicingQueue' = nThreadsServicingQueue
  PROVE  CountInv'
<1>1. Servicing' = Servicing
  BY DEF Moves, Servicing, Threads
<1> QED
  BY <1>1 DEF CountInv

-----------------------------------------------------------------------------
\* Every step keeps what is known of the stop, the queue and the count.
LEMMA NextStopped ==
  ASSUME ControlInv, StoppedInv, [Next]_vars
  PROVE  StoppedInv'
<1> USE DEF ControlInv, StoppedInv
<1>0. taskQueue \in Seq(Tasks) /\ now \in Int
  BY SchedulerAssumption, SMTT(20) DEF Typed
<1>1. ASSUME NEW t \in Services, Step(t) \/ SpuriousWakeup(t) PROVE StoppedInv'
  <2>1. /\ Leaves(t) \/ Waits(t) \/ Wakes(t) \/ Pops(t) \/ Works(t)
        /\ UNCHANGED <<now, stopRequested, stopWhenEmpty>>
    BY <1>1, ServiceStep
  <2>2. StopInv'  BY <2>1, ServiceStop
  <2>3. Sorted(taskQueue)'  BY <1>0, <2>1, SortedStep
  <2>4. CountInv' BY <2>1, ServiceCount
  <2>5. DueInv'   BY <2>1, DueStep
  <2> QED
    BY <2>2, <2>3, <2>4, <2>5
<1>2. ASSUME NEW c \in Clients, Step(c) \/ SpuriousWakeup(c) \/ ClientCall(c)
      PROVE  StoppedInv'
  <2>1. ClientActs(c)
    BY <1>2, ClientStep
  <2>2. PICK l \in ClientPCs : Moves(c, l)
    BY <2>1 DEF ClientActs
  <2>3. c \in Threads \ Services /\ l # "unused" /\ pc[c] # "unused"
    BY SchedulerAssumption DEF Threads, ClientPCs, Placed
  <2>4. Reschedules /\ UNCHANGED <<nThreadsServicingQueue, until, task, now>>
    BY <2>1 DEF ClientActs
  <2>5. StopInv'  BY <2>1, ClientStop
  <2>6. Sorted(taskQueue)'  BY <1>0, <2>4, SortedStep
  <2>7. CountInv' BY <2>2, <2>3, <2>4, OtherCount
  <2>8. DueInv'   BY <2>2, <2>3, <2>4, DueOther
  <2> QED
    BY <2>5, <2>6, <2>7, <2>8
<1>3. CASE Step(Main) \/ SpuriousWakeup(Main) \/ MainCall
  <2>1. MainActs
    BY <1>3, MainStepActs
  <2>2. PICK l \in MainPCs : MainGoes(l)
    BY <2>1 DEF MainActs
  <2>3. Main \in Threads \ Services /\ l # "unused" /\ pc[Main] # "unused"
    BY SchedulerAssumption DEF Threads, MainPCs, InRunner, Placed
  <2>4. Moves(Main, l) /\ Reschedules /\ UNCHANGED <<nThreadsServicingQueue, until, task, now>>
    BY <2>1, <2>2 DEF MainActs, MainGoes
  <2>5. StopInv'  BY <2>1, MainStop
  <2>6. Sorted(taskQueue)'  BY <1>0, <2>4, SortedStep
  <2>7. CountInv' BY <2>3, <2>4, OtherCount
  <2>8. DueInv'   BY <2>3, <2>4, DueOther
  <2> QED
    BY <2>5, <2>6, <2>7, <2>8
<1>4. ASSUME UNCHANGED <<scheduler, pc, until, task>>, now' >= now, now' \in Int
      PROVE  StoppedInv'
  <2>1. UNCHANGED <<taskQueue, nThreadsServicingQueue, stopRequested, stopWhenEmpty,
                    pc, until, task>>
    BY <1>4 DEF scheduler
  <2>2. StopInv' /\ Sorted(taskQueue)'
    BY <2>1 DEF StopInv, Sorted
  <2>3. CountInv'
    <3>1. Servicing' = Servicing
      BY <2>1 DEF Servicing
    <3> QED
      BY <2>1, <3>1 DEF CountInv
  <2>4. Alone' => Alone
    BY <2>1 DEF Alone, Used
  <2>5. \A x \in Tasks : x.time <= now => x.time <= now'
    BY <1>0, <1>4, SMTT(20) DEF Tasks
  <2>6. DueInv'
    BY <2>1, <2>4, <2>5 DEF DueInv
  <2> QED
    BY <2>2, <2>3, <2>6
<1>5. CASE Tick
  BY <1>0, <1>4, <1>5 DEF Tick, locals
<1>6. CASE UNCHANGED vars
  BY <1>0, <1>4, <1>6, SMTT(20) DEF vars, locals
<1> QED
  BY <1>1, <1>2, <1>3, <1>5, <1>6 DEF Next, MainCall, Flushed, Threads

\* What is true initially.
LEMMA InitStopped == Init => StoppedInv
<1> SUFFICES ASSUME Init PROVE StoppedInv
  OBVIOUS
<1>1. ControlInv
  BY InitSerial
<1>2. /\ \A s \in Services : pc[s] \in {"start", "unused"}
      /\ \A c \in Clients : pc[c] = "idle"
      /\ pc[Main] = "idle"
      /\ \E s \in Services : pc[s] = "start"
  <2>1. PICK used \in (SUBSET Services) \ {{}} :
          pc = [t \in Threads |-> IF t \in used THEN "start"
                                  ELSE IF t \in Services THEN "unused" ELSE "idle"]
    BY DEF Init
  <2>2. used \subseteq Services /\ \E s \in Services : s \in used
    BY <2>1
  <2> QED
    BY <2>1, <2>2, SchedulerAssumption DEF Threads
<1>3. StopInv
  BY <1>2 DEF Init, StopInv
<1>4. Sorted(taskQueue)
  BY SMTT(20) DEF Init, Sorted
<1>5. CountInv
  <2>1. Servicing = {}
    BY <1>2 DEF Servicing
  <2> QED
    BY <2>1, FS_EmptySet DEF Init, CountInv
<1>6. DueInv
  BY <1>2 DEF DueInv
<1> QED
  BY <1>3, <1>4, <1>5, <1>6 DEF StoppedInv

\* The stop is orderly, the tasks are in order, the threads are counted and a
\* single thread runs only what is due, in every reachable state.
THEOREM SchedulerStops == Spec => []StoppedInv
<1>1. ControlInv /\ StoppedInv /\ [Next]_vars => StoppedInv'
  BY NextStopped
<1> QED
  BY <1>1, InitStopped, SchedulerSerial, PTL DEF Spec

\* When join has returned no thread services the queue, and after
\* StopWhenDrained it is empty; until then the threads are counted exactly.
THEOREM SchedulerStoppedWhenJoined == Spec => []StoppedWhenJoined
<1>1. ControlInv /\ SerialInv /\ StoppedInv => StoppedWhenJoined
  <2> SUFFICES ASSUME ControlInv, SerialInv, StoppedInv PROVE StoppedWhenJoined
    OBVIOUS
  <2>0. Typed /\ NoneLost /\ StopInv /\ Sorted(taskQueue) /\ CountInv
    BY DEF ControlInv, SerialInv, StoppedInv
  <2>1. /\ m_callbacks_pending = [i \in 1 .. Len(m_callbacks_pending) |->
                                    inserted - Len(m_callbacks_pending) + i]
    BY <2>0, SMTT(20) DEF Typed, NoneLost
  <2>2. \A i \in DOMAIN taskQueue :
          /\ taskQueue[i].f \in {"ProcessQueue", "Timed"}
          /\ i > 1 => taskQueue[i - 1].time <= taskQueue[i].time
    <3> TAKE i \in DOMAIN taskQueue
    <3>1. taskQueue[i] \in Tasks /\ i \in 1 .. Len(taskQueue)
      BY <2>0, SMTT(20) DEF Typed
    <3>2. i > 1 => i - 1 \in DOMAIN taskQueue /\ i - 1 < i
      BY <2>0, <3>1 DEF Typed
    <3> QED
      BY <2>0, <3>1, <3>2 DEF Tasks, Sorted
  <2>3. nThreadsServicingQueue \in 0 .. Cardinality(Services)
    <3>1. Cardinality(Services) \in Nat
      BY FS_CardinalityType, SchedulerAssumption
    <3> QED
      BY <2>0, <3>1, ServicingFinite, SMTT(20) DEF CountInv
  <2>4. TypeOK
    BY <2>0, <2>1, <2>2, <2>3 DEF TypeOK, Typed
  <2>5. pc[Main] = "joined" => nThreadsServicingQueue = 0
    <3>1. pc[Main] = "joined" => Servicing = {}
      BY <2>0 DEF StopInv, Servicing, Gone
    <3> QED
      BY <2>0, <3>1, FS_EmptySet DEF CountInv
  <2>6. pc[Main] = "joined" /\ stopWhenEmpty => taskQueue = <<>>
    BY <2>0 DEF StopInv
  <2> QED
    BY <2>0, <2>4, <2>5, <2>6 DEF StoppedWhenJoined, CountInv, Servicing
<1> QED
  BY <1>1, SchedulerSerial, SchedulerStops, PTL

\* A function is called at or after the time it was scheduled for, as long as
\* a single thread services the queue.
THEOREM SchedulerRunsWhenDue == Spec => []RunsWhenDue
<1>1. StoppedInv => RunsWhenDue
  <2> SUFFICES ASSUME StoppedInv, Cardinality(Used) = 1
               PROVE  \A t \in Services : pc[t] = "run" => task[t].time <= now
    BY DEF RunsWhenDue
  <2>1. IsFiniteSet(Used)
    BY FS_Subset, SchedulerAssumption DEF Used
  <2>2. PICK x : Used = {x}
    BY <2>1, FS_Singleton
  <2>3. Alone
    BY <2>2 DEF Alone
  <2> QED
    BY <2>3 DEF StoppedInv, DueInv
<1> QED
  BY <1>1, SchedulerStops, PTL

==============================================================================
