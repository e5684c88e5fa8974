------------------------------ MODULE Scheduler ------------------------------
(***************************************************************************)
(* CScheduler and SerialTaskRunner (scheduler.h, scheduler.cpp), with the  *)
(* threads that service the queue, threads that insert callbacks, and the  *)
(* main thread that at shutdown stops the scheduler and then runs the      *)
(* callbacks that are left (init.cpp, Shutdown).                           *)
(*                                                                         *)
(* Code between two points where newTaskMutex or m_callbacks_mutex is      *)
(* released is one step; a notification after the unlock is one of its own.*)
(* A task is the time it is due and its function: ProcessQueue of the task *)
(* runner, or some other function ("Timed").  A thread in wait_until knows *)
(* the time it waits for, a thread in wait has None.                       *)
(***************************************************************************)
EXTENDS Integers, Sequences, FiniteSets

CONSTANTS Services,     \* threads that may run serviceQueue
          Clients,      \* threads that insert callbacks
          Main, None,
          MaxInserts, MaxTimed, MaxNow, MaxForward  \* bounds: callbacks, other
                                        \* tasks, the clock, MockForward calls

ASSUME SchedulerAssumption ==
    /\ IsFiniteSet(Services) /\ Services \cap Clients = {}
    /\ Main \notin Services \cup Clients
    /\ None \notin Int
    /\ MaxNow \in Nat

Threads == Services \cup Clients \cup {Main}

VARIABLES
    taskQueue, nThreadsServicingQueue, stopRequested, stopWhenEmpty,
    m_callbacks_pending, m_are_callbacks_running,
    now,                \* steady_clock
    pc, until,          \* where a thread is, what it waits for
    task, callback,     \* the locals f of serviceQueue, callback of ProcessQueue
    ret,                \* where schedule() returns to
    inserted, done, timed, forwards     \* callbacks inserted and run, other
                                        \* tasks scheduled, MockForward calls

scheduler == <<taskQueue, nThreadsServicingQueue, stopRequested, stopWhenEmpty>>
runner == <<m_callbacks_pending, m_are_callbacks_running>>
locals == <<until, task, callback, ret>>
counts == <<inserted, done, timed, forwards>>
vars == <<scheduler, runner, now, pc, locals, counts>>

\* A service thread that is "unused" is never started: the node has one.
Init ==
    /\ taskQueue = <<>> /\ nThreadsServicingQueue = 0
    /\ stopRequested = FALSE /\ stopWhenEmpty = FALSE
    /\ m_callbacks_pending = <<>> /\ m_are_callbacks_running = FALSE
    /\ now = 0
    /\ \E used \in (SUBSET Services) \ {{}} :
          pc = [t \in Threads |-> IF t \in used THEN "start"
                                  ELSE IF t \in Services THEN "unused" ELSE "idle"]
    /\ until = [t \in Threads |-> None]
    /\ task = [t \in Threads |-> None]
    /\ callback = [t \in Threads |-> None]
    /\ ret = [t \in Threads |-> "relock"]
    /\ inserted = 0 /\ done = 0 /\ timed = 0 /\ forwards = 0

Goto(t, l) == pc' = [pc EXCEPT ![t] = l]

shouldStop == stopRequested \/ (stopWhenEmpty /\ taskQueue = <<>>)

\* newTaskScheduled.notify_one and notify_all, given the program counters.
Waiters(p) == {t \in Services : p[t] = "wait"}
NotifyOne(p) == IF Waiters(p) = {} THEN {p} ELSE {[p EXCEPT ![w] = "woken"] : w \in Waiters(p)}
NotifyAll(p) == [t \in Threads |-> IF p[t] = "wait" THEN "woken" ELSE p[t]]

-----------------------------------------------------------------------------
(* serviceQueue *)

\* From the test of the outer loop to the next wait, or to the return.
Loop(t, n) ==
    /\ IF shouldStop
         THEN /\ nThreadsServicingQueue' = n - 1
              /\ until' = [until EXCEPT ![t] = None]
              /\ pc' \in NotifyOne([pc EXCEPT ![t] = "left"])
         ELSE /\ nThreadsServicingQueue' = n
              /\ until' = [until EXCEPT ![t] = IF taskQueue = <<>> THEN None
                                               ELSE taskQueue[1].time]
              /\ Goto(t, "wait")
    /\ UNCHANGED <<taskQueue, stopRequested, stopWhenEmpty, runner, now, task,
                   callback, ret, counts>>

StartService(t) == pc[t] = "start" /\ Loop(t, nThreadsServicingQueue + 1)

Relock(t) ==
    /\ pc[t] = "relock" /\ t \in Services
    /\ Loop(t, nThreadsServicingQueue)

\* wait_until says timeout if the time it waited for has come.
TimedOut(t) == until[t] # None /\ until[t] <= now

Wakeup(t) ==
    /\ pc[t] = "wait"
    /\ Goto(t, "woken")
    /\ UNCHANGED <<scheduler, runner, now, locals, counts>>

Timeout(t) == TimedOut(t) /\ Wakeup(t)

\* Condition variables may wake up by themselves.
SpuriousWakeup(t) == Wakeup(t)

\* MayPop_NoTimeout: a notification is taken for the timeout.
MayPop_NoTimeout(t) == until[t] # None /\ ~shouldStop /\ taskQueue # <<>>

MayPop(t) == TimedOut(t) /\ ~shouldStop /\ taskQueue # <<>>

\* The first task is taken, whether or not it is the one t waited for.
Resume(t) ==
    /\ pc[t] = "woken"
    /\ IF ~MayPop(t) THEN Loop(t, nThreadsServicingQueue)
       ELSE /\ task' = [task EXCEPT ![t] = Head(taskQueue)]
            /\ taskQueue' = Tail(taskQueue)
            /\ until' = [until EXCEPT ![t] = None]
            /\ Goto(t, "run")
            /\ UNCHANGED <<nThreadsServicingQueue, stopRequested, stopWhenEmpty,
                           runner, now, callback, ret, counts>>

\* f(), outside newTaskMutex.
Run(t) ==
    /\ pc[t] = "run"
    /\ task' = [task EXCEPT ![t] = None]
    /\ ret' = [ret EXCEPT ![t] = "relock"]
    /\ Goto(t, IF task[t].f = "ProcessQueue" THEN "process" ELSE "relock")
    /\ UNCHANGED <<scheduler, runner, now, until, callback, counts>>

-----------------------------------------------------------------------------
(* schedule: taskQueue is a multimap ordered by time, and a task goes behind
   those that are due no later. *)

Behind(t) ==
    {k \in 0 .. Len(taskQueue) :
        /\ k > 0 => taskQueue[k].time <= t
        /\ k < Len(taskQueue) => taskQueue[k + 1].time > t}

Scheduled(t, f) ==
    \E k \in Behind(t) :
        taskQueue' = SubSeq(taskQueue, 1, k) \o <<[time |-> t, f |-> f]>>
                       \o SubSeq(taskQueue, k + 1, Len(taskQueue))

\* Notify_None: schedule does not notify.
Notify_None(t) ==
    /\ pc[t] = "notify"
    /\ Goto(t, ret[t])
    /\ UNCHANGED <<scheduler, runner, now, locals, counts>>

Notify(t) ==
    /\ pc[t] = "notify"
    /\ pc' \in NotifyOne([pc EXCEPT ![t] = ret[t]])
    /\ UNCHANGED <<scheduler, runner, now, locals, counts>>

ScheduleProcessQueue(t) ==
    /\ pc[t] = "schedule"
    /\ Scheduled(now, "ProcessQueue")
    /\ Goto(t, "notify")
    /\ UNCHANGED <<nThreadsServicingQueue, stopRequested, stopWhenEmpty, runner,
                   now, locals, counts>>

\* scheduleFromNow, from a client, for a function that is not a callback.
ScheduleFromNow(c, delta) ==
    /\ pc[c] = "idle" /\ pc[Main] = "idle"
    /\ timed < MaxTimed /\ now + delta <= MaxNow
    /\ timed' = timed + 1
    /\ Scheduled(now + delta, "Timed")
    /\ ret' = [ret EXCEPT ![c] = "idle"]
    /\ Goto(c, "notify")
    /\ UNCHANGED <<nThreadsServicingQueue, stopRequested, stopWhenEmpty, runner,
                   now, until, task, callback, inserted, done, forwards>>

MockForward(c) ==
    /\ pc[c] = "idle" /\ pc[Main] = "idle"
    /\ forwards < MaxForward
    /\ forwards' = forwards + 1
    /\ taskQueue' = [i \in DOMAIN taskQueue |-> [taskQueue[i] EXCEPT !.time = @ - 1]]
    /\ ret' = [ret EXCEPT ![c] = "idle"]
    /\ Goto(c, "notify")
    /\ UNCHANGED <<nThreadsServicingQueue, stopRequested, stopWhenEmpty, runner,
                   now, until, task, callback, inserted, done, timed>>

-----------------------------------------------------------------------------
(* SerialTaskRunner *)

MaybeScheduleProcessQueue(t) ==
    /\ pc[t] = "maybe"
    /\ Goto(t, IF m_are_callbacks_running \/ m_callbacks_pending = <<>> THEN ret[t]
               ELSE "schedule")
    /\ UNCHANGED <<scheduler, runner, now, locals, counts>>

\* insert returns to r.
Insert(t, r) ==
    /\ inserted < MaxInserts
    /\ inserted' = inserted + 1
    /\ m_callbacks_pending' = Append(m_callbacks_pending, inserted')
    /\ ret' = [ret EXCEPT ![t] = r]
    /\ Goto(t, "maybe")
    /\ UNCHANGED <<scheduler, m_are_callbacks_running, now, until, task, callback,
                   done, timed, forwards>>

\* Process_NotSerial: ProcessQueue does not look for a running callback.
Process_NotSerial(t) ==
    /\ pc[t] = "process"
    /\ IF m_callbacks_pending = <<>>
         THEN /\ Goto(t, ret[t])
              /\ UNCHANGED <<runner, callback>>
         ELSE /\ m_are_callbacks_running' = TRUE
              /\ callback' = [callback EXCEPT ![t] = Head(m_callbacks_pending)]
              /\ m_callbacks_pending' = Tail(m_callbacks_pending)
              /\ Goto(t, "callback")
    /\ UNCHANGED <<scheduler, now, until, task, ret, counts>>

ProcessQueue(t) ==
    /\ pc[t] = "process"
    /\ IF m_are_callbacks_running \/ m_callbacks_pending = <<>>
         THEN /\ Goto(t, ret[t])
              /\ UNCHANGED <<runner, callback>>
         ELSE /\ m_are_callbacks_running' = TRUE
              /\ callback' = [callback EXCEPT ![t] = Head(m_callbacks_pending)]
              /\ m_callbacks_pending' = Tail(m_callbacks_pending)
              /\ Goto(t, "callback")
    /\ UNCHANGED <<scheduler, now, until, task, ret, counts>>

\* callback(), and then ~RAIICallbacksRunning, whose second part is
\* MaybeScheduleProcessQueue.
RunCallback(t) ==
    /\ pc[t] = "callback"
    /\ done' = callback[t]
    /\ callback' = [callback EXCEPT ![t] = None]
    /\ Goto(t, "finish")
    /\ UNCHANGED <<scheduler, runner, now, until, task, ret, inserted, timed, forwards>>

CallbackFinished(t) ==
    /\ pc[t] = "finish"
    /\ m_are_callbacks_running' = FALSE
    /\ Goto(t, "maybe")
    /\ UNCHANGED <<scheduler, m_callbacks_pending, now, locals, counts>>

-----------------------------------------------------------------------------
(* Main: stop() or StopWhenDrained(), the join, a last insertion by the     *)
(* flush of the chainstate, and flush().                                    *)

\* Nobody else inserts once the shutdown has begun (init.cpp:315).
StopBegun(whenDrained) ==
    /\ pc[Main] = "idle" /\ \A c \in Clients : pc[c] = "idle"
    /\ stopRequested' = ~whenDrained
    /\ stopWhenEmpty' = whenDrained
    /\ Goto(Main, "notifyAll")
    /\ UNCHANGED <<taskQueue, nThreadsServicingQueue, runner, now, locals, counts>>

\* StopNotify_None: the waiting threads are not told.
StopNotify_None ==
    /\ pc[Main] = "notifyAll"
    /\ Goto(Main, "join")
    /\ UNCHANGED <<scheduler, runner, now, locals, counts>>

StopNotify ==
    /\ pc[Main] = "notifyAll"
    /\ pc' = NotifyAll([pc EXCEPT ![Main] = "join"])
    /\ UNCHANGED <<scheduler, runner, now, locals, counts>>

\* Join_One: the first thread that has left ends the wait.
Join_One ==
    /\ pc[Main] = "join"
    /\ \E t \in Services : pc[t] = "left"
    /\ Goto(Main, "joined")
    /\ UNCHANGED <<scheduler, runner, now, locals, counts>>

Join ==
    /\ pc[Main] = "join"
    /\ \A t \in Services : pc[t] \in {"left", "unused"}
    /\ Goto(Main, "joined")
    /\ UNCHANGED <<scheduler, runner, now, locals, counts>>

LateInsert == pc[Main] = "joined" /\ Insert(Main, "flush")

BeginFlush ==
    /\ pc[Main] \in {"joined", "flush"}
    /\ ret' = [ret EXCEPT ![Main] = "flushTest"]
    /\ Goto(Main, "process")
    /\ UNCHANGED <<scheduler, runner, now, until, task, callback, counts>>

FlushTest ==
    /\ pc[Main] = "flushTest"
    /\ Goto(Main, IF m_callbacks_pending # <<>> THEN "process" ELSE "flushed")
    /\ UNCHANGED <<scheduler, runner, now, locals, counts>>

Flushed == pc[Main] = "flushed" /\ UNCHANGED vars

-----------------------------------------------------------------------------
Tick ==
    /\ now < MaxNow
    /\ now' = now + 1
    /\ UNCHANGED <<scheduler, runner, pc, locals, counts>>

\* What a thread does by itself once it has been started or called.
Step(t) ==
    \/ StartService(t) \/ Relock(t) \/ Timeout(t) \/ Resume(t) \/ Run(t)
    \/ MaybeScheduleProcessQueue(t) \/ ScheduleProcessQueue(t) \/ Notify(t)
    \/ ProcessQueue(t) \/ RunCallback(t) \/ CallbackFinished(t)

MainStep == StopNotify \/ Join \/ BeginFlush \/ FlushTest

ClientCall(c) ==
    \/ pc[c] = "idle" /\ pc[Main] = "idle" /\ Insert(c, "idle")
    \/ \E delta \in 1 .. MaxNow : ScheduleFromNow(c, delta)
    \/ MockForward(c)

Next ==
    \/ \E t \in Threads : Step(t) \/ SpuriousWakeup(t)
    \/ \E c \in Clients : ClientCall(c)
    \/ \E whenDrained \in BOOLEAN : StopBegun(whenDrained)
    \/ MainStep \/ LateInsert \/ Flushed
    \/ Tick

\* Threads that can run do and time passes.  No thread is made to wake up
\* without a notification or a timeout.
Fairness == WF_vars(Tick) /\ WF_vars(MainStep) /\ \A t \in Threads : WF_vars(Step(t))

Spec == Init /\ [][Next]_vars /\ Fairness

-----------------------------------------------------------------------------
Used == {t \in Services : pc[t] # "unused"}

\* taskQueue is ordered by time, and m_callbacks_pending holds exactly the
\* callbacks inserted last, in the order of their insertion.
TypeOK ==
    /\ \A i \in DOMAIN taskQueue :
          /\ taskQueue[i].f \in {"ProcessQueue", "Timed"}
          /\ i > 1 => taskQueue[i - 1].time <= taskQueue[i].time
    /\ nThreadsServicingQueue \in 0 .. Cardinality(Services)
    /\ stopRequested \in BOOLEAN /\ stopWhenEmpty \in BOOLEAN
    /\ m_are_callbacks_running \in BOOLEAN
    /\ m_callbacks_pending = [i \in 1 .. Len(m_callbacks_pending) |->
                                 inserted - Len(m_callbacks_pending) + i]
    /\ now \in 0 .. MaxNow

\* The queues are in order (TypeOK) and the servicing threads are counted
\* exactly: when join has returned none is left, so the assertions of flush and
\* ~CScheduler hold, also that the queue is empty after StopWhenDrained
\* (scheduler.cpp:18-19).
StoppedWhenJoined ==
    /\ TypeOK
    /\ nThreadsServicingQueue =
         Cardinality({t \in Services : pc[t] \notin {"start", "left", "unused"}})
    /\ pc[Main] = "joined" =>
          /\ nThreadsServicingQueue = 0
          /\ stopWhenEmpty => taskQueue = <<>>

\* "Call func at/after time t" (scheduler.h:49) when, as in the node, a single
\* thread services the queue.
RunsWhenDue ==
    Cardinality(Used) = 1 => \A t \in Services : pc[t] = "run" => task[t].time <= now

Callbacks == INSTANCE SerialQueue WITH
    queue <- m_callbacks_pending,
    current <- IF \E t \in Threads : pc[t] = "callback"
                 THEN callback[CHOOSE t \in Threads : pc[t] = "callback"] ELSE None

\* The threads of the scheduler and the flush at shutdown together run the
\* callbacks as a single thread would: one at a time, none lost or repeated.
ImplementsSerialQueue == Callbacks!SSpec

\* Every inserted callback is run: no notification is lost between the tests of
\* m_are_callbacks_running, the schedule after them and a thread going to wait,
\* and what a stop leaves behind the flush runs.
EveryCallbackRuns == \A i \in 1 .. MaxInserts : inserted >= i ~> done >= i

\* stop and StopWhenDrained return: every servicing thread leaves, and the
\* flush ends.
ShutdownEnds == pc[Main] # "idle" ~> pc[Main] = "flushed"

=============================================================================
