----------------------------- MODULE CheckQueue -----------------------------
(***************************************************************************)
(* CCheckQueue and CCheckQueueControl (checkqueue.h): the pool of script   *)
(* verification threads.  In each round, a CCheckQueueControl's lifetime,  *)
(* the master adds batches of checks and then joins the workers in Loop    *)
(* until nothing is left to do.                                            *)
(*                                                                         *)
(* m_mutex is held from the top of Loop's body until the thread waits,     *)
(* returns or has taken a batch, so that part is one step.  Waiting on a   *)
(* condition variable, the wake-up and the work are steps of their own,    *)
(* and so is the notification in Add, which comes after the unlock.        *)
(* A check is the number of its round and whether it fails; an error is    *)
(* the number of the round whose check returned it.                        *)
(***************************************************************************)
EXTENDS Naturals, Sequences, FiniteSets, FiniteSetsExt

CONSTANTS Workers,      \* m_worker_threads
          Master,       \* the thread that owns the CCheckQueueControl
          None,         \* std::nullopt
          nBatchSize,
          MaxRounds, MaxAdds, MaxChecks     \* bounds: rounds, Adds of a round,
                                            \* checks of an Add

ASSUME CheckQueueAssumption ==
    /\ IsFiniteSet(Workers) /\ Workers # {}
    /\ Master \notin Workers
    /\ nBatchSize \in Nat \ {0}
    /\ None \notin Nat
    /\ MaxRounds \in Nat /\ MaxAdds \in Nat /\ MaxChecks \in Nat

Threads == Workers \cup {Master}

VARIABLES
    queue, nIdle, nTotal, m_result, nTodo, m_request_stop,  \* under m_mutex
    pc,                         \* where a thread is
    nNow, vChecks, local_result, do_work,   \* the locals of Loop
    phase,                      \* what the master is doing
    notify,                     \* the notification of m_worker_cv it still owes
    round, adds,                \* the current round, Adds so far
    failing,                    \* some check of the round fails
    returned                    \* what the last Complete returned

shared == <<queue, nIdle, nTotal, m_result, nTodo, m_request_stop>>
locals == <<nNow, vChecks, local_result, do_work>>
master == <<phase, notify, round, adds, failing, returned>>
vars == <<shared, pc, locals, master>>

Check == [round : 1 .. MaxRounds, fails : BOOLEAN]
Result == 1 .. MaxRounds \cup {None}

\* enter: about to lock m_mutex at the top of Loop's body.  wait, woken: in
\* cond.wait, and notified but not yet holding m_mutex.  work: outside m_mutex
\* with a batch.  out: a master outside Loop, or a thread that has returned.
PCs == {"enter", "wait", "woken", "work", "out"}

Init ==
    /\ queue = <<>>
    /\ nIdle = 0 /\ nTotal = 0 /\ nTodo = 0
    /\ m_result = None
    /\ m_request_stop = FALSE
    /\ pc = [t \in Threads |-> IF t = Master THEN "out" ELSE "enter"]
    /\ nNow = [t \in Threads |-> 0]
    /\ vChecks = [t \in Threads |-> <<>>]
    /\ local_result = [t \in Threads |-> None]
    /\ do_work = [t \in Threads |-> FALSE]
    /\ phase = "idle"
    /\ notify = "none"
    /\ round = 0 /\ adds = 0
    /\ failing = FALSE
    /\ returned = None

-----------------------------------------------------------------------------
\* The critical section of Loop from the test of its while loop on.  s holds the
\* values that the code before it, in the same critical section, has computed.
Section(p, total, idle, todo, result, local) ==
    [pc |-> p, total |-> total, idle |-> idle, todo |-> todo,
     result |-> result, local |-> local]

NothingQueued == queue = <<>> /\ ~m_request_stop

\* Return_KeepsResult: m_result is not reset for the next round.
Return_KeepsResult(t, s) ==
    /\ NothingQueued /\ t = Master /\ s.todo = 0
    /\ pc' = [s.pc EXCEPT ![t] = "out"]
    /\ nTotal' = s.total - 1
    /\ nIdle' = s.idle
    /\ m_result' = s.result
    /\ returned' = s.result
    /\ phase' = "idle"
    /\ nNow' = [nNow EXCEPT ![t] = 0]
    /\ local_result' = [local_result EXCEPT ![t] = None]
    /\ UNCHANGED <<queue, vChecks, do_work, notify, round, adds, failing>>

\* The master is done: it returns the result and resets it.
Return(t, s) ==
    /\ NothingQueued /\ t = Master /\ s.todo = 0
    /\ pc' = [s.pc EXCEPT ![t] = "out"]
    /\ nTotal' = s.total - 1
    /\ nIdle' = s.idle
    /\ m_result' = None
    /\ returned' = s.result
    /\ phase' = "idle"
    /\ nNow' = [nNow EXCEPT ![t] = 0]
    /\ local_result' = [local_result EXCEPT ![t] = None]
    /\ UNCHANGED <<queue, vChecks, do_work, notify, round, adds, failing>>

Wait(t, s) ==
    /\ NothingQueued /\ ~(t = Master /\ s.todo = 0)
    /\ pc' = [s.pc EXCEPT ![t] = "wait"]
    /\ nTotal' = s.total
    /\ nIdle' = s.idle + 1
    /\ m_result' = s.result
    /\ local_result' = [local_result EXCEPT ![t] = s.local]
    /\ UNCHANGED <<queue, nNow, vChecks, do_work, master>>

LeaveOnStop(t, s) ==
    /\ m_request_stop
    /\ pc' = [s.pc EXCEPT ![t] = "out"]
    /\ nTotal' = s.total
    /\ nIdle' = s.idle
    /\ m_result' = s.result
    /\ local_result' = [local_result EXCEPT ![t] = s.local]
    /\ UNCHANGED <<queue, nNow, vChecks, do_work, master>>

BatchSize(s) == Max({1, Min({nBatchSize, Len(queue) \div (s.total + s.idle + 1)})})

\* A batch is taken from the end of the queue.  Once there is an error the
\* remaining checks are taken but not run.
TakeBatch(t, s) ==
    LET n == BatchSize(s)
    IN  /\ queue # <<>> /\ ~m_request_stop
        /\ pc' = [s.pc EXCEPT ![t] = "work"]
        /\ nNow' = [nNow EXCEPT ![t] = n]
        /\ vChecks' = [vChecks EXCEPT
                         ![t] = SubSeq(queue, Len(queue) - n + 1, Len(queue))]
        /\ queue' = SubSeq(queue, 1, Len(queue) - n)
        /\ do_work' = [do_work EXCEPT ![t] = (s.result = None)]
        /\ nTotal' = s.total
        /\ nIdle' = s.idle
        /\ m_result' = s.result
        /\ local_result' = [local_result EXCEPT ![t] = s.local]
        /\ UNCHANGED master

Continue(t, s) ==
    /\ Return(t, s) \/ Wait(t, s) \/ LeaveOnStop(t, s) \/ TakeBatch(t, s)
    /\ nTodo' = s.todo
    /\ UNCHANGED m_request_stop

\* m_master_cv.notify_one: only the master ever waits there.
MasterNotified == IF pc[Master] = "wait" THEN [pc EXCEPT ![Master] = "woken"] ELSE pc

\* HandIn_OneDone counts a batch as one check, HandIn_Silent does not notify
\* the master.
HandIn_OneDone(t) ==
    LET swap == local_result[t] # None /\ m_result = None
        todo == nTodo - 1
    IN  Section(IF todo = 0 /\ t # Master THEN MasterNotified ELSE pc,
                nTotal, nIdle, todo,
                IF swap THEN local_result[t] ELSE m_result,
                IF swap THEN m_result ELSE local_result[t])

HandIn_Silent(t) ==
    LET swap == local_result[t] # None /\ m_result = None
    IN  Section(pc, nTotal, nIdle, nTodo - nNow[t],
                IF swap THEN local_result[t] ELSE m_result,
                IF swap THEN m_result ELSE local_result[t])

\* The result of the previous batch is handed in, the first error wins.
HandIn(t) ==
    LET swap == local_result[t] # None /\ m_result = None
        todo == nTodo - nNow[t]
    IN  Section(IF todo = 0 /\ t # Master THEN MasterNotified ELSE pc,
                nTotal, nIdle, todo,
                IF swap THEN local_result[t] ELSE m_result,
                IF swap THEN m_result ELSE local_result[t])

FirstIteration(t) == Section(pc, nTotal + 1, nIdle, nTodo, m_result, local_result[t])

Enter(t) ==
    /\ pc[t] = "enter"
    /\ Continue(t, IF nNow[t] > 0 THEN HandIn(t) ELSE FirstIteration(t))

\* cond.wait returns with m_mutex held.
Resume(t) ==
    /\ pc[t] = "woken"
    /\ Continue(t, Section(pc, nTotal, nIdle - 1, nTodo, m_result, local_result[t]))

\* Condition variables may wake up by themselves.
SpuriousWakeup(t) ==
    /\ pc[t] = "wait"
    /\ pc' = [pc EXCEPT ![t] = "woken"]
    /\ UNCHANGED <<shared, locals, master>>

\* The checks of the batch run up to the first that fails.
FirstFailure(checks) ==
    LET bad == {i \in DOMAIN checks : checks[i].fails}
    IN  IF bad = {} THEN None ELSE checks[Min(bad)].round

Work(t) ==
    /\ pc[t] = "work"
    /\ pc' = [pc EXCEPT ![t] = "enter"]
    /\ local_result' = IF do_work[t]
                         THEN [local_result EXCEPT ![t] = FirstFailure(vChecks[t])]
                         ELSE local_result
    /\ vChecks' = [vChecks EXCEPT ![t] = <<>>]
    /\ UNCHANGED <<shared, nNow, do_work, master>>

-----------------------------------------------------------------------------
\* The master.  A CCheckQueueControl is made; m_control_mutex keeps it alone.
StartRound ==
    /\ phase = "idle"
    /\ round < MaxRounds
    /\ phase' = "adding"
    /\ round' = round + 1
    /\ adds' = 0
    /\ failing' = FALSE
    /\ returned' = None
    /\ UNCHANGED <<shared, pc, locals, notify>>

\* Add: the checks are queued under m_mutex ...
Add(checks) ==
    /\ phase = "adding" /\ notify = "none"
    /\ adds < MaxAdds
    /\ checks # <<>>
    /\ adds' = adds + 1
    /\ queue' = queue \o checks
    /\ nTodo' = nTodo + Len(checks)
    /\ notify' = IF Len(checks) = 1 THEN "one" ELSE "all"
    /\ failing' = (failing \/ \E i \in DOMAIN checks : checks[i].fails)
    /\ UNCHANGED <<nIdle, nTotal, m_result, m_request_stop, pc, locals, phase,
                   round, returned>>

\* ... and workers are notified after it was unlocked.
Waiting == {w \in Workers : pc[w] = "wait"}

NotifyWorkers(W) ==
    /\ CASE notify = "one" -> W \subseteq Waiting /\ Cardinality(W) = Min({1, Cardinality(Waiting)})
         [] notify = "all" -> W = Waiting
         [] OTHER -> FALSE
    /\ pc' = [t \in Threads |-> IF t \in W THEN "woken" ELSE pc[t]]
    /\ notify' = "none"
    /\ UNCHANGED <<shared, locals, phase, round, adds, failing, returned>>

\* Complete, called or from the destructor of CCheckQueueControl.
Complete ==
    /\ phase = "adding" /\ notify = "none"
    /\ phase' = "completing"
    /\ pc' = [pc EXCEPT ![Master] = "enter"]
    /\ UNCHANGED <<shared, locals, notify, round, adds, failing, returned>>

\* RequestStop_One: only one worker is notified.
RequestStop_One ==
    /\ phase = "idle"
    /\ phase' = "stopping"
    /\ m_request_stop' = TRUE
    /\ notify' = "one"
    /\ UNCHANGED <<queue, nIdle, nTotal, m_result, nTodo, pc, locals, round,
                   adds, failing, returned>>

\* ~CCheckQueue: stop, notify, join.
RequestStop ==
    /\ phase = "idle"
    /\ phase' = "stopping"
    /\ m_request_stop' = TRUE
    /\ notify' = "all"
    /\ UNCHANGED <<queue, nIdle, nTotal, m_result, nTodo, pc, locals, round,
                   adds, failing, returned>>

Join ==
    /\ phase = "stopping" /\ notify = "none"
    /\ \A w \in Workers : pc[w] = "out"
    /\ phase' = "gone"
    /\ UNCHANGED <<shared, pc, locals, notify, round, adds, failing, returned>>

Gone == phase = "gone" /\ UNCHANGED vars

-----------------------------------------------------------------------------
ThreadStep(t) == Enter(t) \/ Resume(t) \/ Work(t)

\* The batches a caller may add: the values of vChecks up to MaxChecks long.
Batches == UNION {[1 .. n -> {[round |-> round, fails |-> f] : f \in BOOLEAN}] :
                      n \in 1 .. MaxChecks}

MasterStep ==
    \/ \E W \in SUBSET Workers : NotifyWorkers(W)
    \/ Complete
    \/ Join

Next ==
    \/ \E t \in Threads : ThreadStep(t) \/ SpuriousWakeup(t)
    \/ MasterStep
    \/ StartRound
    \/ \E checks \in Batches : Add(checks)
    \/ RequestStop
    \/ Gone

\* Threads that can run do, and a master that has begun a round or the
\* destructor finishes it.  Nothing forces a wake-up that was not notified.
Fairness == (\A t \in Threads : WF_vars(ThreadStep(t))) /\ WF_vars(MasterStep)

Spec == Init /\ [][Next]_vars /\ Fairness

-----------------------------------------------------------------------------
\* The counters stay between zero and the threads and checks there are, and a
\* batch is never larger than nBatchSize (checkqueue.h:116-121).
TypeOK ==
    /\ \A i \in DOMAIN queue : queue[i] \in Check
    /\ nIdle \in 0 .. Cardinality(Threads) /\ nTotal \in 0 .. Cardinality(Threads)
    /\ nTodo \in 0 .. MaxAdds * MaxChecks
    /\ m_result \in Result /\ returned \in Result
    /\ m_request_stop \in BOOLEAN /\ failing \in BOOLEAN
    /\ pc \in [Threads -> PCs]
    /\ nNow \in [Threads -> 0 .. nBatchSize]
    /\ \A t \in Threads : \A i \in DOMAIN vChecks[t] : vChecks[t][i] \in Check
    /\ local_result \in [Threads -> Result]
    /\ do_work \in [Threads -> BOOLEAN]
    /\ phase \in {"idle", "adding", "completing", "stopping", "gone"}
    /\ notify \in {"none", "one", "all"}
    /\ round \in 0 .. MaxRounds /\ adds \in 0 .. MaxAdds

\* Complete returns an error exactly if some check of its own round fails: no
\* error is lost when several threads report at once, and none that a thread
\* could not hand in survives into a later round.
ResultOfThisRound ==
    phase = "idle" /\ round > 0 => returned = IF failing THEN round ELSE None

Outstanding(t) == IF pc[t] = "work" \/ (pc[t] = "enter" /\ nNow[t] > 0) THEN nNow[t] ELSE 0

InLoop(t) == pc[t] \in {"wait", "woken", "work"} \/ (pc[t] = "enter" /\ nNow[t] > 0)

\* The checks in the threads' batches, numbered within each batch.
Batched == {x \in Threads \X (1 .. nBatchSize) : x[2] <= Outstanding(x[1])}

\* The counters have their ranges (TypeOK) and are exact:
\* nTodo counts the checks in the queue and in the threads' batches, including
\* those that are skipped after an error (checkqueue.h:58-62), nIdle the threads
\* in cond.wait and nTotal the threads in Loop.
CountersExact ==
    /\ TypeOK
    /\ nTodo = Len(queue) + Cardinality(Batched)
    /\ ~m_request_stop =>
          /\ nIdle = Cardinality({t \in Threads : pc[t] \in {"wait", "woken"}})
          /\ nTotal = Cardinality({t \in Threads : InLoop(t)})

\* A round that has begun is completed: no wake-up is lost between a test of
\* the queue in Loop, the notification Add gives after its unlock, and a wait.
RoundEnds == phase \in {"completing", "adding"} ~> phase = "idle"

\* The destructor returns: every worker sees m_request_stop, also one that is
\* between its test and its wait when the flag is set (checkqueue.h:193-197).
StopEnds == phase = "stopping" ~> phase = "gone"

=============================================================================
