------------------------------ MODULE LogBridge ------------------------------
(***************************************************************************)
(* The logging path of bitcoind from LogPrintStr to its two sinks, and the *)
(* life of the managed sink from AppInit to process exit.                  *)
(*                                                                         *)
(*   LogPrintStr (m_cs held) -> btcsharp_log -> NativeLogBridge.Log        *)
(*                                 |               -> queue -> consumer    *)
(*                                 +-> stderr while the bridge is not up   *)
(*                           -> early buffer or debug.log                  *)
(*                                                                         *)
(* The main thread runs AppInit (bitcoind.cpp) and Shutdown (init.cpp).    *)
(* Others are the detached command threads of -blocknotify, -startupnotify *)
(* and -alertnotify ("thread runs free"): they log and nobody joins them.  *)
(* The runtime is the abstract one of Runtime, with the main thread as its *)
(* only client.  BlockingCollection is external: TryAdd throws once adding *)
(* is completed, and an exception that leaves an UnmanagedCallersOnly      *)
(* method ends the process.  Messages are numbered in the order in which   *)
(* they get m_cs; number 0 is StartLogging's overflow notice.              *)
(***************************************************************************)
EXTENDS Integers, Sequences, Functions

CONSTANTS Main,         \* the init thread
          Others,       \* detached threads that log
          Null,
          MaxMsgs,      \* bound: messages logged
          Sizes,        \* memory a buffered message may take
          MaxBuffer,    \* m_max_buffer_memusage
          MayFork,      \* -daemon or -daemonwait
          MayStop       \* whether the node ever shuts down

ASSUME LogBridgeAssumption ==
    /\ Main \notin Others /\ Null \notin {Main} \cup Others
    /\ Null \notin [id : Nat, size : Nat]
    /\ MaxMsgs \in Nat /\ MaxBuffer \in Nat /\ Sizes \subseteq Nat \ {0}
    /\ MayFork \in BOOLEAN /\ MayStop \in BOOLEAN

VARIABLES phase,        \* where the main thread is in AppInit / Shutdown
          held, live,   \* the runtime
          early,        \* fxr_init_next_to_exe succeeded
          slog, sshut,  \* s_log / s_shutdown are set
          mcs,          \* who holds Logger::m_cs
          lpc,          \* where each thread is in LogPrintStr_
          cur,          \* the message the holder of m_cs is logging
          count,        \* messages logged so far
          buffering, buffer, discarded, file,   \* Logger
          completed, queue, consumer, out,      \* NativeLogBridge
          errout,       \* messages written to stderr
          dropped,      \* messages refused by a completed queue
          crashed       \* an exception crossed the native boundary

rt == <<held, live>>
bridge == <<slog, sshut>>
logger == <<buffering, buffer, discarded, file>>
managed == <<completed, queue, consumer, out>>
sinks == <<errout, dropped>>
vars == <<phase, held, live, early, slog, sshut, mcs, lpc, cur, count,
          buffering, buffer, discarded, file, completed, queue, consumer, out,
          errout, dropped, crashed>>

Threads == {Main} \cup Others
Msg == [id : 0..MaxMsgs, size : Sizes]

R == INSTANCE Runtime WITH Clients <- {Main}, MaxRefs <- 2

Init ==
    /\ phase = "boot"
    /\ R!RtInit
    /\ early = FALSE
    /\ slog = FALSE /\ sshut = FALSE
    /\ mcs = Null
    /\ lpc = [t \in Threads |-> "out"]
    /\ cur = Null
    /\ count = 0
    /\ buffering = TRUE /\ buffer = <<>> /\ discarded = 0 /\ file = <<>>
    /\ completed = FALSE /\ queue = <<>> /\ consumer = "none" /\ out = <<>>
    /\ errout = <<>> /\ dropped = <<>>
    /\ crashed = FALSE

Alive == phase # "exited" /\ ~crashed

-----------------------------------------------------------------------------
(* Logger::LogPrintStr and LogPrintStr_, for any thread *)

\* Where AppInit and Shutdown log.
MainLogsAt == {"boot", "prefork", "start_logging", "run", "shutdown"}

\* Takes m_cs.  The detached threads exist once StartLogging has run.
LogBegin(t) ==
    /\ Alive
    /\ lpc[t] = "out"
    /\ mcs = Null
    /\ IF t = Main THEN phase \in MainLogsAt ELSE ~buffering
    /\ count < MaxMsgs
    /\ count' = count + 1
    /\ mcs' = t
    /\ \E s \in Sizes : cur' = [id |-> count + 1, size |-> s]
    /\ lpc' = [lpc EXCEPT ![t] = "bridge"]
    /\ UNCHANGED <<phase, rt, early, bridge, logger, managed, sinks, crashed>>

\* StartConsumer_Never: the consumer thread is made but not started.
StartConsumer_Never == UNCHANGED consumer

\* The static constructor of NativeLogBridge runs on the first managed call.
StartConsumer == consumer' = IF consumer = "none" THEN "running" ELSE consumer

\* btcsharp_log up to Enqueue's test of IsAddingCompleted.
BridgeLog(t) ==
    /\ Alive
    /\ lpc[t] = "bridge"
    /\ \/ /\ ~slog
          /\ errout' = Append(errout, cur.id)
          /\ lpc' = [lpc EXCEPT ![t] = "native"]
          /\ UNCHANGED <<dropped, consumer>>
       \/ /\ slog
          /\ StartConsumer
          /\ \/ /\ completed
                /\ dropped' = Append(dropped, cur.id)
                /\ lpc' = [lpc EXCEPT ![t] = "native"]
             \/ /\ ~completed
                /\ lpc' = [lpc EXCEPT ![t] = "adding"]
                /\ UNCHANGED dropped
          /\ UNCHANGED errout
    /\ UNCHANGED <<phase, rt, early, bridge, mcs, cur, count, logger,
                   completed, queue, out, crashed>>

\* _q.TryAdd: throws if CompleteAdding came in between.
TryAdd(t) ==
    /\ Alive
    /\ lpc[t] = "adding"
    /\ \/ /\ completed
          /\ crashed' = TRUE
          /\ UNCHANGED <<queue, lpc>>
       \/ /\ ~completed
          /\ queue' = Append(queue, cur.id)
          /\ lpc' = [lpc EXCEPT ![t] = "native"]
          /\ UNCHANGED crashed
    /\ UNCHANGED <<phase, rt, early, bridge, mcs, cur, count, logger,
                   completed, consumer, out, sinks>>

MemUsage(buf) == FoldFunction(LAMBDA m, acc : m.size + acc, 0, buf)

\* The messages leave the front of the buffer one by one until the rest fits.
Without(buf, k) == SubSeq(buf, k + 1, Len(buf))
Overflow(buf) ==
    {k \in 0..Len(buf) :
        /\ MemUsage(Without(buf, k)) <= MaxBuffer
        /\ \A j \in 0..k-1 : MemUsage(Without(buf, j)) > MaxBuffer}

\* The rest of LogPrintStr_: the early buffer with its limit, or debug.log.
\* StartLogging keeps m_cs after its notice.
LogNative(t) ==
    /\ Alive
    /\ lpc[t] = "native"
    /\ lpc' = [lpc EXCEPT ![t] = "out"]
    /\ mcs' = IF phase = "flush" THEN mcs ELSE Null
    /\ cur' = Null
    /\ \/ /\ buffering
          /\ \E k \in Overflow(Append(buffer, cur)) :
                /\ buffer' = Without(Append(buffer, cur), k)
                /\ discarded' = discarded + k
          /\ UNCHANGED file
       \/ /\ ~buffering
          /\ file' = Append(file, cur.id)
          /\ UNCHANGED <<buffer, discarded>>
    /\ UNCHANGED <<phase, rt, early, bridge, count, buffering, managed, sinks,
                   crashed>>

-----------------------------------------------------------------------------
(* NativeLogBridge's consumer thread *)

\* Consume_Lifo: the collection is a stack, not a queue.
Consume_Lifo ==
    /\ Alive
    /\ consumer = "running"
    /\ queue # <<>>
    /\ out' = Append(out, queue[Len(queue)])
    /\ queue' = SubSeq(queue, 1, Len(queue) - 1)
    /\ UNCHANGED <<phase, rt, early, bridge, mcs, lpc, cur, count, logger,
                   completed, consumer, sinks, crashed>>

Consume ==
    /\ Alive
    /\ consumer = "running"
    /\ queue # <<>>
    /\ out' = Append(out, Head(queue))
    /\ queue' = Tail(queue)
    /\ UNCHANGED <<phase, rt, early, bridge, mcs, lpc, cur, count, logger,
                   completed, consumer, sinks, crashed>>

-----------------------------------------------------------------------------
(* The main thread: AppInit *)

MainAt(from, to) ==
    /\ Alive
    /\ phase = from
    /\ lpc[Main] = "out"
    /\ phase' = to

\* FxrInitEarly_NoReference: AppInit's own reference is not taken.
FxrInitEarly_NoReference ==
    /\ MainAt("boot", "bridge")
    /\ early' \in BOOLEAN
    /\ UNCHANGED rt
    /\ UNCHANGED <<bridge, mcs, lpc, cur, count, logger, managed, sinks,
                   crashed>>

\* fxr_init_next_to_exe, its result ignored.
FxrInitEarly ==
    /\ MainAt("boot", "bridge")
    /\ \/ R!Acquire(Main) /\ early' = TRUE
       \/ UNCHANGED <<rt, early>>
    /\ UNCHANGED <<bridge, mcs, lpc, cur, count, logger, managed, sinks,
                   crashed>>

\* btcsharp_logging_init: its own reference (which cannot fail once the
\* runtime is up), then the two method pointers.
LoggingInit ==
    /\ \/ MainAt("bridge", "load_log") /\ R!Acquire(Main)
       \/ MainAt("bridge", "prefork") /\ ~live /\ UNCHANGED rt
    /\ UNCHANGED <<early, bridge, mcs, lpc, cur, count, logger, managed,
                   sinks, crashed>>

LoadLog ==
    /\ \/ MainAt("load_log", "load_shutdown") /\ slog' = TRUE
       \/ MainAt("load_log", "prefork") /\ UNCHANGED slog
    /\ UNCHANGED <<rt, early, sshut, mcs, lpc, cur, count, logger, managed,
                   sinks, crashed>>

LoadShutdown ==
    /\ MainAt("load_shutdown", "prefork")
    /\ sshut' \in BOOLEAN
    /\ UNCHANGED <<rt, early, slog, mcs, lpc, cur, count, logger, managed,
                   sinks, crashed>>

\* The daemonization point.  Only the forking thread exists in the child,
\* which goes on with a copy of everything else.
Daemonize ==
    /\ MainAt("prefork", "start_logging")
    /\ \/ MayFork /\ consumer' = IF consumer = "running" THEN "dead"
                                                         ELSE consumer
       \/ UNCHANGED consumer
    /\ UNCHANGED <<rt, early, bridge, mcs, lpc, cur, count, logger, completed,
                   queue, out, sinks, crashed>>

\* Logger::StartLogging under m_cs: the overflow notice, if any, goes through
\* LogPrintStr_ before the buffered messages are written.
StartLogging ==
    /\ MainAt("start_logging", "flush")
    /\ mcs = Null
    /\ mcs' = Main
    /\ buffering' = FALSE
    /\ \/ /\ discarded > 0
          /\ \E s \in Sizes : cur' = [id |-> 0, size |-> s]
          /\ lpc' = [lpc EXCEPT ![Main] = "bridge"]
       \/ /\ discarded = 0
          /\ UNCHANGED <<cur, lpc>>
    /\ UNCHANGED <<rt, early, bridge, count, buffer, discarded, file, managed,
                   sinks, crashed>>

Ids(buf) == [i \in 1..Len(buf) |-> buf[i].id]

\* FlushEarlyBuffer_DropsLast: all buffered lines but the last are written.
FlushEarlyBuffer_DropsLast ==
    /\ MainAt("flush", "run")
    /\ mcs = Main
    /\ file' = file \o Ids(SubSeq(buffer, 1, Len(buffer) - 1))
    /\ buffer' = <<>>
    /\ mcs' = Null
    /\ UNCHANGED <<rt, early, bridge, lpc, cur, count, buffering, discarded,
                   managed, sinks, crashed>>

FlushEarlyBuffer ==
    /\ MainAt("flush", "run")
    /\ mcs = Main
    /\ file' = file \o Ids(buffer)
    /\ buffer' = <<>>
    /\ mcs' = Null
    /\ UNCHANGED <<rt, early, bridge, lpc, cur, count, buffering, discarded,
                   managed, sinks, crashed>>

\* A failed initialization step, or debug.log that cannot be opened: AppInit
\* returns false and main goes straight to Shutdown.
InitFails ==
    /\ MayStop
    /\ \/ MainAt("prefork", "shutdown")
       \/ MainAt("start_logging", "shutdown")
    /\ UNCHANGED <<rt, early, bridge, mcs, lpc, cur, count, logger, managed,
                   sinks, crashed>>

-----------------------------------------------------------------------------
(* The main thread: Shutdown and exit *)

BeginShutdown ==
    /\ MayStop
    /\ MainAt("run", "shutdown")
    /\ UNCHANGED <<rt, early, bridge, mcs, lpc, cur, count, logger, managed,
                   sinks, crashed>>

\* btcsharp_logging_shutdown, first half: NativeLogBridge.Shutdown, if it was
\* found.
ManagedShutdown ==
    /\ MainAt("shutdown", "release")
    /\ \/ sshut /\ completed' = TRUE /\ StartConsumer
       \/ ~sshut /\ UNCHANGED <<completed, consumer>>
    /\ UNCHANGED <<rt, early, bridge, mcs, lpc, cur, count, logger, queue, out,
                   sinks, crashed>>

\* Second half: fxr_shutdown, which ignores a count that is not positive.
FxrShutdown ==
    /\ MainAt("release", "done")
    /\ \/ R!Release(Main)
       \/ held[Main] = 0 /\ UNCHANGED rt
    /\ UNCHANGED <<early, bridge, mcs, lpc, cur, count, logger, managed, sinks,
                   crashed>>

\* main returns: the process and its background threads end.
Exit ==
    /\ MainAt("done", "exited")
    /\ UNCHANGED <<rt, early, bridge, mcs, lpc, cur, count, logger, managed,
                   sinks, crashed>>

\* Nothing left to do: the process is gone, or main waits for a shutdown
\* signal that does not come.
Idle ==
    /\ ~Alive \/ (phase = "run" /\ ~MayStop)
    /\ UNCHANGED vars

-----------------------------------------------------------------------------
Logging(t) == BridgeLog(t) \/ TryAdd(t) \/ LogNative(t)

MainStep ==
    \/ FxrInitEarly \/ LoggingInit \/ LoadLog \/ LoadShutdown \/ Daemonize
    \/ StartLogging \/ FlushEarlyBuffer \/ InitFails \/ BeginShutdown
    \/ ManagedShutdown \/ FxrShutdown \/ Exit

Next ==
    \/ \E t \in Threads : LogBegin(t) \/ Logging(t)
    \/ Consume
    \/ MainStep
    \/ Idle

\* A thread inside LogPrintStr_ and the consumer thread keep running.
Fairness ==
    /\ WF_vars(Consume)
    /\ \A t \in Threads : WF_vars(Logging(t))

Spec == Init /\ [][Next]_vars /\ Fairness

-----------------------------------------------------------------------------
Phases == {"boot", "bridge", "load_log", "load_shutdown", "prefork",
           "start_logging", "flush", "run", "shutdown", "release", "done",
           "exited"}

\* The state has its types; in particular fxr_shutdown, which Shutdown reaches
\* on every path, never gives back a reference that nobody took.
TypeOK ==
    /\ phase \in Phases
    /\ held \in [{Main} -> 0..2] /\ live \in BOOLEAN /\ early \in BOOLEAN
    /\ slog \in BOOLEAN /\ sshut \in BOOLEAN
    /\ mcs \in Threads \cup {Null}
    /\ lpc \in [Threads -> {"out", "bridge", "adding", "native"}]
    /\ cur \in Msg \cup {Null}
    /\ count \in 0..MaxMsgs
    /\ buffering \in BOOLEAN /\ discarded \in 0..MaxMsgs
    /\ Range(buffer) \subseteq Msg
    /\ completed \in BOOLEAN /\ consumer \in {"none", "running", "dead"}
    /\ \A s \in {file, queue, out, errout, dropped} : Range(s) \subseteq 0..MaxMsgs
    /\ crashed \in BOOLEAN

\* The messages in s but for the overflow notice, by place.
Numbered(s) == {i \in DOMAIN s : s[i] # 0}
InOrder(s) == \A i, j \in Numbered(s) : i < j => s[i] < s[j]

\* Messages keep the order in which LogPrintStr took m_cs, in debug.log across
\* the switch from the early buffer to the file, and in the managed sink as
\* LoggingTests.cs:144 expects (AllDeliveredInOrder).  The bridge hands each
\* message to exactly one place: stderr until the managed sink is loaded, then
\* the managed queue, and after its shutdown nowhere.
DeliveredInOrder ==
    /\ InOrder(errout \o out \o queue \o dropped)
    /\ InOrder(file \o Ids(buffer))

\* No message is lost on its way to debug.log without being counted: every
\* message logged is in the file, still buffered, or one of the lines the
\* overflow notice reports as discarded.  The notice comes at most once.
DebugLogComplete ==
    LET inflight == IF cur # Null /\ cur.id # 0 THEN 1 ELSE 0
        notice == IF 0 \in Range(file) THEN 1 ELSE 0
    IN  count - inflight = Len(file) - notice + Len(buffer) + discarded

\* The state has its types: Shutdown never gives back a reference that nobody
\* took.  And the reference AppInit takes before btcsharp_logging_init is never
\* given back, so a thread that still calls the managed sink after Shutdown
\* (s_log is not cleared) finds the runtime open.
LateLogFindsRuntime ==
    /\ TypeOK
    /\ \A t \in Threads :
          early /\ slog /\ lpc[t] \in {"bridge", "adding"} => live

\* Thread t has found the managed queue open for message id.
Accepting(t, id) == lpc[t] = "adding" /\ cur.id = id

\* Every message that the managed queue of the running node accepts is
\* eventually written by its consumer (LoggingTests.cs:140-141).  Messages of
\* the time before the fork, which the parent may still write, are left out.
AcceptedIsDelivered ==
    \A id \in 1..MaxMsgs :
        (\E t \in Threads : phase = "run" /\ Accepting(t, id)) ~> id \in Range(out)

\* As far as the code gives it: an accepted message is written unless
\* a fork has left the consumer behind or the process ends first, whatever the
\* other threads log meanwhile and also after CompleteAdding.
DrainedWhileAlive ==
    \A id \in 1..MaxMsgs :
        id \in Range(queue) ~> id \in Range(out) \/ consumer = "dead" \/ ~Alive

=============================================================================
