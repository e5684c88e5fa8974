-------------------------- MODULE LogBridgeProofs --------------------------
(***************************************************************************)
(* Order and completeness of the two log sinks, and the life of the        *)
(* runtime below the managed one, for any threads, messages and limits.    *)
(*                                                                         *)
(* None of the three properties is inductive.  They rest on m_cs: there is *)
(* at most one message under way (ControlInv), so whatever a sink has got  *)
(* is older than it.  BridgeInv adds that the four places a message may    *)
(* end in on the managed side follow each other in time, FileInv that      *)
(* debug.log is empty until StartLogging and the buffer empty after it,    *)
(* and RuntimeInv that AppInit's reference comes on top of the one that    *)
(* Shutdown gives back.                                                    *)
(***************************************************************************)
EXTENDS LogBridge, TLAPS

\* Provers and seconds for the steps that name no prover of their own.
USE ZenonT(10), SMTT(20)

USE LogBridgeAssumption

Flags ==
    /\ live \in BOOLEAN /\ early \in BOOLEAN
    /\ slog \in BOOLEAN /\ sshut \in BOOLEAN
    /\ buffering \in BOOLEAN /\ completed \in BOOLEAN /\ crashed \in BOOLEAN

Typed ==
    /\ phase \in Phases
    /\ held \in [{Main} -> 0..2]
    /\ mcs \in Threads \cup {Null}
    /\ lpc \in [Threads -> {"out", "bridge", "adding", "native"}]
    /\ cur \in Msg \cup {Null}
    /\ count \in 0..MaxMsgs
    /\ buffer \in Seq(Msg)
    /\ discarded \in Nat
    /\ consumer \in {"none", "running", "dead"}
    /\ file \in Seq(0..MaxMsgs)
    /\ queue \in Seq(0..MaxMsgs) /\ out \in Seq(0..MaxMsgs)
    /\ errout \in Seq(0..MaxMsgs) /\ dropped \in Seq(0..MaxMsgs)

\* The thread in LogPrintStr_ holds m_cs and has a message: the newest one, or
\* in StartLogging the overflow notice.
ControlInv ==
    /\ \A t \in Threads : lpc[t] # "out" => mcs = t /\ cur \in Msg
    /\ cur # Null => mcs \in Threads /\ lpc[mcs] # "out"
    /\ cur # Null => cur.id = IF phase = "flush" THEN 0 ELSE count
    /\ phase = "flush" => mcs = Main
    /\ count = 0 => cur = Null \/ phase = "flush"

\* Everything the bridge has handed on, in the order it goes out.
Bridged == errout \o out \o queue \o dropped

\* The ids in s are those of messages logged before id.
Before(s, id) == \A i \in DOMAIN s : s[i] # 0 => s[i] < id

\* The managed sink is used once it is loaded, and shut down only then.
SinkInv ==
    /\ ~slog => out = <<>> /\ queue = <<>>
    /\ ~completed => dropped = <<>>
    /\ completed \/ sshut \/ phase = "load_shutdown" => slog

\* What a thread adds to the managed queue it adds to a loaded one.
AddingInv == \A t \in Threads : lpc[t] = "adding" => slog

\* The bridge has handed on nothing newer than the message under way.
OrderInv ==
    /\ InOrder(Bridged)
    /\ Before(Bridged, count + 1)
    /\ \A t \in Threads : lpc[t] \in {"bridge", "adding"} /\ phase # "flush" =>
          Before(Bridged, count)

\* Where the messages for debug.log are.
Starting == {"boot", "bridge", "load_log", "load_shutdown", "prefork", "start_logging"}
FileInv ==
    /\ phase \in Starting => buffering
    /\ buffering => file = <<>> /\ phase # "flush"
    /\ ~buffering /\ phase # "flush" => buffer = <<>>
    /\ phase = "flush" => \A i \in DOMAIN file : file[i] = 0
    /\ phase = "flush" /\ cur # Null => file = <<>>
    /\ \A i \in DOMAIN buffer : buffer[i].id # 0
    /\ \A s \in {file, Ids(buffer)} :
          /\ InOrder(s) /\ Before(s, count + 1)
          /\ cur # Null /\ phase # "flush" => Before(s, count)

\* The runtime is open while somebody has a reference, and AppInit's own is not
\* the one that Shutdown gives back.
RuntimeInv ==
    /\ live <=> held[Main] > 0
    /\ early => /\ phase # "boot"
                /\ held[Main] > 0
                /\ phase \notin {"bridge", "done", "exited"} => held[Main] = 2

-----------------------------------------------------------------------------
(* Types *)

Lists == <<errout, out, queue, dropped, file, buffer>>

\* The steps of the main thread outside the logger.
Plain == FxrInitEarly \/ LoggingInit \/ LoadLog \/ LoadShutdown \/ Daemonize
         \/ InitFails \/ BeginShutdown \/ ManagedShutdown \/ FxrShutdown \/ Exit

\* Such a step changes the phase, the runtime, the flags and the consumer.
LEMMA PlainKeeps ==
  ASSUME Plain
  PROVE  /\ UNCHANGED <<mcs, lpc, cur, count, buffering, discarded>>
         /\ UNCHANGED Lists
         /\ Alive /\ lpc[Main] = "out"
         /\ phase # "flush" /\ phase' # "flush"
BY DEF Plain, FxrInitEarly, LoggingInit, LoadLog, LoadShutdown, Daemonize,
       InitFails, BeginShutdown, ManagedShutdown, FxrShutdown, Exit, MainAt,
       Lists, logger, managed, sinks

\* What a step is.
LEMMA Steps ==
  ASSUME [Next]_vars
  PROVE  \/ \E t \in Threads : LogBegin(t)
         \/ \E t \in Threads : BridgeLog(t)
         \/ \E t \in Threads : TryAdd(t)
         \/ \E t \in Threads : LogNative(t)
         \/ Consume \/ StartLogging \/ FlushEarlyBuffer \/ Plain
         \/ UNCHANGED vars
BY DEF Next, Logging, MainStep, Plain, Idle

\* A message has a number, and is not Null.
LEMMA MsgNotNull ==
  ASSUME NEW m \in Msg PROVE m # Null /\ m.id \in 0..MaxMsgs
<1>1. m.id \in 0..MaxMsgs /\ m.size \in Nat /\ m = [id |-> m.id, size |-> m.size]
  BY DEF Msg
<1>2. m \in [id : Nat, size : Nat]
  BY <1>1, SMTT(20)
<1> QED
  BY <1>1, <1>2

\* The ids of buffered messages.
LEMMA IdsTyped ==
  ASSUME NEW b \in Seq(Msg)
  PROVE  /\ Ids(b) \in Seq(0..MaxMsgs) /\ Len(Ids(b)) = Len(b)
         /\ \A i \in 1..Len(b) : Ids(b)[i] = b[i].id
<1>0. \A m \in Msg : m.id \in 0..MaxMsgs
  BY DEF Msg
<1>1. \A i \in 1..Len(b) : b[i].id \in 0..MaxMsgs
  BY <1>0, SMTT(20)
<1> QED
  BY <1>1, SMTT(20) DEF Ids

\* What is left of the buffer when messages leave at the front.
LEMMA WithoutTyped ==
  ASSUME NEW b \in Seq(Msg), NEW k \in 0..Len(b)
  PROVE  /\ Without(b, k) \in Seq(Msg) /\ Len(Without(b, k)) = Len(b) - k
         /\ \A i \in 1..Len(b)-k : Without(b, k)[i] = b[k + i]
BY SMTT(20) DEF Without

\* The flags stay Booleans.
LEMMA FlagsStep ==
  ASSUME Flags, [Next]_vars PROVE Flags'
<1> USE DEF Flags, rt, bridge, logger, managed
<1>1. ASSUME NEW t \in Threads, LogBegin(t) PROVE Flags'
  BY <1>1 DEF LogBegin
<1>2. ASSUME NEW t \in Threads, BridgeLog(t) PROVE Flags'
  BY <1>2 DEF BridgeLog
<1>3. ASSUME NEW t \in Threads, TryAdd(t) PROVE Flags'
  BY <1>3 DEF TryAdd
<1>4. ASSUME NEW t \in Threads, LogNative(t) PROVE Flags'
  BY <1>4 DEF LogNative
<1>5. CASE Consume BY <1>5 DEF Consume
<1>6. CASE StartLogging BY <1>6 DEF StartLogging
<1>7. CASE FlushEarlyBuffer BY <1>7 DEF FlushEarlyBuffer
<1>8. CASE FxrInitEarly BY <1>8 DEF FxrInitEarly, R!Acquire
<1>9. CASE LoggingInit BY <1>9 DEF LoggingInit, R!Acquire
<1>10. CASE LoadLog BY <1>10 DEF LoadLog
<1>11. CASE LoadShutdown BY <1>11 DEF LoadShutdown
<1>12. CASE Daemonize BY <1>12 DEF Daemonize
<1>13. CASE InitFails BY <1>13 DEF InitFails
<1>14. CASE BeginShutdown BY <1>14 DEF BeginShutdown
<1>15. CASE ManagedShutdown BY <1>15 DEF ManagedShutdown
<1>16. CASE FxrShutdown
  <2>1. live' \in BOOLEAN
    BY <1>16 DEF FxrShutdown, R!Release
  <2> QED
    BY <1>16, <2>1 DEF FxrShutdown
<1>17. CASE Exit BY <1>17 DEF Exit
<1>18. CASE UNCHANGED vars BY <1>18 DEF vars
<1> QED
  BY Steps, <1>1, <1>2, <1>3, <1>4, <1>5, <1>6, <1>7, <1>8, <1>9, <1>10, <1>11,
     <1>12, <1>13, <1>14, <1>15, <1>16, <1>17, <1>18 DEF Plain

\* The types are kept.
LEMMA TypedStep ==
  ASSUME Typed, ControlInv, [Next]_vars PROVE Typed'
<1> USE DEF rt, bridge, logger, managed, sinks
<1>0. \A m \in Msg : m.id \in 0..MaxMsgs
  BY DEF Msg
<1>1. ASSUME NEW t \in Threads, LogBegin(t) PROVE Typed'
  <2>1. cur' \in Msg /\ count' \in 0..MaxMsgs
    BY <1>1, SMTT(20) DEF Typed, LogBegin, Msg
  <2> QED
    BY <1>1, <2>1 DEF Typed, LogBegin
<1>2. ASSUME NEW t \in Threads, BridgeLog(t) PROVE Typed'
  <2>1. cur.id \in 0..MaxMsgs
    BY <1>0, <1>2 DEF BridgeLog, ControlInv
  <2>2. \A s \in Seq(0..MaxMsgs) : Append(s, cur.id) \in Seq(0..MaxMsgs)
    BY <2>1, SMTT(20)
  <2>3. errout' \in Seq(0..MaxMsgs) /\ dropped' \in Seq(0..MaxMsgs)
    BY <1>2, <2>2 DEF Typed, BridgeLog
  <2>4. consumer' \in {"none", "running", "dead"}
    BY <1>2 DEF Typed, BridgeLog, StartConsumer
  <2>5. lpc' \in [Threads -> {"out", "bridge", "adding", "native"}]
    BY <1>2 DEF Typed, BridgeLog
  <2> QED
    BY <1>2, <2>3, <2>4, <2>5 DEF Typed, BridgeLog
<1>3. ASSUME NEW t \in Threads, TryAdd(t) PROVE Typed'
  <2>1. cur.id \in 0..MaxMsgs
    BY <1>0, <1>3 DEF TryAdd, ControlInv
  <2>2. queue' \in Seq(0..MaxMsgs)
    <3>1. Append(queue, cur.id) \in Seq(0..MaxMsgs)
      BY <2>1, SMTT(20) DEF Typed
    <3> QED
      BY <1>3, <3>1 DEF Typed, TryAdd
  <2>3. lpc' \in [Threads -> {"out", "bridge", "adding", "native"}]
    BY <1>3 DEF Typed, TryAdd
  <2> QED
    BY <1>3, <2>2, <2>3 DEF Typed, TryAdd
<1>4. ASSUME NEW t \in Threads, LogNative(t) PROVE Typed'
  <2>1. cur \in Msg /\ cur.id \in 0..MaxMsgs
    BY <1>0, <1>4 DEF LogNative, ControlInv
  <2>2. buffer' \in Seq(Msg) /\ discarded' \in Nat
    <3>1. CASE buffer' = buffer /\ discarded' = discarded
      BY <3>1 DEF Typed
    <3>2. ASSUME NEW k \in Overflow(Append(buffer, cur)),
                 buffer' = Without(Append(buffer, cur), k), discarded' = discarded + k
          PROVE  buffer' \in Seq(Msg) /\ discarded' \in Nat
      <4>1. Append(buffer, cur) \in Seq(Msg) /\ k \in 0..Len(Append(buffer, cur))
        BY <2>1, SMTT(20) DEF Typed, Overflow
      <4>2. k \in Nat
        BY <4>1, SMTT(20)
      <4>3. Without(Append(buffer, cur), k) \in Seq(Msg)
        BY <4>1, WithoutTyped
      <4> QED
        BY <4>2, <4>3, <3>2, SMTT(20) DEF Typed
    <3> QED
      BY <1>4, <3>1, <3>2 DEF LogNative
  <2>3. file' \in Seq(0..MaxMsgs)
    <3>1. Append(file, cur.id) \in Seq(0..MaxMsgs)
      BY <2>1, SMTT(20) DEF Typed
    <3> QED
      BY <1>4, <3>1 DEF Typed, LogNative
  <2> QED
    BY <1>4, <2>2, <2>3 DEF Typed, LogNative
<1>5. CASE Consume
  BY <1>5, SMTT(20) DEF Typed, Consume
<1>6. CASE StartLogging
  <2>1. \A n \in Sizes : [id |-> 0, size |-> n] \in Msg
    BY SMTT(20) DEF Msg
  <2> QED
    BY <1>6, <2>1, SMTT(20) DEF Typed, StartLogging, MainAt, Phases, Threads
<1>7. CASE FlushEarlyBuffer
  <2>1. Ids(buffer) \in Seq(0..MaxMsgs)
    BY IdsTyped DEF Typed
  <2> QED
    BY <1>7, <2>1, SMTT(20) DEF Typed, FlushEarlyBuffer, MainAt, Phases
<1>8. CASE Plain
  <2>1. phase' \in Phases
    BY <1>8 DEF Plain, FxrInitEarly, LoggingInit, LoadLog, LoadShutdown,
       Daemonize, InitFails, BeginShutdown, ManagedShutdown, FxrShutdown, Exit,
       MainAt, Phases
  <2>2. held' \in [{Main} -> 0..2]
    <3>1. R!Acquire(Main) \/ R!Release(Main) \/ UNCHANGED rt
      BY <1>8 DEF Plain, FxrInitEarly, LoggingInit, LoadLog, LoadShutdown,
         Daemonize, InitFails, BeginShutdown, ManagedShutdown, FxrShutdown, Exit
    <3>2. held \in [{Main} -> 0..2] /\ held[Main] \in 0..2
      BY DEF Typed
    <3>3. CASE R!Acquire(Main)
      BY <3>2, <3>3, SMTT(20) DEF R!Acquire
    <3>4. CASE R!Release(Main)
      BY <3>2, <3>4, SMTT(20) DEF R!Release
    <3> QED
      BY <3>1, <3>2, <3>3, <3>4
  <2>3. consumer' \in {"none", "running", "dead"}
    BY <1>8 DEF Typed, Plain, FxrInitEarly, LoggingInit, LoadLog, LoadShutdown,
       Daemonize, InitFails, BeginShutdown, ManagedShutdown, FxrShutdown, Exit,
       StartConsumer
  <2> QED
    BY <1>8, <2>1, <2>2, <2>3, PlainKeeps DEF Typed, Lists
<1>9. CASE UNCHANGED vars
  BY <1>9 DEF Typed, vars
<1> QED
  BY Steps, <1>1, <1>2, <1>3, <1>4, <1>5, <1>6, <1>7, <1>8, <1>9

-----------------------------------------------------------------------------
(* m_cs *)

\* One message is under way at a time.
LEMMA ControlStep ==
  ASSUME Typed, ControlInv, FileInv, [Next]_vars PROVE ControlInv'
<1>0. cur # Null => cur \in Msg
  BY DEF Typed
<1>1. ASSUME NEW t \in Threads, LogBegin(t) PROVE ControlInv'
  <2>1. /\ cur' \in Msg /\ cur'.id = count' /\ count' # 0
    BY <1>1, SMTT(20) DEF Typed, LogBegin, Msg
  <2>2. phase # "flush" /\ phase' = phase /\ Null \notin Threads
    BY <1>1 DEF LogBegin, MainLogsAt, ControlInv, Threads
  <2> QED
    BY <1>1, <2>1, <2>2 DEF Typed, ControlInv, LogBegin
<1>2. ASSUME NEW t \in Threads, BridgeLog(t) \/ TryAdd(t) PROVE ControlInv'
  <2>1. /\ UNCHANGED <<mcs, cur, phase, count>>
        /\ \A u \in Threads : lpc'[u] # "out" <=> lpc[u] # "out"
    BY <1>2 DEF Typed, BridgeLog, TryAdd
  <2> QED
    BY <2>1 DEF ControlInv
<1>3. ASSUME NEW t \in Threads, LogNative(t) PROVE ControlInv'
  <2>1. \A u \in Threads : lpc'[u] = "out"
    BY <1>3 DEF Typed, LogNative, ControlInv
  <2>2. cur' = Null /\ phase' = phase /\ count' = count
        /\ (phase = "flush" => mcs' = mcs)
    BY <1>3 DEF LogNative
  <2> QED
    BY <2>1, <2>2 DEF ControlInv
<1>4. CASE Consume \/ UNCHANGED vars
  BY <1>4 DEF ControlInv, Consume, vars
<1>5. CASE StartLogging
  <2>1. cur = Null /\ \A u \in Threads : lpc[u] = "out"
    BY <1>5 DEF StartLogging, ControlInv, Threads
  <2>2. \A n \in Sizes : [id |-> 0, size |-> n] \in Msg
    BY SMTT(20) DEF Msg
  <2> QED
    BY <1>5, <2>1, <2>2, SMTT(20) DEF Typed, StartLogging, MainAt, ControlInv, Threads, Msg
<1>6. CASE FlushEarlyBuffer
  <2>1. cur = Null
    BY <1>6 DEF FlushEarlyBuffer, MainAt, ControlInv
  <2>2. \A u \in Threads : lpc[u] = "out"
    BY <1>6, <2>1 DEF FlushEarlyBuffer, ControlInv, Threads, MainAt
  <2> QED
    BY <1>6, <2>1, <2>2 DEF FlushEarlyBuffer, MainAt, ControlInv
<1>7. CASE Plain
  BY <1>7, PlainKeeps DEF ControlInv
<1> QED
  BY Steps, <1>1, <1>2, <1>3, <1>4, <1>5, <1>6, <1>7

-----------------------------------------------------------------------------
(* The managed side *)

\* Appending to the second of two sequences, or moving the head of the second
\* to the end of the first.
LEMMA Concatenations ==
  ASSUME NEW S, NEW s \in Seq(S), NEW t \in Seq(S), NEW x \in S
  PROVE  /\ s \o t \in Seq(S)
         /\ s \o <<>> = s
         /\ s \o Append(t, x) = Append(s \o t, x)
         /\ t # <<>> => Head(t) \in S /\ Append(s, Head(t)) \o Tail(t) = s \o t
<1>1. s \o t \in Seq(S)
  BY SMTT(20)
<1>2. s \o <<>> = s
  BY SMTT(20)
<1>3. s \o Append(t, x) = Append(s \o t, x)
  BY SMTT(20)
<1>4. ASSUME t # <<>>
      PROVE  Head(t) \in S /\ Append(s, Head(t)) \o Tail(t) = s \o t
  BY <1>4, SMTT(20)
<1> QED
  BY <1>1, <1>2, <1>3, <1>4

\* A message newer than all the others, or the notice, goes to the end.
LEMMA AppendInOrder ==
  ASSUME NEW s \in Seq(Nat), NEW x \in Nat, NEW n \in Nat,
         InOrder(s), x # 0 => Before(s, x), Before(s, n), x < n
  PROVE  InOrder(Append(s, x)) /\ Before(Append(s, x), n)
<1>1. /\ DOMAIN Append(s, x) = 1..Len(s)+1
      /\ \A i \in 1..Len(s) : Append(s, x)[i] = s[i]
      /\ Append(s, x)[Len(s) + 1] = x
      /\ DOMAIN s = 1..Len(s)
  BY SMTT(20)
<1>2. \A i \in 1..Len(s)+1 : i \in 1..Len(s) \/ i = Len(s) + 1
  BY SMTT(20)
<1>3. \A i \in 1..Len(s) : s[i] \in Nat
  BY SMTT(20)
<1> HIDE DEF Before
<1>4. InOrder(Append(s, x))
  BY <1>1, <1>2, <1>3, SMTT(20) DEF InOrder, Numbered, Before
<1>5. Before(Append(s, x), n)
  BY <1>1, <1>2, <1>3 DEF Before
<1> QED
  BY <1>4, <1>5

\* An older message was logged before what an even newer one was.
LEMMA BeforeLater ==
  ASSUME NEW s \in Seq(Nat), NEW m \in Nat, NEW n \in Nat, m <= n, Before(s, m)
  PROVE  Before(s, n)
<1>1. \A i \in DOMAIN s : s[i] \in Nat
  BY SMTT(20)
<1> QED
  BY <1>1, SMTT(20) DEF Before

\* The bridge hands on the message under way, and nothing else changes what it
\* has handed on or the order of it.
Hands(t) ==
    /\ lpc[t] \in {"bridge", "adding"}
    /\ lpc' = [lpc EXCEPT ![t] = "native"]
    /\ Bridged' = Append(Bridged, cur.id)
    /\ UNCHANGED <<phase, mcs, cur, count>>

\* What a step does to the messages the bridge has handed on.
LEMMA BridgedStep ==
  ASSUME Typed, ControlInv, SinkInv, [Next]_vars
  PROVE  Bridged' = Bridged \/ \E t \in Threads : Hands(t)
<1> DEFINE Id == 0..MaxMsgs
           eo == errout \o out
           eoq == eo \o queue
<1>0. /\ errout \in Seq(Id) /\ out \in Seq(Id) /\ queue \in Seq(Id)
      /\ dropped \in Seq(Id) /\ eo \in Seq(Id) /\ eoq \in Seq(Id)
  BY SMTT(20) DEF Typed
<1>1. Bridged = eoq \o dropped
  BY DEF Bridged
<1>a. \A m \in Msg : m.id \in Id
  BY DEF Msg
<1>2. ASSUME NEW t \in Threads, BridgeLog(t)
      PROVE  Bridged' = Bridged \/ Hands(t)
  <2>0. cur.id \in Id
    BY <1>a, <1>2 DEF BridgeLog, ControlInv
  <2> HIDE DEF Id
  <2>1. CASE ~slog
    <3>1. out = <<>> /\ queue = <<>> /\ dropped = <<>>
      BY <2>1 DEF SinkInv
    <3>2. /\ errout' = Append(errout, cur.id)
          /\ out' = out /\ queue' = queue /\ dropped' = dropped
      BY <1>2, <2>1 DEF BridgeLog, managed
    <3>3. Bridged = errout
      BY <1>0, <3>1, Concatenations, <2>0, SMTT(20) DEF Bridged
    <3>4. Bridged' = Append(errout, cur.id)
      <4>1. Append(errout, cur.id) \in Seq(Id)
        BY <1>0, <2>0, SMTT(20)
      <4> QED
        BY <4>1, <3>1, <3>2, Concatenations, <2>0, SMTT(20) DEF Bridged
    <3> QED
      BY <1>2, <2>1, <3>3, <3>4 DEF BridgeLog, Hands
  <2>2. CASE slog /\ completed
    <3>1. /\ errout' = errout /\ out' = out /\ queue' = queue
          /\ dropped' = Append(dropped, cur.id)
      BY <1>2, <2>2 DEF BridgeLog
    <3>2. Bridged' = eoq \o Append(dropped, cur.id)
      BY <3>1 DEF Bridged
    <3> HIDE DEF eo, eoq
    <3>3. Bridged' = Append(Bridged, cur.id)
      BY <1>0, <1>1, <2>0, <3>2, Concatenations, SMTT(20)
    <3> QED
      BY <1>2, <2>2, <3>3 DEF BridgeLog, Hands
  <2>3. CASE slog /\ ~completed
    BY <1>2, <2>3 DEF BridgeLog, Bridged
  <2> QED
    BY <2>1, <2>2, <2>3
<1>3. ASSUME NEW t \in Threads, TryAdd(t)
      PROVE  Bridged' = Bridged \/ Hands(t)
  <2>0. cur.id \in Id
    BY <1>a, <1>3 DEF TryAdd, ControlInv
  <2> HIDE DEF Id
  <2>1. CASE completed
    BY <1>3, <2>1 DEF TryAdd, Bridged, sinks
  <2>2. CASE ~completed
    <3>1. dropped = <<>>
      BY <2>2 DEF SinkInv
    <3>2. /\ errout' = errout /\ out' = out /\ dropped' = dropped
          /\ queue' = Append(queue, cur.id)
      BY <1>3, <2>2 DEF TryAdd, sinks
    <3>3. Bridged' = (eo \o Append(queue, cur.id)) \o <<>>
      BY <3>1, <3>2 DEF Bridged
    <3>4. Bridged = eoq
      BY <1>0, <1>1, <2>0, <3>1, Concatenations
    <3> HIDE DEF eo
    <3>5. eo \o Append(queue, cur.id) = Append(eoq, cur.id)
      BY <1>0, <2>0, Concatenations, SMTT(20)
    <3>6. Bridged' = Append(eoq, cur.id)
      <4>1. Append(eoq, cur.id) \in Seq(Id)
        BY <1>0, <2>0, SMTT(20)
      <4> HIDE DEF eoq
      <4> QED
        BY <3>3, <3>5, <4>1, <2>0, Concatenations
    <3> QED
      BY <1>3, <2>2, <3>4, <3>6 DEF TryAdd, Hands
  <2> QED
    BY <2>1, <2>2
<1>4. CASE Consume
  <2>1. /\ errout' = errout /\ dropped' = dropped /\ queue # <<>>
        /\ out' = Append(out, Head(queue)) /\ queue' = Tail(queue)
    BY <1>4 DEF Consume, sinks
  <2>2. Bridged' = ((errout \o Append(out, Head(queue))) \o Tail(queue)) \o dropped
    BY <2>1 DEF Bridged
  <2>3. Head(queue) \in Id
    BY <1>0, <2>1, SMTT(20)
  <2> HIDE DEF Id
  <2>4. errout \o Append(out, Head(queue)) = Append(eo, Head(queue))
    BY <1>0, <2>3, Concatenations, SMTT(20)
  <2> HIDE DEF eo
  <2>5. Append(eo, Head(queue)) \o Tail(queue) = eo \o queue
    BY <1>0, <2>1, <2>3, Concatenations, SMTT(20)
  <2> QED
    BY <1>1, <2>2, <2>4, <2>5
<1>5. ASSUME NEW t \in Threads, LogBegin(t) \/ LogNative(t)
      PROVE  Bridged' = Bridged
  BY <1>5 DEF LogBegin, LogNative, Bridged, managed, sinks
<1>6. CASE StartLogging \/ FlushEarlyBuffer \/ UNCHANGED vars
  BY <1>6 DEF StartLogging, FlushEarlyBuffer, Bridged, managed, sinks, vars
<1>7. CASE Plain
  BY <1>7, PlainKeeps DEF Bridged, Lists
<1> QED
  BY Steps, <1>2, <1>3, <1>4, <1>5, <1>6, <1>7

\* The managed sink is loaded before it is used and shut down at most then.
LEMMA SinkStep ==
  ASSUME Typed, Flags, ControlInv, SinkInv, AddingInv, [Next]_vars PROVE SinkInv' /\ AddingInv'
<1> USE DEF SinkInv, AddingInv, bridge, managed, sinks
<1>1. ASSUME NEW t \in Threads, LogBegin(t) PROVE SinkInv' /\ AddingInv'
  BY <1>1 DEF LogBegin, Typed
<1>2. ASSUME NEW t \in Threads, BridgeLog(t) PROVE SinkInv' /\ AddingInv'
  BY <1>2 DEF BridgeLog, Typed
<1>3. ASSUME NEW t \in Threads, TryAdd(t) PROVE SinkInv' /\ AddingInv'
  BY <1>3 DEF TryAdd, Typed
<1>4. ASSUME NEW t \in Threads, LogNative(t) PROVE SinkInv' /\ AddingInv'
  BY <1>4 DEF LogNative, Typed
<1>5. CASE Consume BY <1>5 DEF Consume
<1>6. CASE StartLogging BY <1>6 DEF StartLogging, MainAt, Typed, Threads
<1>7. CASE FlushEarlyBuffer BY <1>7 DEF FlushEarlyBuffer, MainAt
<1>8. CASE FxrInitEarly BY <1>8 DEF FxrInitEarly, MainAt
<1>9. CASE LoggingInit BY <1>9 DEF LoggingInit, MainAt
<1>10. CASE LoadLog BY <1>10 DEF LoadLog, MainAt
<1>11. CASE LoadShutdown BY <1>11 DEF LoadShutdown, MainAt
<1>12. CASE Daemonize BY <1>12 DEF Daemonize, MainAt
<1>13. CASE InitFails BY <1>13 DEF InitFails, MainAt
<1>14. CASE BeginShutdown BY <1>14 DEF BeginShutdown, MainAt
<1>15. CASE ManagedShutdown BY <1>15, SMTT(20) DEF ManagedShutdown, MainAt
<1>16. CASE FxrShutdown BY <1>16 DEF FxrShutdown, MainAt
<1>17. CASE Exit BY <1>17 DEF Exit, MainAt
<1>18. CASE UNCHANGED vars BY <1>18 DEF vars
<1> QED
  BY Steps, <1>1, <1>2, <1>3, <1>4, <1>5, <1>6, <1>7, <1>8, <1>9, <1>10, <1>11,
     <1>12, <1>13, <1>14, <1>15, <1>16, <1>17, <1>18 DEF Plain

\* A message is under way to the bridge only if it was before, or it is new.
LEMMA Underway ==
  ASSUME Typed, ControlInv, [Next]_vars, NEW t \in Threads,
         lpc'[t] \in {"bridge", "adding"}, phase' # "flush"
  PROVE  \/ count' = count + 1
         \/ lpc[t] \in {"bridge", "adding"} /\ phase # "flush" /\ count' = count
<1>1. ASSUME NEW u \in Threads, LogBegin(u) PROVE count' = count + 1
  BY <1>1 DEF LogBegin
<1>2. ASSUME NEW u \in Threads, BridgeLog(u) \/ TryAdd(u) \/ LogNative(u)
      PROVE  lpc[t] \in {"bridge", "adding"} /\ phase' = phase /\ count' = count
  BY <1>2 DEF BridgeLog, TryAdd, LogNative, Typed
<1>3. CASE Consume \/ UNCHANGED vars
  BY <1>3 DEF Consume, vars
<1>4. CASE StartLogging
  BY <1>4 DEF StartLogging, MainAt
<1>5. CASE FlushEarlyBuffer
  BY <1>5 DEF FlushEarlyBuffer, MainAt, ControlInv
<1>6. CASE Plain
  BY <1>6, PlainKeeps
<1> QED
  BY Steps, <1>1, <1>2, <1>3, <1>4, <1>5, <1>6

\* The count of messages never decreases.
LEMMA CountGrows ==
  ASSUME Typed, [Next]_vars PROVE count' = count \/ count' = count + 1
<1>1. ASSUME NEW u \in Threads, LogBegin(u) PROVE count' = count + 1
  BY <1>1 DEF LogBegin
<1>2. ASSUME NEW u \in Threads, BridgeLog(u) \/ TryAdd(u) \/ LogNative(u)
      PROVE  count' = count
  BY <1>2 DEF BridgeLog, TryAdd, LogNative
<1>3. CASE Consume \/ StartLogging \/ FlushEarlyBuffer \/ UNCHANGED vars
  BY <1>3 DEF Consume, StartLogging, FlushEarlyBuffer, vars
<1>4. CASE Plain
  BY <1>4, PlainKeeps
<1> QED
  BY Steps, <1>1, <1>2, <1>3, <1>4

\* The bridge keeps the order.
LEMMA OrderStep ==
  ASSUME Typed, Typed', ControlInv, SinkInv, OrderInv, [Next]_vars PROVE OrderInv'
<1>0. Bridged \in Seq(Nat) /\ Bridged' \in Seq(Nat) /\ count \in Nat /\ count' \in Nat
  <2>1. \A s \in Seq(0..MaxMsgs) : s \in Seq(Nat)
    BY SMTT(20)
  <2>2. \A s, t \in Seq(Nat) : s \o t \in Seq(Nat)
    BY SMTT(20)
  <2>3. /\ errout \in Seq(Nat) /\ out \in Seq(Nat) /\ queue \in Seq(Nat)
        /\ dropped \in Seq(Nat)
        /\ errout' \in Seq(Nat) /\ out' \in Seq(Nat) /\ queue' \in Seq(Nat)
        /\ dropped' \in Seq(Nat)
    BY <2>1 DEF Typed
  <2> QED
    BY <2>2, <2>3, SMTT(20) DEF Typed, Bridged
<1>1. CASE Bridged' = Bridged
  <2>1. InOrder(Bridged')
    BY <1>1 DEF OrderInv
  <2>2. Before(Bridged', count' + 1)
    BY <1>0, <1>1, CountGrows, BeforeLater, SMTT(20) DEF OrderInv
  <2>3. ASSUME NEW t \in Threads, lpc'[t] \in {"bridge", "adding"}, phase' # "flush"
        PROVE  Before(Bridged', count')
    BY <1>1, <2>3, Underway DEF OrderInv
  <2> QED
    BY <2>1, <2>2, <2>3 DEF OrderInv
<1>2. ASSUME NEW t \in Threads, Hands(t) PROVE OrderInv'
  <2>1. cur \in Msg /\ cur.id = (IF phase = "flush" THEN 0 ELSE count)
    BY <1>2, MsgNotNull DEF Hands, ControlInv
  <2>2. cur.id \in Nat /\ cur.id < count + 1 /\ (cur.id # 0 => Before(Bridged, cur.id))
    BY <1>0, <1>2, <2>1, SMTT(20) DEF Hands, OrderInv
  <2>3. InOrder(Bridged') /\ Before(Bridged', count' + 1)
    BY <1>0, <1>2, <2>2, AppendInOrder, SMTT(20) DEF Hands, OrderInv
  <2>4. \A u \in Threads : lpc'[u] \notin {"bridge", "adding"}
    BY <1>2 DEF Hands, ControlInv, Typed
  <2> QED
    BY <2>3, <2>4 DEF OrderInv
<1> QED
  BY <1>1, <1>2, BridgedStep

-----------------------------------------------------------------------------
(* debug.log *)

\* What a step outside the native half of the logger leaves alone.
Elsewhere ==
    /\ UNCHANGED <<file, buffer, buffering, discarded>>
    /\ phase' = "flush" <=> phase = "flush"
    /\ phase' \in Starting => phase \in Starting
    /\ \/ /\ count' = count + 1 /\ phase # "flush"
          /\ cur = Null /\ cur' # Null /\ cur'.id = count'
       \/ count' = count /\ cur' = cur

\* A step is one of the native half of the logger, or leaves it alone.
LEMMA FileSteps ==
  ASSUME Typed, ControlInv, [Next]_vars
  PROVE  \/ \E t \in Threads : LogNative(t)
         \/ StartLogging \/ FlushEarlyBuffer \/ Elsewhere
<1> USE DEF Elsewhere, logger
<1>1. ASSUME NEW t \in Threads, LogBegin(t) PROVE Elsewhere
  <2>1. cur' \in Msg /\ cur'.id = count + 1
    BY <1>1, SMTT(20) DEF Typed, LogBegin, Msg
  <2>2. cur = Null /\ phase' = phase /\ phase # "flush" /\ count' = count + 1
    BY <1>1 DEF LogBegin, ControlInv, Threads
  <2> QED
    BY <1>1, <2>1, <2>2, MsgNotNull DEF LogBegin
<1>2. ASSUME NEW t \in Threads, BridgeLog(t) \/ TryAdd(t) PROVE Elsewhere
  BY <1>2 DEF BridgeLog, TryAdd
<1>3. CASE Consume \/ UNCHANGED vars
  BY <1>3 DEF Consume, vars
<1>4. CASE Plain
  <2>1. phase' \in Starting => phase \in Starting
    BY <1>4 DEF Plain, FxrInitEarly, LoggingInit, LoadLog, LoadShutdown,
       Daemonize, InitFails, BeginShutdown, ManagedShutdown, FxrShutdown, Exit,
       MainAt, Starting
  <2> QED
    BY <1>4, <2>1, PlainKeeps DEF Lists
<1> QED
  BY Steps, <1>1, <1>2, <1>3, <1>4

\* The end of a list in order is in order.
LEMMA WithoutInOrder ==
  ASSUME NEW b \in Seq(Msg), NEW k \in 0..Len(b), NEW n \in Nat,
         InOrder(Ids(b)), Before(Ids(b), n)
  PROVE  InOrder(Ids(Without(b, k))) /\ Before(Ids(Without(b, k)), n)
<1> DEFINE w == Without(b, k)
<1>1. /\ w \in Seq(Msg) /\ Len(w) = Len(b) - k
      /\ \A i \in 1..Len(b)-k : w[i] = b[k + i]
  BY WithoutTyped
<1> HIDE DEF w
<1>2. /\ DOMAIN Ids(w) = 1..Len(b)-k /\ DOMAIN Ids(b) = 1..Len(b)
      /\ \A i \in 1..Len(b)-k : k + i \in 1..Len(b) /\ Ids(w)[i] = Ids(b)[k + i]
  <2>1. \A i \in 1..Len(b)-k : k + i \in 1..Len(b)
    BY SMTT(20)
  <2> QED
    BY <1>1, <2>1 DEF Ids
<1>3. InOrder(Ids(w))
  <2> SUFFICES ASSUME NEW i \in Numbered(Ids(w)), NEW j \in Numbered(Ids(w)), i < j
               PROVE  Ids(w)[i] < Ids(w)[j]
    BY DEF InOrder
  <2>1. /\ i \in 1..Len(b)-k /\ j \in 1..Len(b)-k
        /\ k + i < k + j
        /\ Ids(w)[i] # 0 /\ Ids(w)[j] # 0
    BY <1>2, SMTT(20) DEF Numbered
  <2>2. k + i \in Numbered(Ids(b)) /\ k + j \in Numbered(Ids(b))
    BY <1>2, <2>1 DEF Numbered
  <2>3. Ids(b)[k + i] < Ids(b)[k + j]
    BY <2>1, <2>2 DEF InOrder
  <2> QED
    BY <1>2, <2>1, <2>3
<1>4. Before(Ids(w), n)
  BY <1>2 DEF Before
<1> QED
  BY <1>3, <1>4 DEF w

\* The rest of LogPrintStr_ keeps what is known of the buffer and the file.
LEMMA NativeFile ==
  ASSUME Typed, ControlInv, FileInv, NEW t \in Threads, LogNative(t)
  PROVE  FileInv'
<1>0. /\ UNCHANGED <<phase, count, buffering>> /\ cur' = Null
      /\ cur \in Msg /\ cur # Null /\ cur.id \in Nat /\ count \in Nat
      /\ cur.id = IF phase = "flush" THEN 0 ELSE count
      /\ phase # "flush" => count # 0
  BY MsgNotNull, SMTT(20) DEF LogNative, ControlInv, Typed
<1>1. \A s \in {file, Ids(buffer)} :
         /\ s \in Seq(Nat) /\ InOrder(s) /\ Before(s, count + 1)
         /\ cur.id # 0 => Before(s, cur.id)
  <2>1. file \in Seq(Nat) /\ Ids(buffer) \in Seq(Nat)
    <3>1. \A s \in Seq(0..MaxMsgs) : s \in Seq(Nat)
      BY SMTT(20)
    <3> QED
      BY <3>1, IdsTyped DEF Typed
  <2> QED
    BY <1>0, <2>1 DEF FileInv
<1>2. CASE buffering
  <2>1. PICK k \in Overflow(Append(buffer, cur)) :
           buffer' = Without(Append(buffer, cur), k)
    BY <1>2 DEF LogNative
  <2> DEFINE b == Append(buffer, cur)
  <2>2. b \in Seq(Msg) /\ k \in 0..Len(b)
    BY <1>0, <2>1, SMTT(20) DEF Typed, Overflow
  <2>3. file' = file /\ phase # "flush" /\ file = <<>>
    BY <1>2 DEF LogNative, FileInv
  <2>4. Ids(b) = Append(Ids(buffer), cur.id)
    BY <1>0, SMTT(20) DEF Ids, Typed
  <2>5. InOrder(Ids(b)) /\ Before(Ids(b), count + 1)
    BY <1>0, <1>1, <2>4, AppendInOrder, SMTT(20)
  <2>6. \A i \in 1..Len(b) : b[i].id # 0
    BY <1>0, <2>3, SMTT(20) DEF FileInv, Typed
  <2>9. buffer' = Without(b, k) /\ count + 1 \in Nat
    BY <1>0, <2>1, SMTT(20)
  <2> HIDE DEF b
  <2>7. InOrder(Ids(buffer')) /\ Before(Ids(buffer'), count + 1)
    BY <2>2, <2>5, <2>9, WithoutInOrder
  <2>8. \A i \in DOMAIN buffer' : buffer'[i].id # 0
    <3>1. /\ buffer' \in Seq(Msg) /\ Len(buffer') = Len(b) - k
          /\ \A i \in 1..Len(b)-k : buffer'[i] = b[k + i]
      BY <2>2, <2>9, WithoutTyped
    <3>2. \A i \in 1..Len(b)-k : k + i \in 1..Len(b)
      BY <2>2, SMTT(20)
    <3> QED
      BY <2>6, <3>1, <3>2, SMTT(20)
  <2> QED
    BY <1>0, <1>1, <1>2, <2>3, <2>7, <2>8 DEF FileInv
<1>3. CASE ~buffering
  <2>1. buffer' = buffer /\ file' = Append(file, cur.id)
    BY <1>3 DEF LogNative
  <2>2. InOrder(file') /\ Before(file', count + 1)
    BY <1>0, <1>1, <2>1, AppendInOrder, SMTT(20)
  <2>3. phase = "flush" => \A i \in DOMAIN file' : file'[i] = 0
    BY <1>0, <1>1, <2>1, SMTT(20) DEF FileInv
  <2> QED
    BY <1>0, <1>1, <1>3, <2>1, <2>2, <2>3 DEF FileInv
<1> QED
  BY <1>2, <1>3

\* The length of two sequences in a row.
LEMMA ConcatLength ==
  ASSUME NEW S, NEW s \in Seq(S), NEW t \in Seq(S)
  PROVE  s \o t \in Seq(S) /\ Len(s \o t) = Len(s) + Len(t)
BY SMTT(20)

\* The elements of two sequences in a row.
LEMMA ConcatElements ==
  ASSUME NEW S, NEW s \in Seq(S), NEW t \in Seq(S)
  PROVE  /\ DOMAIN (s \o t) = 1..Len(s)+Len(t)
         /\ \A i \in 1..Len(s) : (s \o t)[i] = s[i]
         /\ \A i \in Len(s)+1..Len(s)+Len(t) :
               i - Len(s) \in 1..Len(t) /\ (s \o t)[i] = t[i - Len(s)]
<1>2. DOMAIN (s \o t) = 1..Len(s)+Len(t)
  BY ConcatLength, SMTT(20)
<1>3. \A i \in 1..Len(s) : (s \o t)[i] = s[i]
  BY SMTT(20)
<1>4. \A i \in Len(s)+1..Len(s)+Len(t) :
         i - Len(s) \in 1..Len(t) /\ (s \o t)[i] = t[i - Len(s)]
  BY SMTT(20)
<1> QED
  BY <1>2, <1>3, <1>4

\* Flushing the buffer puts its messages behind the notice.
LEMMA FlushFile ==
  ASSUME Typed, ControlInv, FileInv, FlushEarlyBuffer
  PROVE  /\ FileInv'
         /\ Len(file') = Len(file) + Len(buffer)
         /\ 0 \in Range(file') <=> 0 \in Range(file)
<1>0. /\ phase = "flush" /\ phase' = "run" /\ UNCHANGED <<cur, count, buffering>>
      /\ cur = Null /\ buffer' = <<>> /\ file' = file \o Ids(buffer)
      /\ \A i \in DOMAIN file : file[i] = 0
  BY DEF FlushEarlyBuffer, MainAt, ControlInv, FileInv
<1> DEFINE b == Ids(buffer)
<1>1. /\ b \in Seq(0..MaxMsgs) /\ Len(b) = Len(buffer)
      /\ InOrder(b) /\ Before(b, count + 1)
      /\ file \in Seq(0..MaxMsgs) /\ Len(file) \in Nat /\ Len(buffer) \in Nat
      /\ \A i \in 1..Len(b) : b[i] # 0
  <2>1. InOrder(b) /\ Before(b, count + 1)
    BY DEF FileInv
  <2>2. /\ buffer \in Seq(Msg) /\ Len(buffer) \in Nat
        /\ file \in Seq(0..MaxMsgs) /\ Len(file) \in Nat
        /\ \A i \in 1..Len(buffer) : buffer[i].id # 0
    BY SMTT(20) DEF Typed, FileInv
  <2> QED
    BY <2>1, <2>2, IdsTyped
<1>a. file' = file \o b
  BY <1>0
<1> HIDE DEF b
<1>2. /\ DOMAIN file' = 1..Len(file)+Len(b)
      /\ \A i \in 1..Len(file) : file'[i] = 0
      /\ \A i \in Len(file)+1..Len(file)+Len(b) :
            i - Len(file) \in 1..Len(b) /\ file'[i] = b[i - Len(file)]
  <2>1. /\ DOMAIN (file \o b) = 1..Len(file)+Len(b)
        /\ \A i \in 1..Len(file) : (file \o b)[i] = file[i]
        /\ \A i \in Len(file)+1..Len(file)+Len(b) :
              i - Len(file) \in 1..Len(b) /\ (file \o b)[i] = b[i - Len(file)]
    BY ONLY <1>1, ConcatElements
  <2>3. DOMAIN file = 1..Len(file)
    BY <1>1, SMTT(20)
  <2> QED
    BY <1>0, <1>a, <2>1, <2>3
<1>3. Numbered(file') = Len(file) + 1 .. Len(file) + Len(b)
  <2>1. ASSUME NEW i \in DOMAIN file', file'[i] # 0 PROVE i \in Len(file)+1..Len(file)+Len(b)
    <3>1. i \in 1..Len(file)+Len(b) /\ i \notin 1..Len(file)
      BY ONLY <1>2, <2>1
    <3> QED
      BY ONLY <1>1, <3>1
  <2>2. ASSUME NEW i \in Len(file)+1..Len(file)+Len(b) PROVE i \in DOMAIN file' /\ file'[i] # 0
    <3>1. i \in 1..Len(file)+Len(b)
      BY ONLY <1>1, <2>2
    <3>2. i - Len(file) \in 1..Len(b) /\ file'[i] = b[i - Len(file)]
      BY ONLY <1>2, <2>2
    <3> QED
      BY ONLY <1>1, <1>2, <3>1, <3>2
  <2> QED
    BY ONLY <2>1, <2>2 DEF Numbered
<1>4. InOrder(file')
  <2> SUFFICES ASSUME NEW i \in Len(file)+1..Len(file)+Len(b),
                      NEW j \in Len(file)+1..Len(file)+Len(b), i < j
               PROVE  file'[i] < file'[j]
    BY <1>3 DEF InOrder
  <2> DEFINE x == i - Len(file)
             y == j - Len(file)
  <2>1. x \in 1..Len(b) /\ y \in 1..Len(b) /\ x < y
    BY <1>1, SMTT(20)
  <2>2. x \in Numbered(b) /\ y \in Numbered(b)
    BY <1>1, <2>1, SMTT(20) DEF Numbered
  <2> QED
    BY <1>1, <1>2, <2>1, <2>2 DEF InOrder
<1>5. Before(file', count + 1)
  <2>1. \A i \in 1..Len(b) : b[i] < count + 1
    BY <1>1, SMTT(20) DEF Before
  <2>2. \A i \in DOMAIN file' : i \in 1..Len(file) \/ i \in Len(file)+1..Len(file)+Len(b)
    BY <1>1, <1>2, SMTT(20)
  <2> QED
    BY <1>2, <2>1, <2>2 DEF Before
<1>6. InOrder(Ids(buffer')) /\ Before(Ids(buffer'), count + 1)
  BY <1>0, SMTT(20) DEF InOrder, Before, Numbered, Ids
<1>7. FileInv'
  <2>1. ~buffering
    BY <1>0 DEF FileInv
  <2>2. \A i \in DOMAIN buffer' : buffer'[i].id # 0
    BY <1>0, SMTT(20)
  <2> QED
    BY <1>0, <1>4, <1>5, <1>6, <2>1, <2>2 DEF FileInv, Starting
<1>8. Len(file') = Len(file) + Len(buffer)
  <2>1. Len(file \o b) = Len(file) + Len(b)
    BY ONLY <1>1, ConcatLength
  <2> QED
    BY <1>1, <1>a, <2>1
<1>9. 0 \in Range(file') <=> 0 \in Range(file)
  <2>1. /\ DOMAIN file = 1..Len(file)
        /\ \A i \in DOMAIN file' : i \in 1..Len(file) \/ i \in Len(file)+1..Len(file)+Len(b)
        /\ \A i \in 1..Len(file) : i \in DOMAIN file'
    BY <1>1, <1>2, SMTT(20)
  <2> QED
    BY <1>0, <1>1, <1>2, <2>1, SMTT(20) DEF Range
<1> QED
  BY <1>7, <1>8, <1>9

\* The file and the buffer stay as they should.
LEMMA FileStep ==
  ASSUME Typed, ControlInv, FileInv, [Next]_vars PROVE FileInv'
<1>1. CASE StartLogging
  <2>1. /\ phase' = "flush" /\ UNCHANGED <<file, buffer, count>>
        /\ buffering' = FALSE /\ file = <<>>
    BY <1>1 DEF StartLogging, MainAt, FileInv, Starting
  <2>2. \A i \in DOMAIN buffer : buffer[i].id # 0
    BY DEF FileInv
  <2>3. \A s \in {file, Ids(buffer)} : InOrder(s) /\ Before(s, count + 1)
    BY DEF FileInv
  <2>4. \A i \in DOMAIN file' : file'[i] = 0
    BY <2>1, SMTT(20)
  <2>5. Ids(buffer') = Ids(buffer)
    BY <2>1
  <2> HIDE DEF Ids
  <2> QED
    BY <2>1, <2>2, <2>3, <2>4, <2>5 DEF FileInv, Starting
<1>2. CASE Elsewhere
  <2>0. /\ file \in Seq(Nat) /\ Ids(buffer) \in Seq(Nat) /\ count \in Nat
    <3>1. \A s \in Seq(0..MaxMsgs) : s \in Seq(Nat)
      BY SMTT(20)
    <3> QED
      BY <3>1, IdsTyped, SMTT(20) DEF Typed
  <2>1. ASSUME NEW s \in {file, Ids(buffer)}
        PROVE  /\ InOrder(s) /\ Before(s, count' + 1)
               /\ cur' # Null /\ phase' # "flush" => Before(s, count')
    <3>1. s \in Seq(Nat) /\ InOrder(s) /\ Before(s, count + 1)
      BY <2>0 DEF FileInv
    <3>2. CASE count' = count + 1
      <4>1. Before(s, count + 1 + 1)
        BY <2>0, <3>1, BeforeLater, SMTT(20)
      <4> QED
        BY <3>1, <3>2, <4>1
    <3>3. CASE count' = count /\ cur' = cur
      BY <1>2, <3>1, <3>3 DEF Elsewhere, FileInv
    <3> QED
      BY <1>2, <3>2, <3>3 DEF Elsewhere
  <2>2. phase' = "flush" /\ cur' # Null => file' = <<>>
    BY <1>2 DEF FileInv, Elsewhere
  <2>3. Ids(buffer') = Ids(buffer)
    BY <1>2 DEF Elsewhere
  <2> HIDE DEF Ids
  <2> QED
    BY <1>2, <2>1, <2>2, <2>3 DEF FileInv, Elsewhere
<1> QED
  BY FileSteps, NativeFile, FlushFile, <1>1, <1>2

\* Every message is in the file, in the buffer, under way or discarded.
Inflight == IF cur # Null /\ cur.id # 0 THEN 1 ELSE 0
Notice == IF 0 \in Range(file) THEN 1 ELSE 0
CountInv == count = Inflight + (Len(file) - Notice) + Len(buffer) + discarded

\* Writing a message to the file.
LEMMA WriteCounts ==
  ASSUME NEW s \in Seq(Nat), NEW x \in Nat
  PROVE  /\ Len(Append(s, x)) = Len(s) + 1
         /\ 0 \in Range(Append(s, x)) <=> 0 \in Range(s) \/ x = 0
<1>1. /\ DOMAIN Append(s, x) = 1..Len(s)+1 /\ DOMAIN s = 1..Len(s)
      /\ \A i \in 1..Len(s) : Append(s, x)[i] = s[i]
      /\ Append(s, x)[Len(s) + 1] = x /\ Len(s) \in Nat
  BY SMTT(20)
<1>2. \A i \in 1..Len(s)+1 : i \in 1..Len(s) \/ i = Len(s) + 1
  BY <1>1, SMTT(20)
<1>3. Len(s) + 1 \in 1..Len(s)+1 /\ \A i \in 1..Len(s) : i \in 1..Len(s)+1
  BY <1>1, SMTT(20)
<1> QED
  BY <1>1, <1>2, <1>3, SMTT(20) DEF Range

\* No message is lost without being counted.
LEMMA CountStep ==
  ASSUME Typed, ControlInv, FileInv, CountInv, [Next]_vars PROVE CountInv'
<1>0. /\ count \in Nat /\ discarded \in Nat /\ Len(buffer) \in Nat /\ Len(file) \in Nat
      /\ Notice \in 0..1
  BY SMTT(20) DEF Typed, Notice
<1>1. ASSUME NEW t \in Threads, LogNative(t) PROVE CountInv'
  <2>0. /\ cur' = Null /\ count' = count /\ cur \in Msg /\ cur # Null /\ cur.id \in Nat
        /\ cur.id = 0 <=> phase = "flush"
    BY <1>1, MsgNotNull, SMTT(20) DEF LogNative, ControlInv, Typed
  <2>1. Inflight = (IF cur.id # 0 THEN 1 ELSE 0) /\ Inflight' = 0
    BY <2>0 DEF Inflight
  <2>2. CASE buffering
    <3>1. PICK k \in Overflow(Append(buffer, cur)) :
             /\ buffer' = Without(Append(buffer, cur), k)
             /\ discarded' = discarded + k
      BY <1>1, <2>2 DEF LogNative
    <3> DEFINE b == Append(buffer, cur)
    <3>2. b \in Seq(Msg) /\ k \in 0..Len(b) /\ Len(b) = Len(buffer) + 1
      BY <2>0, <3>1, SMTT(20) DEF Typed, Overflow
    <3>3. buffer' = Without(b, k) /\ file' = file /\ cur.id # 0 /\ Notice' = Notice
      BY <1>1, <2>0, <2>2, <3>1 DEF LogNative, FileInv, Notice
    <3> HIDE DEF b
    <3>4. Len(buffer') = Len(b) - k
      BY <3>2, <3>3, WithoutTyped
    <3> QED
      BY <1>0, <2>0, <2>1, <3>1, <3>2, <3>3, <3>4, SMTT(20) DEF CountInv
  <2>3. CASE ~buffering
    <3>1. UNCHANGED <<buffer, discarded>> /\ file' = Append(file, cur.id)
      BY <1>1, <2>3 DEF LogNative
    <3>2. file \in Seq(Nat)
      <4>1. \A s \in Seq(0..MaxMsgs) : s \in Seq(Nat)
        BY SMTT(20)
      <4> QED
        BY <4>1 DEF Typed
    <3>3. /\ Len(file') = Len(file) + 1
          /\ 0 \in Range(file') <=> 0 \in Range(file) \/ cur.id = 0
      BY <2>0, <3>1, <3>2, WriteCounts
    <3>4. cur.id = 0 => ~(0 \in Range(file))
      BY <2>0, SMTT(20) DEF FileInv, Range
    <3>5. Notice' = IF cur.id = 0 THEN Notice + 1 ELSE Notice
      BY <3>3, <3>4, SMTT(20) DEF Notice
    <3>6. CASE cur.id = 0
      BY <1>0, <2>0, <2>1, <3>1, <3>3, <3>5, <3>6, SMTT(20) DEF CountInv
    <3>7. CASE cur.id # 0
      BY <1>0, <2>0, <2>1, <3>1, <3>3, <3>5, <3>7, SMTT(20) DEF CountInv
    <3> QED
      BY <3>6, <3>7
  <2> QED
    BY <2>2, <2>3
<1>2. CASE StartLogging
  <2>1. cur = Null /\ UNCHANGED <<count, buffer, discarded, file>>
    BY <1>2 DEF StartLogging, ControlInv, Threads
  <2>2. Inflight = 0 /\ Inflight' = 0 /\ Notice' = Notice
    BY <1>2, <2>1, SMTT(20) DEF Inflight, Notice, StartLogging
  <2> QED
    BY <2>1, <2>2 DEF CountInv
<1>3. CASE FlushEarlyBuffer
  <2>1. UNCHANGED <<count, discarded, cur>> /\ Len(buffer') = 0
    BY <1>3 DEF FlushEarlyBuffer
  <2>2. Inflight' = Inflight /\ Inflight \in Nat
    BY <2>1 DEF Inflight
  <2>3. Len(file') = Len(file) + Len(buffer) /\ Notice' = Notice
    BY <1>3, FlushFile DEF Notice
  <2> QED
    BY <1>0, <2>1, <2>2, <2>3, SMTT(20) DEF CountInv
<1>4. CASE Elsewhere
  <2>0. Notice' = Notice /\ UNCHANGED <<file, buffer, discarded>>
    BY <1>4 DEF Elsewhere, Notice
  <2>1. CASE count' = count /\ cur' = cur
    BY <2>0, <2>1 DEF CountInv, Inflight
  <2>2. CASE count' = count + 1 /\ cur = Null /\ cur' # Null /\ cur'.id = count'
    <3>1. Inflight = 0 /\ Inflight' = 1
      BY <1>0, <2>2, SMTT(20) DEF Inflight
    <3> QED
      BY <1>0, <2>0, <2>2, <3>1, SMTT(20) DEF CountInv
  <2> QED
    BY <1>4, <2>1, <2>2 DEF Elsewhere
<1> QED
  BY FileSteps, <1>1, <1>2, <1>3, <1>4

-----------------------------------------------------------------------------
(* The runtime *)

\* AppInit's own reference is never given back.
LEMMA RuntimeStep ==
  ASSUME Typed, Flags, RuntimeInv, [Next]_vars PROVE RuntimeInv'
<1> USE DEF rt
<1>0. held \in [{Main} -> 0..2] /\ held[Main] \in 0..2
  BY DEF Typed
<1>1. ASSUME UNCHANGED <<held, live, early>>,
             early => /\ phase' # "boot"
                      /\ phase' \in {"bridge", "done", "exited"} \/ held[Main] = 2
      PROVE  RuntimeInv'
  BY <1>1 DEF RuntimeInv
<1>2. CASE UNCHANGED <<held, live, early, phase>>
  BY <1>2 DEF RuntimeInv
<1>3. ASSUME NEW t \in Threads, LogBegin(t) \/ BridgeLog(t) \/ TryAdd(t) \/ LogNative(t)
      PROVE  UNCHANGED <<held, live, early, phase>>
  BY <1>3 DEF LogBegin, BridgeLog, TryAdd, LogNative
<1>4. CASE Consume \/ UNCHANGED vars
  BY <1>2, <1>4 DEF Consume, vars
<1>5. CASE \/ StartLogging \/ FlushEarlyBuffer \/ LoadLog \/ LoadShutdown
           \/ Daemonize \/ InitFails \/ BeginShutdown \/ ManagedShutdown \/ Exit
  <2>1. /\ UNCHANGED <<held, live, early>>
        /\ phase \notin {"boot", "bridge"} /\ phase' # "boot"
        /\ phase' \in {"done", "exited"} <=> phase \in {"done", "exited"}
    BY <1>5 DEF StartLogging, FlushEarlyBuffer, LoadLog, LoadShutdown, Daemonize,
       InitFails, BeginShutdown, ManagedShutdown, Exit, MainAt
  <2> QED
    BY <1>1, <2>1 DEF RuntimeInv
<1>6. CASE FxrInitEarly
  <2>1. phase = "boot" /\ phase' = "bridge" /\ ~early
    BY <1>6 DEF FxrInitEarly, MainAt, RuntimeInv
  <2>2. CASE UNCHANGED <<held, live, early>>
    BY <2>1, <2>2, <1>1
  <2>3. CASE R!Acquire(Main) /\ early' = TRUE
    BY <1>0, <2>1, <2>3, SMTT(20) DEF R!Acquire, RuntimeInv
  <2> QED
    BY <1>6, <2>2, <2>3 DEF FxrInitEarly
<1>7. CASE LoggingInit
  <2>1. phase = "bridge" /\ phase' # "boot" /\ early' = early
    BY <1>7 DEF LoggingInit, MainAt
  <2>2. CASE ~live /\ UNCHANGED <<held, live>>
    BY <2>1, <2>2 DEF RuntimeInv
  <2>3. CASE R!Acquire(Main)
    <3>1. held'[Main] = held[Main] + 1 /\ held'[Main] \in 0..2 /\ live'
      BY <1>0, <2>3, SMTT(20) DEF R!Acquire
    <3> QED
      BY <1>0, <2>1, <3>1, SMTT(20) DEF RuntimeInv
  <2> QED
    BY <1>7, <2>2, <2>3 DEF LoggingInit
<1>8. CASE FxrShutdown
  <2>1. phase = "release" /\ phase' = "done" /\ early' = early
    BY <1>8 DEF FxrShutdown, MainAt
  <2>2. CASE held[Main] = 0 /\ UNCHANGED <<held, live>>
    BY <2>1, <2>2 DEF RuntimeInv
  <2>3. CASE R!Release(Main)
    <3>1. held'[Main] = held[Main] - 1 /\ (live' <=> held'[Main] > 0)
      BY <1>0, <2>3 DEF R!Release
    <3> QED
      BY <1>0, <2>1, <3>1, SMTT(20) DEF RuntimeInv
  <2> QED
    BY <1>8, <2>2, <2>3 DEF FxrShutdown
<1> QED
  BY Steps, <1>2, <1>3, <1>4, <1>5, <1>6, <1>7, <1>8 DEF Plain

-----------------------------------------------------------------------------
(* The properties *)

IInv ==
    /\ Typed /\ Flags /\ ControlInv
    /\ SinkInv /\ AddingInv /\ OrderInv
    /\ FileInv /\ CountInv /\ RuntimeInv

\* The state in which the process starts satisfies the inductive invariant.
LEMMA InitIInv == Init => IInv
<1> SUFFICES ASSUME Init PROVE IInv
  OBVIOUS
<1> USE DEF Init
<1>1. Typed
  BY SMTT(20) DEF Typed, Phases, R!RtInit
<1>2. Flags
  BY DEF Flags, R!RtInit
<1>3. ControlInv
  BY DEF ControlInv
<1>4. SinkInv /\ AddingInv
  BY DEF SinkInv, AddingInv
<1>5. OrderInv
  <2>1. <<>> \o <<>> = <<>>
    BY SMTT(20)
  <2>2. Bridged = <<>>
    BY <2>1 DEF Bridged
  <2> QED
    BY <2>2, SMTT(20) DEF OrderInv, InOrder, Before, Numbered
<1>6. Ids(buffer) = <<>>
  BY SMTT(20) DEF Ids
<1>7. FileInv
  BY <1>6, SMTT(20) DEF FileInv, InOrder, Before, Numbered, Starting
<1>8. CountInv
  <2>1. ~(0 \in Range(file)) /\ Len(file) = 0 /\ Len(buffer) = 0
    BY SMTT(20) DEF Range
  <2> QED
    BY <2>1, SMTT(20) DEF CountInv, Inflight, Notice
<1>9. RuntimeInv
  BY SMTT(20) DEF RuntimeInv, R!RtInit
<1> QED
  BY <1>1, <1>2, <1>3, <1>4, <1>5, <1>7, <1>8, <1>9 DEF IInv

\* Every step of the logging threads, the consumer and the main thread keeps
\* the inductive invariant.
LEMMA NextIInv == IInv /\ [Next]_vars => IInv'
<1> SUFFICES ASSUME IInv, [Next]_vars PROVE IInv'
  OBVIOUS
<1>1. Typed'
  BY TypedStep DEF IInv
<1> QED
  BY <1>1, FlagsStep, ControlStep, SinkStep, OrderStep, FileStep, CountStep,
     RuntimeStep DEF IInv

\* The inductive invariant holds in every reachable state.
THEOREM LogBridgeInvariant == Spec => []IInv
BY InitIInv, NextIInv, PTL DEF Spec

\* Messages keep the order in which LogPrintStr took m_cs in both sinks, and
\* the bridge hands each to exactly one place.
THEOREM LogDeliveredInOrder == Spec => []DeliveredInOrder
<1>1. IInv => DeliveredInOrder
  <2> SUFFICES ASSUME IInv PROVE DeliveredInOrder
    OBVIOUS
  <2>0. OrderInv /\ FileInv /\ Typed
    BY DEF IInv
  <2>1. InOrder(errout \o out \o queue \o dropped)
    BY <2>0 DEF OrderInv, Bridged
  <2> DEFINE b == Ids(buffer)
  <2>2. /\ file \in Seq(0..MaxMsgs) /\ b \in Seq(0..MaxMsgs)
        /\ InOrder(file) /\ InOrder(b)
    BY <2>0, IdsTyped DEF FileInv, Typed
  <2>3. ASSUME \A i \in DOMAIN file : file[i] = 0 PROVE InOrder(file \o b)
    <3> HIDE DEF b
    <3>1. ASSUME NEW i \in Numbered(file \o b), NEW j \in Numbered(file \o b), i < j
          PROVE  (file \o b)[i] < (file \o b)[j]
      <4>1. /\ DOMAIN (file \o b) = 1..Len(file)+Len(b)
            /\ \A k \in 1..Len(file) : (file \o b)[k] = file[k]
            /\ \A k \in Len(file)+1..Len(file)+Len(b) :
                  k - Len(file) \in 1..Len(b) /\ (file \o b)[k] = b[k - Len(file)]
            /\ Len(file) \in Nat /\ Len(b) \in Nat /\ DOMAIN b = 1..Len(b)
            /\ DOMAIN file = 1..Len(file)
        BY <2>2, ConcatElements, SMTT(20)
      <4> DEFINE x == i - Len(file)
                 y == j - Len(file)
      <4>2. i \in Len(file)+1..Len(file)+Len(b) /\ j \in Len(file)+1..Len(file)+Len(b)
        BY <2>3, <4>1, SMTT(20) DEF Numbered
      <4>3. /\ x \in Numbered(b) /\ y \in Numbered(b) /\ x < y
            /\ (file \o b)[i] = b[x] /\ (file \o b)[j] = b[y]
        BY <3>1, <4>1, <4>2, SMTT(20) DEF Numbered
      <4> QED
        BY <2>2, <4>3 DEF InOrder
    <3> QED
      BY <3>1 DEF InOrder
  <2>4. ASSUME b = <<>> PROVE InOrder(file \o b)
    BY <2>2, <2>4, Concatenations, SMTT(20)
  <2>5. (\A i \in DOMAIN file : file[i] = 0) \/ b = <<>>
    BY <2>0, SMTT(20) DEF FileInv, Ids
  <2> QED
    BY <2>1, <2>3, <2>4, <2>5 DEF DeliveredInOrder
<1> QED
  BY <1>1, LogBridgeInvariant, PTL

\* No message is lost on its way to debug.log without being counted.
THEOREM LogDebugLogComplete == Spec => []DebugLogComplete
<1>1. IInv => DebugLogComplete
  <2> SUFFICES ASSUME IInv PROVE DebugLogComplete
    OBVIOUS
  <2>1. /\ count \in Nat /\ discarded \in Nat /\ Len(buffer) \in Nat
        /\ Len(file) \in Nat /\ Notice \in Nat /\ Inflight \in Nat
    BY SMTT(20) DEF IInv, Typed, Inflight, Notice
  <2>2. count - Inflight = Len(file) - Notice + Len(buffer) + discarded
    BY <2>1, SMTT(20) DEF IInv, CountInv
  <2> QED
    BY <2>2 DEF DebugLogComplete, Inflight, Notice
<1> QED
  BY <1>1, LogBridgeInvariant, PTL

\* A thread that still calls the managed sink finds the runtime open, and
\* Shutdown gives back no reference that nobody took.
THEOREM LogLateLogFindsRuntime == Spec => []LateLogFindsRuntime
<1>1. IInv => LateLogFindsRuntime
  <2> SUFFICES ASSUME IInv PROVE LateLogFindsRuntime
    OBVIOUS
  <2>0. Typed /\ Flags /\ CountInv /\ RuntimeInv
    BY DEF IInv
  <2>1. discarded \in 0..MaxMsgs
    <3>1. /\ count \in 0..MaxMsgs /\ discarded \in Nat /\ Len(buffer) \in Nat
          /\ Len(file) - Notice \in Nat /\ Inflight \in Nat
      <4>1. 0 \in Range(file) => Len(file) # 0
        BY <2>0, SMTT(20) DEF Typed, Range
      <4> QED
        BY <2>0, <4>1, SMTT(20) DEF Typed, Inflight, Notice
    <3> QED
      BY <2>0, <3>1, SMTT(20) DEF CountInv
  <2>2. /\ Range(buffer) \subseteq Msg
        /\ \A s \in {file, queue, out, errout, dropped} : Range(s) \subseteq 0..MaxMsgs
    BY <2>0, SMTT(20) DEF Typed, Range
  <2>3. TypeOK
    BY <2>0, <2>1, <2>2 DEF TypeOK, Typed, Flags
  <2>4. \A t \in Threads : early /\ slog /\ lpc[t] \in {"bridge", "adding"} => live
    BY <2>0 DEF RuntimeInv
  <2> QED
    BY <2>3, <2>4 DEF LateLogFindsRuntime
<1> QED
  BY <1>1, LogBridgeInvariant, PTL

=============================================================================
