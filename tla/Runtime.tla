------------------------------- MODULE Runtime -------------------------------
(***************************************************************************)
(* What the header hostfxr_bridge.h promises of the .NET host, with every  *)
(* call atomic: a reference-counted runtime that is usable exactly while   *)
(* somebody holds a reference.  HostFxr implements it as long as no        *)
(* shutdown overlaps with another call; LogBridge is built on it.          *)
(***************************************************************************)
EXTENDS Naturals

CONSTANTS Clients,      \* whoever takes references
          MaxRefs       \* bound: references one client takes

VARIABLES held,         \* references each client holds
          live          \* the runtime is initialized and not closed

rtVars == <<held, live>>

RtInit ==
    /\ held = [c \in Clients |-> 0]
    /\ live = FALSE

\* A successful init (a failed one changes nothing).
Acquire(c) ==
    /\ held[c] < MaxRefs
    /\ held' = [held EXCEPT ![c] = @ + 1]
    /\ live' = TRUE

\* A shutdown: the last reference closes the runtime.
Release(c) ==
    /\ held[c] > 0
    /\ held' = [held EXCEPT ![c] = @ - 1]
    /\ live' = (\E d \in Clients : held'[d] > 0)

RtNext == \E c \in Clients : Acquire(c) \/ Release(c)

RtSpec == RtInit /\ [][RtNext]_rtVars

=============================================================================
