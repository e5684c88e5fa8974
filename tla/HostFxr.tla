------------------------------- MODULE HostFxr -------------------------------
(***************************************************************************)
(* The reference-counted .NET host of hostfxr_bridge.cpp.                  *)
(*                                                                         *)
(* fxr_init_from_runtimeconfig, fxr_load_umco and fxr_shutdown share the   *)
(* globals g_refcount (an atomic), g_lock (a mutex), g_fxr (the exports of *)
(* the dlopened library), g_ctx (the host context) and                     *)
(* g_load_asm_and_get_ptr.  The reference count is read and written        *)
(* outside the mutex as well as inside it, so every atomic access and      *)
(* every critical section is a step of its own and any number of threads   *)
(* may be inside the three functions at once.                              *)
(*                                                                         *)
(* The library behind g_fxr is external: initialize hands out a context    *)
(* that is not open yet or fails, get_runtime_delegate succeeds or fails.  *)
(***************************************************************************)
EXTENDS Integers, FiniteSets

CONSTANTS Threads,      \* the native threads that use the bridge
          Contexts,     \* host contexts the library can hand out
          Null,         \* nullptr
          MaxRefs,      \* bound: references one thread takes
          Overlapping   \* bound: the threads that call when shutdowns overlap

ASSUME HostFxrAssumption ==
    /\ Null \notin Threads \cup Contexts
    /\ IsFiniteSet(Threads)
    /\ MaxRefs \in Nat
    /\ Overlapping \subseteq Threads

VARIABLES refcount,     \* g_refcount
          lock,         \* the thread that holds g_lock, or Null
          fxr,          \* g_fxr.lib_handle # nullptr
          ctx,          \* g_ctx
          loadfn,       \* the context g_load_asm_and_get_ptr belongs to
          open,         \* contexts initialized and not closed (external)
          pc,           \* where each thread is
          refs,         \* successful inits minus shutdowns of each thread
          fnptr,        \* the context of the method pointer a thread loaded
          fn,           \* g_load_asm_and_get_ptr as a thread last read it
          callers       \* whether shutdowns may overlap with other calls

globals == <<refcount, lock, fxr, ctx, loadfn, open>>
vars == <<refcount, lock, fxr, ctx, loadfn, open, pc, refs, fnptr, fn,
          callers>>

PCs == {"idle", "fast_add", "init_lock", "recheck", "locked_add", "exports",
        "initialize", "delegate", "publish", "shut_sub", "shut_lock",
        "close", "load_test", "load_call", "crashed"}

Init ==
    /\ refcount = 0
    /\ lock = Null
    /\ fxr = FALSE
    /\ ctx = Null
    /\ loadfn = Null
    /\ open = {}
    /\ pc = [t \in Threads |-> "idle"]
    /\ refs = [t \in Threads |-> 0]
    /\ fnptr = [t \in Threads |-> Null]
    /\ fn = [t \in Threads |-> Null]
    /\ callers \in {"apart", "overlapping"}

Goto(t, from, to) ==
    /\ pc[t] = from
    /\ pc' = [pc EXCEPT ![t] = to]

Unlock == lock' = Null

\* Callers that are "apart" keep fxr_shutdown away from the other calls (the
\* node makes both from its main thread); their inits may overlap each other.
NobodyIn(pcs) == \A t \in Threads : pc[t] \notin pcs
MayCall(t) ==
    IF callers = "overlapping" THEN t \in Overlapping
    ELSE NobodyIn({"shut_sub", "shut_lock", "close"})
MayShutdown(t) ==
    IF callers = "overlapping" THEN t \in Overlapping
    ELSE NobodyIn(PCs \ {"idle"})

-----------------------------------------------------------------------------
(* fxr_init_from_runtimeconfig *)

\* The unlocked test of the reference count.
InitCheck(t) ==
    /\ MayCall(t)
    /\ refs[t] < MaxRefs
    /\ Goto(t, "idle", IF refcount > 0 THEN "fast_add" ELSE "init_lock")
    /\ UNCHANGED <<globals, refs, fnptr, fn>>

\* fetch_add on the unlocked path.
InitFastAdd(t) ==
    /\ Goto(t, "fast_add", "idle")
    /\ refcount' = refcount + 1
    /\ refs' = [refs EXCEPT ![t] = @ + 1]
    /\ UNCHANGED <<lock, fxr, ctx, loadfn, open, fnptr, fn>>

InitLock(t) ==
    /\ Goto(t, "init_lock", "recheck")
    /\ lock = Null
    /\ lock' = t
    /\ UNCHANGED <<refcount, fxr, ctx, loadfn, open, refs, fnptr, fn>>

\* The second test, under the mutex.
InitRecheck(t) ==
    /\ Goto(t, "recheck", IF refcount > 0 THEN "locked_add" ELSE "exports")
    /\ UNCHANGED <<globals, refs, fnptr, fn>>

InitLockedAdd(t) ==
    /\ Goto(t, "locked_add", "idle")
    /\ refcount' = refcount + 1
    /\ refs' = [refs EXCEPT ![t] = @ + 1]
    /\ Unlock
    /\ UNCHANGED <<fxr, ctx, loadfn, open, fnptr, fn>>

\* load_hostfxr_exports: success; no library (g_fxr untouched); a library
\* without the exports (g_fxr cleared).
InitExports(t) ==
    /\ \/ Goto(t, "exports", "initialize") /\ fxr' = TRUE /\ UNCHANGED lock
       \/ Goto(t, "exports", "idle") /\ fxr' \in {fxr, FALSE} /\ Unlock
    /\ UNCHANGED <<refcount, ctx, loadfn, open, refs, fnptr, fn>>

\* g_fxr.initialize: success; an error without a context; a nonzero return
\* code although a context was handed out, which is not closed.
InitInitialize(t) ==
    /\ \/ \E c \in Contexts \ open :
            /\ ctx' = c
            /\ open' = open \cup {c}
            /\ \/ Goto(t, "initialize", "delegate") /\ UNCHANGED lock
               \/ Goto(t, "initialize", "idle") /\ Unlock
       \/ /\ Goto(t, "initialize", "idle")
          /\ ctx' = Null
          /\ Unlock
          /\ UNCHANGED open
    /\ UNCHANGED <<refcount, fxr, loadfn, refs, fnptr, fn>>

\* g_fxr.get_delegate: the delegate is stored, or the context is closed.
InitDelegate(t) ==
    /\ \/ /\ Goto(t, "delegate", "publish")
          /\ loadfn' = ctx
          /\ UNCHANGED <<lock, ctx, open>>
       \/ /\ Goto(t, "delegate", "idle")
          /\ open' = open \ {ctx}
          /\ ctx' = Null
          /\ Unlock
          /\ UNCHANGED loadfn
    /\ UNCHANGED <<refcount, fxr, refs, fnptr, fn>>

\* InitPublish_NoStore: the store of the count is missing.
InitPublish_NoStore(t) ==
    /\ Goto(t, "publish", "idle")
    /\ refs' = [refs EXCEPT ![t] = @ + 1]
    /\ Unlock
    /\ UNCHANGED <<refcount, fxr, ctx, loadfn, open, fnptr, fn>>

\* g_refcount.store(1), return true.
InitPublish(t) ==
    /\ Goto(t, "publish", "idle")
    /\ refcount' = 1
    /\ refs' = [refs EXCEPT ![t] = @ + 1]
    /\ Unlock
    /\ UNCHANGED <<fxr, ctx, loadfn, open, fnptr, fn>>

-----------------------------------------------------------------------------
(* fxr_load_umco reads g_ctx and g_load_asm_and_get_ptr without the mutex, a
   data race with init and shutdown.  The build may read the second global
   early, with the first, and may read it again for the call; each read gives
   the value before or after a racing write. *)

\* LoadReadCtx_Once: the delegate is remembered from an earlier load.
LoadReadCtx_Once(t) ==
    /\ MayCall(t)
    /\ refs[t] > 0
    /\ ctx # Null
    /\ Goto(t, "idle", "load_test")
    /\ fn' = [fn EXCEPT ![t] = IF @ # Null THEN @ ELSE loadfn]
    /\ UNCHANGED <<globals, refs, fnptr>>

\* The test of g_ctx.  The callers load after a successful init.
LoadReadCtx(t) ==
    /\ MayCall(t)
    /\ refs[t] > 0
    /\ ctx # Null
    /\ Goto(t, "idle", "load_test")
    /\ fn' = [fn EXCEPT ![t] = loadfn]
    /\ UNCHANGED <<globals, refs, fnptr>>

\* The test of g_load_asm_and_get_ptr.
LoadReadFn(t) ==
    /\ \E f \in {fn[t], loadfn} :
          /\ Goto(t, "load_test", IF f = Null THEN "idle" ELSE "load_call")
          /\ fn' = [fn EXCEPT ![t] = f]
    /\ UNCHANGED <<globals, refs, fnptr>>

\* The call: a null pointer ends the process; otherwise the library finds the
\* method or not.
LoadCall(t) ==
    /\ \E f \in {fn[t], loadfn} :
          \/ /\ f = Null
             /\ Goto(t, "load_call", "crashed")
             /\ UNCHANGED fnptr
          \/ /\ f # Null
             /\ Goto(t, "load_call", "idle")
             /\ \E p \in {f, Null} : fnptr' = [fnptr EXCEPT ![t] = p]
    /\ UNCHANGED <<globals, refs, fn>>

-----------------------------------------------------------------------------
(* fxr_shutdown *)

\* Gives back one reference of t and the pointers loaded under it.
GiveBack(t) ==
    /\ refs' = [refs EXCEPT ![t] = @ - 1]
    /\ fnptr' = [fnptr EXCEPT ![t] = Null]
    /\ UNCHANGED fn

ShutdownCheck(t) ==
    /\ MayShutdown(t)
    /\ refs[t] > 0
    /\ \/ /\ refcount > 0
          /\ Goto(t, "idle", "shut_sub")
          /\ UNCHANGED <<refs, fnptr, fn>>
       \/ /\ refcount <= 0
          /\ pc[t] = "idle"
          /\ GiveBack(t)
          /\ UNCHANGED pc
    /\ UNCHANGED globals

ShutdownSub(t) ==
    /\ Goto(t, "shut_sub", IF refcount = 1 THEN "shut_lock" ELSE "idle")
    /\ refcount' = refcount - 1
    /\ GiveBack(t)
    /\ UNCHANGED <<lock, fxr, ctx, loadfn, open>>

\* ShutdownLock_NoMutex: the runtime is closed without g_lock.
ShutdownLock_NoMutex(t) ==
    /\ Goto(t, "shut_lock", "close")
    /\ lock' = t
    /\ UNCHANGED <<refcount, fxr, ctx, loadfn, open, refs, fnptr, fn>>

ShutdownLock(t) ==
    /\ Goto(t, "shut_lock", "close")
    /\ lock = Null
    /\ lock' = t
    /\ UNCHANGED <<refcount, fxr, ctx, loadfn, open, refs, fnptr, fn>>

ShutdownClose(t) ==
    /\ Goto(t, "close", "idle")
    /\ open' = open \ {ctx}
    /\ ctx' = Null
    /\ loadfn' = IF ctx # Null THEN Null ELSE loadfn
    /\ fxr' = FALSE
    /\ Unlock
    /\ UNCHANGED <<refcount, refs, fnptr, fn>>

-----------------------------------------------------------------------------
Step(t) ==
    \/ InitCheck(t) \/ InitFastAdd(t) \/ InitLock(t) \/ InitRecheck(t)
    \/ InitLockedAdd(t) \/ InitExports(t) \/ InitInitialize(t)
    \/ InitDelegate(t) \/ InitPublish(t)
    \/ LoadReadCtx(t) \/ LoadReadFn(t) \/ LoadCall(t)
    \/ ShutdownCheck(t) \/ ShutdownSub(t) \/ ShutdownLock(t)
    \/ ShutdownClose(t)

\* A crashed process does nothing more.
Alive == NobodyIn({"crashed"})
Crashed == ~Alive /\ UNCHANGED vars

Next ==
    \/ Alive /\ (\E t \in Threads : Step(t)) /\ UNCHANGED callers
    \/ Crashed

Spec == Init /\ [][Next]_vars

-----------------------------------------------------------------------------
\* The globals and each thread's references have their types: no thread holds a
\* negative number of references, however init and shutdown interleave.
TypeOK ==
    /\ refcount \in Int
    /\ lock \in Threads \cup {Null}
    /\ fxr \in BOOLEAN
    /\ ctx \in Contexts \cup {Null}
    /\ loadfn \in Contexts \cup {Null}
    /\ open \subseteq Contexts
    /\ pc \in [Threads -> PCs]
    /\ refs \in [Threads -> 0..MaxRefs]
    /\ fnptr \in [Threads -> Contexts \cup {Null}]
    /\ fn \in [Threads -> Contexts \cup {Null}]
    /\ callers \in {"apart", "overlapping"}

\* The exports are loaded, the context is open and the loader delegate is its.
Usable == fxr /\ ctx \in open /\ loadfn = ctx

\* fxr_load_umco calls the delegate of the open context, whichever of its
\* unlocked reads the build uses (hostfxr_bridge.cpp:167-183), again with
\* shutdowns kept apart.
LoadCallsOpenRuntime ==
    callers = "apart" =>
        \A t \in Threads :
            pc[t] = "load_call" => fn[t] = loadfn /\ loadfn \in open

CloseTarget(t) == pc[t] \in {"delegate", "close"} /\ ctx # Null

\* hostfxr_close is only ever called on a context that is open, never twice on
\* the same one, whatever the threads do: both call sites run under g_lock.
ClosesOpenContext == \A t \in Threads : CloseTarget(t) => ctx \in open

\* A thread that is initializing the runtime under g_lock is not disturbed by a
\* concurrent fxr_shutdown or a second initialization: from initialize to the
\* store of the count the exports stay loaded and its context stays open.
InitUndisturbed ==
    \A t \in Threads :
        /\ pc[t] \in {"initialize", "delegate", "publish"} => fxr
        /\ pc[t] \in {"delegate", "publish"} => ctx # Null /\ ctx \in open
        /\ pc[t] = "publish" => loadfn = ctx

\* The reference-counted runtime the header promises, usable while the count
\* is positive and the globals are consistent.  Overlapping shutdowns are
\* outside of the promise and map to a runtime nobody uses.
Kept(held) == [t \in Threads |-> IF callers = "apart" THEN held[t] ELSE 0]
Abstract == INSTANCE Runtime WITH
                Clients <- Threads, held <- Kept(refs),
                live <- callers = "apart" /\ refcount > 0 /\ Usable

\* fxr_init / fxr_shutdown implement that runtime.
ImplementsRuntime == Abstract!RtSpec

=============================================================================
