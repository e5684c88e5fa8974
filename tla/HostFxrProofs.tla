---------------------------- MODULE HostFxrProofs ----------------------------
(***************************************************************************)
(* Safety of the critical sections of hostfxr_bridge.cpp for any set of    *)
(* threads and contexts.  Neither TypeOK nor InitUndisturbed is inductive: *)
(* a thread between the test and the update of the count must be known to  *)
(* hold (or to have room for) the reference it is about to give back (or   *)
(* take), and without mutual exclusion a thread at "close" could clear     *)
(* g_ctx under an initializing one.  IInv adds both.  The second part is   *)
(* about callers that keep shutdowns apart from other calls: ApartInv says *)
(* that the count is then the number of references held, and from it       *)
(* follow LoadCallsOpenRuntime and the refinement of Runtime.              *)
(***************************************************************************)
EXTENDS HostFxr, FiniteSetTheorems, TLAPS

\* Provers and seconds for the steps that name no prover of their own.
USE ZenonT(10), SMTT(20)

Critical == {"recheck", "locked_add", "exports", "initialize", "delegate",
             "publish", "close"}

\* g_lock is held by t exactly while t is in a critical section.
MutexInv == \A t \in Threads : pc[t] \in Critical <=> lock = t

\* Between the test and the update of the count a thread has the reference
\* it gives back, or room for the one it takes.
RefsInv ==
    \A t \in Threads :
        /\ pc[t] = "shut_sub" => refs[t] > 0
        /\ pc[t] \in {"fast_add", "init_lock", "recheck", "locked_add",
                      "exports", "initialize", "delegate", "publish"}
              => refs[t] < MaxRefs

\* g_ctx, when set, is an open context.
CtxInv == ctx # Null => ctx \in open

IInv == TypeOK /\ MutexInv /\ RefsInv /\ CtxInv /\ InitUndisturbed

\* The initial state satisfies the inductive invariant.
LEMMA InitIInv == Init => IInv
<1> SUFFICES ASSUME Init PROVE IInv
  OBVIOUS
<1> USE HostFxrAssumption DEF Init
<1>1. TypeOK
  <2>1. fxr \in BOOLEAN
    OBVIOUS
  <2>2. refs \in [Threads -> 0..MaxRefs]
    BY SMTT(20)
  <2>3. pc \in [Threads -> PCs]
    BY DEF PCs
  <2> QED
    BY <2>1, <2>2, <2>3, SMTT(20) DEF TypeOK
<1>2. MutexInv
  <2>1. \A t \in Threads : lock # t
    OBVIOUS
  <2> QED
    BY <2>1 DEF MutexInv, Critical
<1>3. RefsInv   BY DEF RefsInv
<1>4. CtxInv    BY DEF CtxInv
<1>5. InitUndisturbed  BY DEF InitUndisturbed
<1> QED
  BY <1>1, <1>2, <1>3, <1>4, <1>5 DEF IInv

\* Every step of a thread keeps the types and the reference bounds.
LEMMA TypeStep ==
  ASSUME TypeOK, RefsInv, NEW t \in Threads, Step(t), UNCHANGED callers
  PROVE  TypeOK' /\ RefsInv'
<1> USE HostFxrAssumption DEF TypeOK, RefsInv, PCs, globals, Goto, Unlock
<1>1. CASE InitCheck(t)     BY <1>1 DEF InitCheck
<1>2. CASE InitFastAdd(t)   BY <1>2, SMTT(20) DEF InitFastAdd
<1>3. CASE InitLock(t)      BY <1>3 DEF InitLock
<1>4. CASE InitRecheck(t)   BY <1>4 DEF InitRecheck
<1>5. CASE InitLockedAdd(t) BY <1>5, SMTT(20) DEF InitLockedAdd
<1>6. CASE InitExports(t)
  <2>1. fxr' \in BOOLEAN
    BY <1>6 DEF InitExports
  <2>2. UNCHANGED <<refcount, ctx, loadfn, open, refs, fnptr, fn>>
    BY <1>6 DEF InitExports
  <2>3. lock' \in {lock, Null} /\ pc[t] = "exports"
        /\ \E x \in {"initialize", "idle"} : pc' = [pc EXCEPT ![t] = x]
    BY <1>6 DEF InitExports
  <2> QED
    BY <2>1, <2>2, <2>3, SMTT(20)
<1>7. CASE InitInitialize(t) BY <1>7 DEF InitInitialize
<1>8. CASE InitDelegate(t)  BY <1>8, SMTT(20) DEF InitDelegate
<1>9. CASE InitPublish(t)   BY <1>9, SMTT(20) DEF InitPublish
<1>10. CASE LoadReadCtx(t)  BY <1>10 DEF LoadReadCtx
<1>15. CASE LoadReadFn(t)   BY <1>15, SMTT(20) DEF LoadReadFn
<1>16. CASE LoadCall(t)     BY <1>16, SMTT(20) DEF LoadCall
<1>11. CASE ShutdownCheck(t) BY <1>11, SMTT(20) DEF ShutdownCheck, GiveBack
<1>12. CASE ShutdownSub(t)  BY <1>12, SMTT(20) DEF ShutdownSub, GiveBack
<1>13. CASE ShutdownLock(t) BY <1>13 DEF ShutdownLock
<1>14. CASE ShutdownClose(t) BY <1>14 DEF ShutdownClose
<1> QED
  BY <1>1, <1>2, <1>3, <1>4, <1>5, <1>6, <1>7, <1>8, <1>9, <1>10,
     <1>11, <1>12, <1>13, <1>14, <1>15, <1>16 DEF Step

\* Every step of a thread keeps mutual exclusion.
LEMMA MutexStep ==
  ASSUME TypeOK, MutexInv, NEW t \in Threads, Step(t)
  PROVE  MutexInv'
<1> USE HostFxrAssumption
    DEF TypeOK, MutexInv, Critical, PCs, globals, Goto, Unlock
<1>1. CASE InitCheck(t)     BY <1>1 DEF InitCheck
<1>2. CASE InitFastAdd(t)   BY <1>2 DEF InitFastAdd
<1>3. CASE InitLock(t)      BY <1>3 DEF InitLock
<1>4. CASE InitRecheck(t)   BY <1>4 DEF InitRecheck
<1>5. CASE InitLockedAdd(t) BY <1>5 DEF InitLockedAdd
<1>6. CASE InitExports(t)
  <2>1. CASE pc' = [pc EXCEPT ![t] = "initialize"] /\ lock' = lock
    BY <1>6, <2>1 DEF InitExports
  <2>2. CASE pc' = [pc EXCEPT ![t] = "idle"] /\ lock' = Null
    BY <1>6, <2>2 DEF InitExports
  <2> QED
    BY <1>6, <2>1, <2>2 DEF InitExports
<1>7. CASE InitInitialize(t) BY <1>7, SMTT(20) DEF InitInitialize
<1>8. CASE InitDelegate(t)  BY <1>8, SMTT(20) DEF InitDelegate
<1>9. CASE InitPublish(t)   BY <1>9 DEF InitPublish
<1>10. CASE LoadReadCtx(t)  BY <1>10 DEF LoadReadCtx
<1>15. CASE LoadReadFn(t)   BY <1>15 DEF LoadReadFn
<1>16. CASE LoadCall(t)     BY <1>16 DEF LoadCall
<1>11. CASE ShutdownCheck(t) BY <1>11 DEF ShutdownCheck, GiveBack
<1>12. CASE ShutdownSub(t)  BY <1>12 DEF ShutdownSub, GiveBack
<1>13. CASE ShutdownLock(t) BY <1>13 DEF ShutdownLock
<1>14. CASE ShutdownClose(t) BY <1>14 DEF ShutdownClose
<1> QED
  BY <1>1, <1>2, <1>3, <1>4, <1>5, <1>6, <1>7, <1>8, <1>9, <1>10,
     <1>11, <1>12, <1>13, <1>14, <1>15, <1>16 DEF Step

\* Every step of a thread keeps g_ctx open and an initialization undisturbed.
LEMMA CtxStep ==
  ASSUME TypeOK, MutexInv, CtxInv, InitUndisturbed, NEW t \in Threads, Step(t)
  PROVE  CtxInv' /\ InitUndisturbed'
<1> USE HostFxrAssumption
    DEF TypeOK, MutexInv, CtxInv, InitUndisturbed, Critical, PCs, globals,
        Goto, Unlock
<1>1. CASE InitCheck(t)     BY <1>1 DEF InitCheck
<1>2. CASE InitFastAdd(t)   BY <1>2 DEF InitFastAdd
<1>3. CASE InitLock(t)      BY <1>3 DEF InitLock
<1>4. CASE InitRecheck(t)   BY <1>4 DEF InitRecheck
<1>5. CASE InitLockedAdd(t) BY <1>5 DEF InitLockedAdd
<1>6. CASE InitExports(t)
  <2>1. UNCHANGED <<ctx, open, loadfn>>
    BY <1>6 DEF InitExports
  <2>2. \A u \in Threads \ {t} : pc[u] \notin Critical /\ pc'[u] = pc[u]
    BY <1>6 DEF InitExports
  <2>3. CASE pc'[t] = "initialize" /\ fxr' = TRUE
    BY <2>1, <2>2, <2>3
  <2>4. CASE pc'[t] = "idle"
    BY <2>1, <2>2, <2>4
  <2>5. (pc'[t] = "initialize" /\ fxr' = TRUE) \/ pc'[t] = "idle"
    BY <1>6 DEF InitExports
  <2> QED
    BY ONLY <2>3, <2>4, <2>5
<1>7. CASE InitInitialize(t) BY <1>7, SMTT(20) DEF InitInitialize
<1>8. CASE InitDelegate(t)  BY <1>8, SMTT(20) DEF InitDelegate
<1>9. CASE InitPublish(t)   BY <1>9 DEF InitPublish
<1>10. CASE LoadReadCtx(t)  BY <1>10 DEF LoadReadCtx
<1>15. CASE LoadReadFn(t)   BY <1>15 DEF LoadReadFn
<1>16. CASE LoadCall(t)     BY <1>16 DEF LoadCall
<1>11. CASE ShutdownCheck(t) BY <1>11 DEF ShutdownCheck, GiveBack
<1>12. CASE ShutdownSub(t)  BY <1>12 DEF ShutdownSub, GiveBack
<1>13. CASE ShutdownLock(t) BY <1>13 DEF ShutdownLock
<1>14. CASE ShutdownClose(t) BY <1>14 DEF ShutdownClose
<1> QED
  BY <1>1, <1>2, <1>3, <1>4, <1>5, <1>6, <1>7, <1>8, <1>9, <1>10,
     <1>11, <1>12, <1>13, <1>14, <1>15, <1>16 DEF Step

\* The inductive invariant holds in every reachable state.
THEOREM HostFxrInvariant == Spec => []IInv
<1>1. IInv /\ [Next]_vars => IInv'
  <2> SUFFICES ASSUME IInv, [Next]_vars PROVE IInv'
    OBVIOUS
  <2>1. CASE UNCHANGED vars
    BY <2>1 DEF vars, IInv, TypeOK, MutexInv, RefsInv, CtxInv, InitUndisturbed
  <2>2. ASSUME NEW t \in Threads, Step(t), UNCHANGED callers PROVE IInv'
    BY <2>2, TypeStep, MutexStep, CtxStep DEF IInv
  <2> QED
    BY <2>1, <2>2 DEF Next, Crashed
<1> QED
  BY <1>1, InitIInv, PTL DEF Spec

\* Every variable keeps its type: in particular no thread ever gives back a
\* reference it does not hold or exceeds its bound.
THEOREM HostFxrTypeCorrect == Spec => []TypeOK
<1>1. IInv => TypeOK
  BY DEF IInv
<1> QED
  BY <1>1, HostFxrInvariant, PTL

\* A thread initializing the runtime is never disturbed by a concurrent
\* shutdown or a second initialization, for any number of threads.
THEOREM HostFxrInitUndisturbed == Spec => []InitUndisturbed
<1>1. IInv => InitUndisturbed
  BY DEF IInv
<1> QED
  BY <1>1, HostFxrInvariant, PTL

\* hostfxr_close is only called on an open context, for any number of threads.
THEOREM HostFxrClosesOpenContext == Spec => []ClosesOpenContext
<1>1. IInv => ClosesOpenContext
  BY DEF IInv, CtxInv, ClosesOpenContext, CloseTarget
<1> QED
  BY <1>1, HostFxrInvariant, PTL

-----------------------------------------------------------------------------
(* With shutdowns kept apart from the other calls *)

\* The references the threads hold, each as a pair of its own.
Held == {x \in Threads \X (1..MaxRefs) : x[2] <= refs[x[1]]}

Shutting == {"shut_sub", "shut_lock", "close"}

\* A thread inside fxr_shutdown is alone.
ShutsAlone ==
    \A t, u \in Threads : t # u /\ pc[t] \in Shutting => pc[u] = "idle"

\* What the count is known to be at each place: a thread that tested it still
\* finds it as it was, since nothing takes a reference away meanwhile.
CountSeen ==
    \A t \in Threads :
        /\ pc[t] \in {"fast_add", "locked_add", "shut_sub"} => refcount > 0
        /\ pc[t] \in {"exports", "initialize", "delegate", "publish",
                      "shut_lock", "close"} => refcount = 0

\* A thread that loads holds a reference, and has read today's delegate.
LoadSeen ==
    \A t \in Threads :
        pc[t] \in {"load_test", "load_call"} => refs[t] > 0 /\ fn[t] = loadfn

\* The count is exact, and while it is positive the runtime is usable.
CountInv == refcount = Cardinality(Held)
UsableInv == refcount > 0 => Usable

ApartInv ==
    callers = "apart" =>
        /\ ShutsAlone
        /\ CountSeen
        /\ LoadSeen
        /\ CountInv
        /\ UsableInv

\* There are finitely many references, and none is held exactly when no thread
\* holds one.
LEMMA HeldFinite ==
  ASSUME TypeOK
  PROVE  /\ IsFiniteSet(Held)
         /\ Cardinality(Held) \in Nat
         /\ Cardinality(Held) = 0 <=> \A t \in Threads : refs[t] = 0
<1>1. IsFiniteSet(1..MaxRefs)
  BY FS_Interval, HostFxrAssumption
<1>2. IsFiniteSet(Threads \X (1..MaxRefs))
  BY <1>1, FS_Product, HostFxrAssumption
<1>3. IsFiniteSet(Held)
  BY <1>2, FS_Subset DEF Held
<1>4. Held = {} <=> \A t \in Threads : refs[t] = 0
  <2>1. ASSUME NEW t \in Threads, refs[t] # 0 PROVE <<t, 1>> \in Held
    BY <2>1, HostFxrAssumption, SMTT(20) DEF Held, TypeOK
  <2>2. ASSUME \A t \in Threads : refs[t] = 0 PROVE Held = {}
    BY <2>2 DEF Held
  <2> QED
    BY <2>1, <2>2
<1> QED
  BY <1>3, <1>4, FS_CardinalityType, FS_EmptySet

\* Taking a reference adds one to the number held.
LEMMA TakeCounts ==
  ASSUME TypeOK, NEW t \in Threads, refs[t] < MaxRefs,
         refs' = [refs EXCEPT ![t] = @ + 1]
  PROVE  Cardinality(Held') = Cardinality(Held) + 1
<1> DEFINE r == <<t, refs[t] + 1>>
<1>1. r \notin Held
  BY DEF Held, TypeOK
<1>2. Held' = Held \cup {r}
  BY HostFxrAssumption, SMTT(20) DEF Held, TypeOK
<1> HIDE DEF r
<1> QED
  BY <1>1, <1>2, HeldFinite, FS_AddElement

\* Giving one back takes one away.
LEMMA GiveBackCounts ==
  ASSUME TypeOK, NEW t \in Threads, refs[t] > 0,
         refs' = [refs EXCEPT ![t] = @ - 1]
  PROVE  Cardinality(Held') = Cardinality(Held) - 1
<1> DEFINE r == <<t, refs[t]>>
<1>1. r \in Held
  BY HostFxrAssumption, SMTT(20) DEF Held, TypeOK
<1>2. Held' = Held \ {r}
  BY HostFxrAssumption, SMTT(20) DEF Held, TypeOK
<1> HIDE DEF r
<1> QED
  BY <1>1, <1>2, HeldFinite, FS_RemoveElement

\* The count is a natural number, positive exactly while somebody holds a
\* reference.
CountPositive == refcount \in Nat /\ (refcount = 0 <=> \A t \in Threads : refs[t] = 0)

\* An exact count is one.
LEMMA CountMeaning == TypeOK /\ CountInv => CountPositive
BY HeldFinite DEF CountInv, CountPositive

\* A step that takes a reference, one that gives one back, and all others.
Takes(t) == refs' = [refs EXCEPT ![t] = @ + 1] /\ refcount' = refcount + 1
Returns(t) == refs' = [refs EXCEPT ![t] = @ - 1] /\ refcount' = refcount - 1
Keeps == UNCHANGED <<refs, refcount>>

\* Every step is one of the three: with shutdowns apart the store of 1 at the
\* end of an initialization adds one, and no shutdown finds the count at zero.
LEMMA StepTakesOrReturns ==
  ASSUME IInv, callers = "apart", CountSeen, CountInv, NEW t \in Threads, Step(t)
  PROVE  \/ /\ Takes(t) /\ refs[t] < MaxRefs
            /\ pc[t] \in {"fast_add", "locked_add", "publish"} /\ pc'[t] = "idle"
         \/ Returns(t) /\ refs[t] > 0 /\ pc[t] = "shut_sub"
         \/ Keeps /\ pc[t] # "shut_sub"
<1> USE DEF Goto, globals, Takes, Returns, Keeps, IInv, RefsInv, TypeOK
<1>0. refcount \in Nat /\ (refcount = 0 <=> \A u \in Threads : refs[u] = 0)
  BY CountMeaning DEF CountPositive
<1>1. CASE InitFastAdd(t)   BY <1>1 DEF InitFastAdd
<1>2. CASE InitLockedAdd(t) BY <1>2 DEF InitLockedAdd
<1>3. CASE InitPublish(t)   BY <1>3 DEF InitPublish, CountSeen
<1>4. CASE ShutdownSub(t)   BY <1>4 DEF ShutdownSub, GiveBack
<1>5. CASE ShutdownCheck(t) BY <1>0, <1>5, SMTT(20) DEF ShutdownCheck, GiveBack
<1>6. CASE InitCheck(t)     BY <1>6 DEF InitCheck
<1>7. CASE InitLock(t)      BY <1>7 DEF InitLock
<1>8. CASE InitRecheck(t)   BY <1>8 DEF InitRecheck
<1>9. CASE InitExports(t)   BY <1>9 DEF InitExports
<1>10. CASE InitInitialize(t) BY <1>10 DEF InitInitialize
<1>11. CASE InitDelegate(t) BY <1>11 DEF InitDelegate
<1>12. CASE LoadReadCtx(t)  BY <1>12 DEF LoadReadCtx
<1>13. CASE LoadReadFn(t)   BY <1>13 DEF LoadReadFn
<1>14. CASE LoadCall(t)     BY <1>14 DEF LoadCall
<1>15. CASE ShutdownLock(t) BY <1>15 DEF ShutdownLock
<1>16. CASE ShutdownClose(t) BY <1>16 DEF ShutdownClose
<1> QED
  BY <1>1, <1>2, <1>3, <1>4, <1>5, <1>6, <1>7, <1>8, <1>9, <1>10,
     <1>11, <1>12, <1>13, <1>14, <1>15, <1>16 DEF Step

\* Every step keeps the count exact.
LEMMA CountStep ==
  ASSUME IInv, callers = "apart", CountSeen, CountInv, NEW t \in Threads, Step(t)
  PROVE  CountInv'
<1>0. TypeOK
  BY DEF IInv
<1>1. CASE Takes(t) /\ refs[t] < MaxRefs
  BY <1>0, <1>1, TakeCounts DEF Takes, CountInv
<1>2. CASE Returns(t) /\ refs[t] > 0
  BY <1>0, <1>2, GiveBackCounts DEF Returns, CountInv
<1>3. CASE Keeps
  <2>1. Held' = Held
    BY <1>3 DEF Held, Keeps
  <2> QED
    BY <1>3, <2>1 DEF CountInv, Keeps
<1> QED
  BY <1>1, <1>2, <1>3, StepTakesOrReturns

\* Every step of a thread keeps the shutdowns apart: they begin when all
\* threads are idle and nobody calls before they have ended.
LEMMA ApartStep ==
  ASSUME TypeOK, callers = "apart", ShutsAlone, NEW t \in Threads, Step(t)
  PROVE  ShutsAlone'
<1> USE DEF TypeOK, ShutsAlone, Shutting, Goto, PCs
<1>1. CASE InitCheck(t)     BY <1>1 DEF InitCheck, MayCall, NobodyIn
<1>2. CASE InitFastAdd(t)   BY <1>2 DEF InitFastAdd
<1>3. CASE InitLock(t)      BY <1>3 DEF InitLock
<1>4. CASE InitRecheck(t)   BY <1>4 DEF InitRecheck
<1>5. CASE InitLockedAdd(t) BY <1>5 DEF InitLockedAdd
<1>6. CASE InitExports(t)   BY <1>6 DEF InitExports
<1>7. CASE InitInitialize(t) BY <1>7 DEF InitInitialize
<1>8. CASE InitDelegate(t)  BY <1>8 DEF InitDelegate
<1>9. CASE InitPublish(t)   BY <1>9 DEF InitPublish
<1>10. CASE LoadReadCtx(t)  BY <1>10 DEF LoadReadCtx, MayCall, NobodyIn
<1>11. CASE LoadReadFn(t)   BY <1>11 DEF LoadReadFn
<1>12. CASE LoadCall(t)     BY <1>12 DEF LoadCall
<1>13. CASE ShutdownCheck(t) BY <1>13, SMTT(20) DEF ShutdownCheck, MayShutdown, NobodyIn
<1>14. CASE ShutdownSub(t)  BY <1>14, SMTT(20) DEF ShutdownSub
<1>15. CASE ShutdownLock(t) BY <1>15 DEF ShutdownLock
<1>16. CASE ShutdownClose(t) BY <1>16 DEF ShutdownClose
<1> QED
  BY <1>1, <1>2, <1>3, <1>4, <1>5, <1>6, <1>7, <1>8, <1>9, <1>10,
     <1>11, <1>12, <1>13, <1>14, <1>15, <1>16 DEF Step

\* What a thread has seen of the count stays true: references are given back
\* only by a thread that is alone, and no other thread takes one while the
\* first initialization is under way.
LEMMA CountSeenStep ==
  ASSUME IInv, callers = "apart", ShutsAlone, CountSeen, CountInv,
         NEW t \in Threads, Step(t)
  PROVE  CountSeen'
<1> USE DEF TypeOK, Goto, PCs, CountSeen, globals
<1>0. TypeOK /\ MutexInv /\ refcount \in Nat
  BY CountMeaning DEF CountPositive, IInv
<1>a. ASSUME NEW u \in Threads, u # t, pc[t] \in Shutting PROVE pc[u] = "idle"
  BY <1>a DEF ShutsAlone
<1>b. ASSUME NEW u \in Threads, u # t, pc[t] # "idle" PROVE pc[u] \notin Shutting
  BY <1>b DEF ShutsAlone
<1>c. ASSUME NEW u \in Threads, u # t, pc[t] \in Critical PROVE pc[u] \notin Critical
  BY <1>0, <1>c DEF MutexInv
<1> USE <1>0
<1>1. CASE InitCheck(t)     BY <1>1 DEF InitCheck
<1>2. CASE InitFastAdd(t)   BY <1>2, SMTT(20) DEF InitFastAdd
<1>3. CASE InitLock(t)      BY <1>3 DEF InitLock
<1>4. CASE InitRecheck(t)   BY <1>4, SMTT(20) DEF InitRecheck
<1>5. CASE InitLockedAdd(t) BY <1>5, SMTT(20) DEF InitLockedAdd
<1>6. CASE InitExports(t)   BY <1>6 DEF InitExports
<1>7. CASE InitInitialize(t) BY <1>7 DEF InitInitialize
<1>8. CASE InitDelegate(t)  BY <1>8 DEF InitDelegate
<1>9. CASE InitPublish(t)
  BY <1>9, <1>b, <1>c, SMTT(20) DEF InitPublish, Critical, Shutting
<1>10. CASE LoadReadCtx(t)  BY <1>10 DEF LoadReadCtx
<1>11. CASE LoadReadFn(t)   BY <1>11 DEF LoadReadFn
<1>12. CASE LoadCall(t)     BY <1>12 DEF LoadCall
<1>13. CASE ShutdownCheck(t) BY <1>13 DEF ShutdownCheck
<1>14. CASE ShutdownSub(t)  BY <1>14, <1>a, SMTT(20) DEF ShutdownSub, Shutting
<1>15. CASE ShutdownLock(t) BY <1>15 DEF ShutdownLock
<1>16. CASE ShutdownClose(t) BY <1>16 DEF ShutdownClose
<1> QED
  BY <1>1, <1>2, <1>3, <1>4, <1>5, <1>6, <1>7, <1>8, <1>9, <1>10,
     <1>11, <1>12, <1>13, <1>14, <1>15, <1>16 DEF Step

\* A thread that loads keeps its reference and the delegate stays the one it
\* read: it is stored only while nobody holds a reference.
LEMMA LoadSeenStep ==
  ASSUME IInv, callers = "apart", ShutsAlone, CountSeen, CountInv, LoadSeen,
         NEW t \in Threads, Step(t)
  PROVE  LoadSeen'
<1> USE DEF TypeOK, Goto, PCs, LoadSeen, globals
<1>0. TypeOK /\ refcount \in Nat
  BY CountMeaning DEF CountPositive, IInv
<1>a. ASSUME NEW u \in Threads, u # t, pc[t] \in Shutting PROVE pc[u] = "idle"
  BY <1>a DEF ShutsAlone
<1> USE <1>0
<1>1. CASE InitCheck(t)     BY <1>1 DEF InitCheck
<1>2. CASE InitFastAdd(t)   BY <1>2 DEF InitFastAdd
<1>3. CASE InitLock(t)      BY <1>3 DEF InitLock
<1>4. CASE InitRecheck(t)   BY <1>4 DEF InitRecheck
<1>5. CASE InitLockedAdd(t) BY <1>5 DEF InitLockedAdd
<1>6. CASE InitExports(t)   BY <1>6 DEF InitExports
<1>7. CASE InitInitialize(t) BY <1>7 DEF InitInitialize
<1>8. CASE InitDelegate(t)
  <2>1. \A u \in Threads : refs[u] = 0
    BY <1>8, CountMeaning DEF CountPositive, InitDelegate, CountSeen
  <2> QED
    BY <1>8, <2>1, SMTT(20) DEF InitDelegate
<1>9. CASE InitPublish(t)   BY <1>9 DEF InitPublish
<1>10. CASE LoadReadCtx(t)  BY <1>10 DEF LoadReadCtx
<1>11. CASE LoadReadFn(t)   BY <1>11 DEF LoadReadFn
<1>12. CASE LoadCall(t)     BY <1>12 DEF LoadCall
<1>13. CASE ShutdownCheck(t)
  BY <1>13 DEF ShutdownCheck, GiveBack, MayShutdown, NobodyIn
<1>14. CASE ShutdownSub(t)  BY <1>14, <1>a DEF ShutdownSub, GiveBack, Shutting
<1>15. CASE ShutdownLock(t) BY <1>15 DEF ShutdownLock
<1>16. CASE ShutdownClose(t) BY <1>16, <1>a DEF ShutdownClose, Shutting
<1> QED
  BY <1>1, <1>2, <1>3, <1>4, <1>5, <1>6, <1>7, <1>8, <1>9, <1>10,
     <1>11, <1>12, <1>13, <1>14, <1>15, <1>16 DEF Step

\* While the count is positive the globals are left alone, and the thread
\* that makes it positive has set them up.
LEMMA UsableStep ==
  ASSUME IInv, callers = "apart", CountSeen, CountInv, UsableInv,
         NEW t \in Threads, Step(t)
  PROVE  UsableInv'
<1> USE DEF Goto, UsableInv, Usable, globals
<1>0. TypeOK /\ refcount \in Nat
  BY CountMeaning DEF CountPositive, IInv
<1> USE <1>0
<1>1. CASE InitCheck(t)     BY <1>1 DEF InitCheck
<1>2. CASE InitFastAdd(t)   BY <1>2 DEF InitFastAdd, CountSeen
<1>3. CASE InitLock(t)      BY <1>3 DEF InitLock
<1>4. CASE InitRecheck(t)   BY <1>4 DEF InitRecheck
<1>5. CASE InitLockedAdd(t) BY <1>5 DEF InitLockedAdd, CountSeen
<1>6. CASE InitExports(t)
  <2>1. refcount' = 0
    BY <1>6 DEF InitExports, CountSeen
  <2> QED
    BY <2>1
<1>7. CASE InitInitialize(t) BY <1>7, SMTT(20) DEF InitInitialize, CountSeen
<1>8. CASE InitDelegate(t)  BY <1>8, SMTT(20) DEF InitDelegate, CountSeen
<1>9. CASE InitPublish(t)   BY <1>9 DEF InitPublish, IInv, InitUndisturbed
<1>10. CASE LoadReadCtx(t)  BY <1>10 DEF LoadReadCtx
<1>11. CASE LoadReadFn(t)   BY <1>11 DEF LoadReadFn
<1>12. CASE LoadCall(t)     BY <1>12 DEF LoadCall
<1>13. CASE ShutdownCheck(t) BY <1>13 DEF ShutdownCheck
<1>14. CASE ShutdownSub(t)  BY <1>14 DEF ShutdownSub
<1>15. CASE ShutdownLock(t) BY <1>15 DEF ShutdownLock
<1>16. CASE ShutdownClose(t) BY <1>16 DEF ShutdownClose, CountSeen
<1> QED
  BY <1>1, <1>2, <1>3, <1>4, <1>5, <1>6, <1>7, <1>8, <1>9, <1>10,
     <1>11, <1>12, <1>13, <1>14, <1>15, <1>16 DEF Step

\* With shutdowns kept apart, in every reachable state: shutdowns are alone,
\* the count is exact and a positive count means a usable runtime.
THEOREM HostFxrApart == Spec => []ApartInv
<1>1. Init => ApartInv
  <2> SUFFICES ASSUME Init PROVE ApartInv
    OBVIOUS
  <2>1. TypeOK
    BY InitIInv DEF IInv
  <2>2. Cardinality(Held) = 0
    BY <2>1, HeldFinite DEF Init
  <2>3. ShutsAlone /\ CountSeen /\ LoadSeen /\ UsableInv
    BY DEF Init, ShutsAlone, Shutting, CountSeen, LoadSeen, UsableInv
  <2> QED
    BY <2>2, <2>3 DEF ApartInv, CountInv, Init
<1>2. IInv /\ ApartInv /\ [Next]_vars => ApartInv'
  <2> SUFFICES ASSUME IInv, ApartInv, [Next]_vars, callers' = "apart"
               PROVE  ApartInv'
    BY DEF ApartInv
  <2>0. callers = "apart"
    BY DEF Next, Crashed, vars
  <2>1. CASE UNCHANGED vars
    <3>1. Held' = Held
      BY <2>1 DEF vars, Held
    <3> QED
      BY <2>0, <2>1, <3>1 DEF vars, ApartInv, ShutsAlone, CountSeen, LoadSeen,
         CountInv, UsableInv, Usable
  <2>2. ASSUME NEW t \in Threads, Step(t) PROVE ApartInv'
    <3>1. IInv /\ ShutsAlone /\ CountSeen /\ LoadSeen /\ CountInv /\ UsableInv
          /\ TypeOK
      BY <2>0 DEF ApartInv, IInv
    <3>2. ShutsAlone'  BY <2>0, <2>2, <3>1, ApartStep
    <3>3. CountSeen'   BY <2>0, <2>2, <3>1, CountSeenStep
    <3>4. LoadSeen'    BY <2>0, <2>2, <3>1, LoadSeenStep
    <3>5. CountInv'    BY <2>0, <2>2, <3>1, CountStep
    <3>6. UsableInv'   BY <2>0, <2>2, <3>1, UsableStep
    <3> QED
      BY <3>2, <3>3, <3>4, <3>5, <3>6 DEF ApartInv
  <2> QED
    BY <2>1, <2>2 DEF Next, Crashed
<1> QED
  BY <1>1, <1>2, HostFxrInvariant, PTL DEF Spec

\* fxr_load_umco calls the delegate of the open context whichever of its
\* unlocked reads the build uses, for any number of threads.
THEOREM HostFxrLoadCallsOpenRuntime == Spec => []LoadCallsOpenRuntime
<1>1. IInv /\ ApartInv => LoadCallsOpenRuntime
  <2> SUFFICES ASSUME IInv, ApartInv, callers = "apart",
                      NEW t \in Threads, pc[t] = "load_call"
               PROVE  fn[t] = loadfn /\ loadfn \in open
    BY DEF LoadCallsOpenRuntime
  <2>1. TypeOK /\ LoadSeen /\ CountInv /\ UsableInv
    BY DEF IInv, ApartInv
  <2>2. refs[t] > 0 /\ fn[t] = loadfn
    BY <2>1 DEF LoadSeen
  <2>3. refcount > 0
    BY <2>1, <2>2, CountMeaning DEF CountPositive, TypeOK
  <2> QED
    BY <2>1, <2>2, <2>3 DEF UsableInv, Usable
<1> QED
  BY <1>1, HostFxrInvariant, HostFxrApart, PTL

-----------------------------------------------------------------------------
(* The reference-counted runtime *)

\* What the runtime of Runtime.tla is in a state of this module.
Live == callers = "apart" /\ refcount > 0 /\ Usable

\* A step that takes a reference is an Acquire.
LEMMA TakeAcquires ==
  ASSUME TypeOK, TypeOK', callers = "apart", callers' = "apart", CountInv,
         UsableInv', NEW t \in Threads, Takes(t), refs[t] < MaxRefs
  PROVE  Abstract!Acquire(t)
<1>1. refcount' > 0
  BY CountMeaning DEF CountPositive, Takes
<1>2. Live' = TRUE
  BY <1>1 DEF Live, UsableInv
<1>3. Kept(refs)' = [Kept(refs) EXCEPT ![t] = @ + 1]
  BY DEF Takes, Kept, TypeOK
<1>4. Kept(refs)[t] < MaxRefs
  BY DEF Kept
<1> QED
  BY <1>2, <1>3, <1>4 DEF Abstract!Acquire, Live

\* A step that gives one back is a Release.
LEMMA ReturnReleases ==
  ASSUME TypeOK, TypeOK', callers = "apart", callers' = "apart", CountInv',
         UsableInv', NEW t \in Threads, Returns(t), refs[t] > 0
  PROVE  Abstract!Release(t)
<1>1. refcount' \in Nat /\ (refcount' = 0 <=> \A u \in Threads : refs'[u] = 0)
  <2>1. (TypeOK /\ CountInv => CountPositive)'
    BY CountMeaning, PTL
  <2> QED
    BY <2>1 DEF CountPositive
<1>2. Kept(refs)' = [Kept(refs) EXCEPT ![t] = @ - 1]
  BY DEF Returns, Kept, TypeOK
<1>3. \A u \in Threads : Kept(refs)'[u] = refs'[u]
  BY DEF Kept
<1>4. Live' <=> \E u \in Threads : Kept(refs)'[u] > 0
  BY <1>1, <1>3, SMTT(20) DEF Live, UsableInv, TypeOK
<1>5. Kept(refs)[t] > 0
  BY DEF Kept
<1>6. Live' = (\E u \in Threads : Kept(refs)'[u] > 0)
  BY <1>4 DEF Live
<1> QED
  BY <1>2, <1>5, <1>6 DEF Abstract!Release, Live

\* fxr_init and fxr_shutdown implement the reference-counted runtime of the
\* header while shutdowns are kept apart from the other calls: each step takes
\* a reference, gives one back, or leaves the runtime as it was.
THEOREM HostFxrImplementsRuntime == Spec => ImplementsRuntime
<1>1. Init => Abstract!RtInit
  BY SMTT(20) DEF Init, Abstract!RtInit, Kept
<1>2. /\ IInv /\ IInv' /\ ApartInv /\ ApartInv'
      /\ [Next]_vars
      => [Abstract!RtNext]_Abstract!rtVars
  <2> SUFFICES ASSUME IInv, IInv', ApartInv, ApartInv', [Next]_vars
               PROVE  [Abstract!RtNext]_Abstract!rtVars
    OBVIOUS
  <2>0. TypeOK /\ TypeOK' /\ callers' = callers
    BY DEF IInv, Next, Crashed, vars
  <2>1. ASSUME Live' = Live, Kept(refs)' = Kept(refs)
        PROVE  [Abstract!RtNext]_Abstract!rtVars
    BY <2>1 DEF Abstract!rtVars, Live
  <2>2. CASE UNCHANGED vars
    <3>1. Live' = Live
      BY <2>2 DEF vars, Live, Usable
    <3>2. Kept(refs)' = Kept(refs)
      BY <2>2 DEF vars, Kept
    <3> QED
      BY <2>1, <3>1, <3>2
  <2>3. CASE callers # "apart"
    <3>1. Live' = Live
      BY <2>0, <2>3 DEF Live
    <3>2. Kept(refs)' = Kept(refs)
      BY <2>0, <2>3 DEF Kept
    <3> QED
      BY <2>1, <3>1, <3>2
  <2>4. ASSUME callers = "apart", NEW t \in Threads, Step(t)
        PROVE  [Abstract!RtNext]_Abstract!rtVars
    <3>1. /\ CountSeen /\ CountInv /\ UsableInv
          /\ CountInv' /\ UsableInv' /\ callers' = "apart"
      BY <2>0, <2>4 DEF ApartInv
    <3>2. CASE Takes(t) /\ refs[t] < MaxRefs
      BY <2>0, <2>4, <3>1, <3>2, TakeAcquires DEF Abstract!RtNext
    <3>3. CASE Returns(t) /\ refs[t] > 0
      BY <2>0, <2>4, <3>1, <3>3, ReturnReleases DEF Abstract!RtNext
    <3>4. CASE Keeps
      <4>1. Live' <=> Live
        BY <2>4, <3>1, <3>4 DEF Live, Keeps, UsableInv
      <4>2. Live' = Live
        BY <4>1 DEF Live
      <4>3. Kept(refs)' = Kept(refs)
        BY <2>0, <3>4 DEF Kept, Keeps
      <4> QED
        BY <2>1, <4>2, <4>3
    <3> QED
      BY <2>4, <3>1, <3>2, <3>3, <3>4, StepTakesOrReturns
  <2> QED
    BY <2>2, <2>3, <2>4 DEF Next, Crashed
<1> QED
  BY <1>1, <1>2, HostFxrInvariant, HostFxrApart, PTL
     DEF Spec, ImplementsRuntime, Abstract!RtSpec

=============================================================================
