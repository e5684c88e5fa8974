----------------------------- MODULE SerialQueue -----------------------------
(***************************************************************************)
(* What SerialTaskRunner promises its callers (scheduler.h:113-124):       *)
(* callbacks run one at a time and in the order of their insertion, as if  *)
(* by a single thread.  Callbacks are numbered in that order.              *)
(***************************************************************************)
EXTENDS Naturals, Sequences

CONSTANTS None

VARIABLES queue,        \* inserted and not begun
          current,      \* being executed, or None
          inserted, done    \* how many were inserted, how many have returned

svars == <<queue, current, inserted, done>>

SInit == queue = <<>> /\ current = None /\ inserted = 0 /\ done = 0

Insert ==
    /\ inserted' = inserted + 1
    /\ queue' = Append(queue, inserted')
    /\ UNCHANGED <<current, done>>

Begin ==
    /\ current = None /\ queue # <<>>
    /\ current' = Head(queue)
    /\ queue' = Tail(queue)
    /\ UNCHANGED <<inserted, done>>

End ==
    /\ current = done + 1
    /\ done' = current
    /\ current' = None
    /\ UNCHANGED <<queue, inserted>>

SSpec == SInit /\ [][Insert \/ Begin \/ End]_svars

=============================================================================
