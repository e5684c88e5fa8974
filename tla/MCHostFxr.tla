------------------------------ MODULE MCHostFxr ------------------------------
(* Instances of HostFxr for TLC. *)
EXTENDS HostFxr

CONSTANTS t1, t2, t3, c1, c2

TwoThreads == {t1, t2}
ThreeThreads == {t1, t2, t3}
TwoContexts == {c1, c2}

=============================================================================
