----------------------------- MODULE MCLogBridge -----------------------------
(* Instances of LogBridge for TLC. *)
EXTENDS LogBridge

CONSTANTS o1, o2

NoOthers == {}
TwoOthers == {o1, o2}
OneSize == {1}
TwoSizes == {1, 2}

=============================================================================
