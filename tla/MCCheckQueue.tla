---------------------------- MODULE MCCheckQueue ----------------------------
(* The instance of CheckQueue for TLC: two workers that are not symmetric,  *)
(* since liveness is checked.                                               *)
EXTENDS CheckQueue

=============================================================================
