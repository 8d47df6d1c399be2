---------------------------- MODULE MCStressTest ----------------------------
(* An instance of StressTest for TLC. *)
EXTENDS StressTest, TLC
=============================================================================
