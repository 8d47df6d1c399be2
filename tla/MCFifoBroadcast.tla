-------------------------- MODULE MCFifoBroadcast --------------------------
(* An instance of FifoBroadcast for TLC. *)
EXTENDS FifoBroadcastProofs, TLC

CONSTANTS p, q

\* Two messages of one source, so that urb may deliver them out of order, and one of another.
TwoAndOne == (p :> 2) @@ (q :> 1)
=============================================================================
