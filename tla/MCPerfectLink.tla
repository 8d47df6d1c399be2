--------------------------- MODULE MCPerfectLink ---------------------------
(* Instances of PerfectLink for TLC. *)
EXTENDS PerfectLinkProofs, TLC

CONSTANTS p, q

\* m1.cpp: every host but the receiver sends its messages to the receiver.
OneWay == (p :> <<q, q>>) @@ (q :> <<>>)

\* One message more than there are seq numbers (SeqModulus = 2).
Wrap == (p :> <<q, q, q>>) @@ (q :> <<>>)
=============================================================================
