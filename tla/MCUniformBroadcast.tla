------------------------- MODULE MCUniformBroadcast -------------------------
(* Instances of UniformReliableBroadcast for TLC. *)
EXTENDS UniformReliableBroadcastProofs, TLC

CONSTANTS p, q, r

\* One message; two messages of different sources.
One == (p :> 1) @@ (q :> 0) @@ (r :> 0)
Two == (p :> 1) @@ (q :> 1) @@ (r :> 0)

\* The two sources of Two are interchangeable.
Sources == Permutations({p, q})
=============================================================================
