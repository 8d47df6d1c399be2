------------------------ MODULE MCLatticeAgreement ------------------------
(* Instances of LatticeAgreement for TLC. *)
EXTENDS LatticeAgreementProofs, LatticeMessages, TLC

CONSTANTS p, q, s, a, b

\* Two proposers that clash and a third host that only accepts.
Clash == (p :> <<{a}>>) @@ (q :> <<{b}>>) @@ (s :> <<>>)

\* The same, where only one of the two ever has to propose again.
Nested == (p :> <<{a}>>) @@ (q :> <<{a, b}>>) @@ (s :> <<>>)

\* Three rounds of one host, the first of which may be decided last.
Sequence == (p :> <<{a}, {b}, {a}>>) @@ (q :> <<{b}>>)

\* A blank line in a config file.
Blank == (p :> <<{a}, {}>>) @@ (q :> <<{b}, {}>>)
=============================================================================
