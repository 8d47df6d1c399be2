------------------------- MODULE LatticeDecisions -------------------------
(***************************************************************************)
(* What lattice agreement promises the process that uses it, and what      *)
(* check_agreement of tools/correctness.py tests on the log files: in      *)
(* every round a host decides one set, which holds its own proposal and    *)
(* nothing nobody proposed, and any two sets decided in a round are        *)
(* comparable.                                                             *)
(***************************************************************************)
EXTENDS Naturals, Sequences, FiniteSets

CONSTANTS
  Hosts,
  Proposals,  \* Proposals[h][r + 1]: what host h proposes in round r
  MaxStopped

VARIABLES
  proposed,   \* proposed[h]: how many rounds host h has proposed in
  log,        \* log[h][r + 1]: what host h has decided in round r
  stopped     \* the hosts that have stopped

vars == <<proposed, log, stopped>>

Init ==
  /\ proposed = [h \in Hosts |-> 0]
  /\ log = [h \in Hosts |-> <<>>]
  /\ stopped = {}

ProposedIn(r) == UNION {Proposals[h][r + 1] : h \in {g \in Hosts : r < proposed[g]}}

Comparable(D, E) == D \subseteq E \/ E \subseteq D

Propose(h) ==
  /\ h \notin stopped
  /\ proposed[h] < Len(Proposals[h])
  /\ proposed' = [proposed EXCEPT ![h] = @ + 1]
  /\ UNCHANGED <<log, stopped>>

\* Host h decides D in the first round it has not decided yet.
Decide(h, D) ==
  LET r == Len(log[h]) IN
    /\ h \notin stopped
    /\ r < proposed[h]
    /\ Proposals[h][r + 1] \subseteq D
    /\ D \subseteq ProposedIn(r)
    /\ \A g \in Hosts : r < Len(log[g]) => Comparable(D, log[g][r + 1])
    /\ log' = [log EXCEPT ![h] = Append(@, D)]
    /\ UNCHANGED <<proposed, stopped>>

Stop(h) ==
  /\ h \notin stopped
  /\ Cardinality(stopped) < MaxStopped
  /\ stopped' = stopped \cup {h}
  /\ UNCHANGED <<proposed, log>>

Next ==
  \E h \in Hosts :
    \/ Propose(h)
    \/ \E D \in SUBSET ProposedIn(Len(log[h])) : Decide(h, D)
    \/ Stop(h)

\* Every host that keeps running decides in all its rounds.
Termination ==
  <>(\A h \in Hosts : h \in stopped \/ Len(log[h]) = Len(Proposals[h]))

SafeSpec == Init /\ [][Next]_vars

Spec == SafeSpec /\ Termination
=============================================================================
