-------------------------- MODULE UniformBroadcast --------------------------
(***************************************************************************)
(* What uniform reliable broadcast promises (the comment of                *)
(* uniform_reliable_broadcast.hpp): no host delivers a message twice or a  *)
(* message that was not broadcast (URB2, URB3), which is the shape of      *)
(* Next; a host that keeps running delivers what it broadcasts (URB1), and *)
(* what any host has delivered, one that stops right after included, every *)
(* host that keeps running delivers (URB4).                                *)
(***************************************************************************)
EXTENDS Sequences, Naturals

CONSTANTS
  Hosts,      \* the hosts of the system
  Message     \* the messages that may be broadcast: records with a source

VARIABLES
  handed,     \* the messages given to broadcast() so far
  log,        \* log[h]: the deliveries of host h, in order
  stopped     \* the hosts that have stopped

vars == <<handed, log, stopped>>

Delivered(h, m) == \E k \in DOMAIN log[h] : log[h][k] = m

Init ==
  /\ handed = {}
  /\ log = [h \in Hosts |-> <<>>]
  /\ stopped = {}

Broadcast(m) ==
  /\ m.source \notin stopped
  /\ m \notin handed
  /\ handed' = handed \cup {m}
  /\ UNCHANGED <<log, stopped>>

Deliver(h, m) ==
  /\ h \notin stopped
  /\ m \in handed
  /\ ~Delivered(h, m)
  /\ log' = [log EXCEPT ![h] = Append(@, m)]
  /\ UNCHANGED <<handed, stopped>>

Stop(h) ==
  /\ h \notin stopped
  /\ stopped' = stopped \cup {h}
  /\ UNCHANGED <<handed, log>>

Next ==
  \/ \E m \in Message : Broadcast(m)
  \/ \E h \in Hosts, m \in Message : Deliver(h, m)
  \/ \E h \in Hosts : Stop(h)

\* URB1 and URB4.
Validity ==
  \A m \in Message : m \in handed ~> (Delivered(m.source, m) \/ m.source \in stopped)

Agreement ==
  \A g, h \in Hosts, m \in Message :
    Delivered(g, m) ~> (Delivered(h, m) \/ h \in stopped)

SafeSpec == Init /\ [][Next]_vars

Spec == SafeSpec /\ Validity /\ Agreement
=============================================================================
