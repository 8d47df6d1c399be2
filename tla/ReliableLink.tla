---------------------------- MODULE ReliableLink ----------------------------
(***************************************************************************)
(* What a perfect link promises to the layer above it (perfect_link.hpp,   *)
(* best_effort_broadcast.hpp): a message handed to send() is delivered to  *)
(* its receiver at most once, only if it was sent, and, unless one of the  *)
(* two ends stops or is cut off, eventually.  Module PerfectLink, the      *)
(* retransmission protocol over a lossy network, is shown to implement     *)
(* this module; the broadcast and agreement layers are modelled on top of  *)
(* it.                                                                     *)
(***************************************************************************)
EXTENDS Sequences, Naturals

CONSTANTS
  Hosts,      \* the hosts of the system
  Message     \* the messages that may be sent: records with a sender and a receiver

VARIABLES
  handed,     \* the messages given to send() so far
  log,        \* log[h]: the deliveries of host h, in order
  stopped,    \* the hosts that have stopped
  cut         \* the hosts that neither reach nor hear the others any more

vars == <<handed, log, stopped, cut>>

Delivered(m) == \E k \in DOMAIN log[m.receiver] : log[m.receiver][k] = m

Init ==
  /\ handed = {}
  /\ log = [h \in Hosts |-> <<>>]
  /\ stopped = {}
  /\ cut = {}

Send(m) ==
  /\ m.sender \notin stopped
  /\ m \notin handed
  /\ handed' = handed \cup {m}
  /\ UNCHANGED <<log, stopped, cut>>

Deliver(m) ==
  /\ m.receiver \notin stopped \cup cut
  /\ m \in handed
  /\ ~Delivered(m)
  /\ log' = [log EXCEPT ![m.receiver] = Append(@, m)]
  /\ UNCHANGED <<handed, stopped, cut>>

Stop(h) ==
  /\ h \notin stopped
  /\ stopped' = stopped \cup {h}
  /\ UNCHANGED <<handed, log, cut>>

\* A message that is under way may have been the last to leave h, and h receives no more.
CutOff(h) ==
  /\ h \notin stopped \cup cut
  /\ cut' = cut \cup {h}
  /\ UNCHANGED <<handed, log, stopped>>

Next ==
  \/ \E m \in Message : Send(m) \/ Deliver(m)
  \/ \E h \in Hosts : Stop(h) \/ CutOff(h)

(***************************************************************************)
(* The promise itself.  Safety is the shape of Next; Reliability is the    *)
(* eventual delivery between two hosts that keep running and connected.    *)
(***************************************************************************)
Reliability ==
  \A m \in Message :
    m \in handed ~> (Delivered(m) \/ {m.sender, m.receiver} \cap (stopped \cup cut) # {})

SafeSpec == Init /\ [][Next]_vars

Spec == SafeSpec /\ Reliability
=============================================================================
