---------------------- MODULE UniformReliableBroadcast ----------------------
(***************************************************************************)
(* UniformReliableBroadcast over BestEffortBroadcast over the perfect      *)
(* link: the majority-ack algorithm of uniform_reliable_broadcast.hpp.     *)
(*                                                                         *)
(* A process has a main thread, which broadcasts (Broadcast, BebBroadcast),*)
(* and a receiving thread, which runs deliver() on what the link hands it  *)
(* (Relay, UrbDeliver, Record, by the three ways out of the function).     *)
(*                                                                         *)
(* The link is module ReliableLink: what is pushed is in transit until it  *)
(* is received, once, in any order; the messages of a sender that has      *)
(* stopped may stay in transit for ever.  That is why a broadcast, a loop  *)
(* of pushes, is one step: stopping in the middle of the loop is stopping  *)
(* after it with the remaining messages lost.  deliver() is one step too:  *)
(* the sets it reads and writes are the receiving thread's own, but for    *)
(* pending_messages, where the main thread inserts only a message that no  *)
(* other host has yet.                                                     *)
(***************************************************************************)
EXTENDS Naturals, Sequences, FiniteSets

CONSTANTS
  Hosts,         \* the host ids of the hosts file
  MessageCount,  \* MessageCount[h]: how many messages the layer above broadcasts
  MaxStopped     \* at most this many hosts stop

ASSUME BroadcastAssumption ==
  /\ IsFiniteSet(Hosts)
  /\ MessageCount \in [Hosts -> Nat]
  /\ MaxStopped \in Nat

VARIABLES
  next_id,             \* next_id[h]: BroadcastMessage::next_id of the process
  broadcasting,        \* broadcasting[h]: the message in the main thread's hands, if any
  pending_messages,    \* pending_messages[h]: the messages seen, own ones included
  acked_messages,      \* acked_messages[h]: pairs <<sender, message>>
  delivered_messages,  \* delivered_messages[h]: the messages delivered
  transit,             \* the link messages handed to the link and not yet received
  log,                 \* log[h]: the messages handed to the layer above, in order
  stopped              \* the hosts that have stopped

mainVars == <<next_id, broadcasting>>
vars == <<mainVars, pending_messages, acked_messages, delivered_messages, transit, log, stopped>>

-----------------------------------------------------------------------------
\* A definition whose name starts with Mutant is not part of the model (see PerfectLink).

\* The message h makes with the seq number n.
BroadcastMessage(h, n) == [source |-> h, seq_number |-> n]

Messages == UNION {{BroadcastMessage(h, n) : n \in 0 .. MessageCount[h] - 1} : h \in Hosts}

LinkMessages == [sender : Hosts, receiver : Hosts, message : Messages]

\* BestEffortBroadcast::broadcast: one link message to every host, the sender included.
Copies(h, bm) == {[sender |-> h, receiver |-> g, message |-> bm] : g \in Hosts}

Init ==
  /\ next_id = [h \in Hosts |-> 0]
  /\ broadcasting = [h \in Hosts |-> {}]
  /\ pending_messages = [h \in Hosts |-> {}]
  /\ acked_messages = [h \in Hosts |-> {}]
  /\ delivered_messages = [h \in Hosts |-> {}]
  /\ transit = {}
  /\ log = [h \in Hosts |-> <<>>]
  /\ stopped = {}

-----------------------------------------------------------------------------
(***************************************************************************)
(* The main thread: broadcast().                                           *)
(***************************************************************************)

MutantBroadcastPreIncrement(h) ==   \* ++next_id
  /\ h \notin stopped
  /\ broadcasting[h] = {}
  /\ next_id[h] < MessageCount[h]
  /\ next_id' = [next_id EXCEPT ![h] = @ + 1]
  /\ broadcasting' = [broadcasting EXCEPT ![h] = {BroadcastMessage(h, next_id[h] + 1)}]
  /\ pending_messages' = [pending_messages EXCEPT ![h] =
                            @ \cup {BroadcastMessage(h, next_id[h] + 1)}]
  /\ UNCHANGED <<acked_messages, delivered_messages, transit, log, stopped>>

\* The message gets its seq number and is pending before it is pushed.
Broadcast(h) ==
  /\ h \notin stopped
  /\ broadcasting[h] = {}
  /\ next_id[h] < MessageCount[h]
  /\ next_id' = [next_id EXCEPT ![h] = @ + 1]
  /\ broadcasting' = [broadcasting EXCEPT ![h] = {BroadcastMessage(h, next_id[h])}]
  /\ pending_messages' = [pending_messages EXCEPT ![h] = @ \cup {BroadcastMessage(h, next_id[h])}]
  /\ UNCHANGED <<acked_messages, delivered_messages, transit, log, stopped>>

BebBroadcast(h) ==
  /\ h \notin stopped
  /\ \E bm \in broadcasting[h] : transit' = transit \cup Copies(h, bm)
  /\ broadcasting' = [broadcasting EXCEPT ![h] = {}]
  /\ UNCHANGED <<next_id, pending_messages, acked_messages, delivered_messages, log, stopped>>

Stop(h) ==
  /\ h \notin stopped
  /\ Cardinality(stopped) < MaxStopped
  /\ stopped' = stopped \cup {h}
  /\ UNCHANGED <<mainVars, pending_messages, acked_messages, delivered_messages, transit, log>>

-----------------------------------------------------------------------------
(***************************************************************************)
(* The receiving thread: deliver(), for a link message tm.                 *)
(***************************************************************************)

\* The sender of tm is known to have seen its message.
MutantAckSource(tm) ==         \* the ack recorded for the source, not the sender
  /\ tm.receiver \notin stopped
  /\ tm \in transit
  /\ acked_messages' = [acked_messages EXCEPT ![tm.receiver] =
                          @ \cup {<<tm.message.source, tm.message>>}]

Receives(tm) ==
  /\ tm.receiver \notin stopped
  /\ tm \in transit
  /\ acked_messages' = [acked_messages EXCEPT ![tm.receiver] =
                          @ \cup {<<tm.sender, tm.message>>}]

MutantNoRelay(tm) ==           \* beb.broadcast forgotten
  /\ Receives(tm)
  /\ tm.message \notin pending_messages[tm.receiver]
  /\ pending_messages' = [pending_messages EXCEPT ![tm.receiver] = @ \cup {tm.message}]
  /\ transit' = transit \ {tm}
  /\ UNCHANGED <<mainVars, delivered_messages, log, stopped>>

MutantRelayAlways(tm) ==       \* whether it is pending not looked at
  /\ Receives(tm)
  /\ pending_messages' = [pending_messages EXCEPT ![tm.receiver] = @ \cup {tm.message}]
  /\ transit' = (transit \ {tm}) \cup Copies(tm.receiver, tm.message)
  /\ UNCHANGED <<mainVars, delivered_messages, log, stopped>>

\* First receipt: the message is relayed, and never delivered at this point.
Relay(tm) ==
  /\ Receives(tm)
  /\ tm.message \notin pending_messages[tm.receiver]
  /\ pending_messages' = [pending_messages EXCEPT ![tm.receiver] = @ \cup {tm.message}]
  /\ transit' = (transit \ {tm}) \cup Copies(tm.receiver, tm.message)
  /\ UNCHANGED <<mainVars, delivered_messages, log, stopped>>

\* The hosts that have acked bm, by the set acked.
Ackers(bm, acked) == {s \in Hosts : <<s, bm>> \in acked}

MutantHalf(bm, acked) ==       \* n / 2 in place of n / 2 + 1
  Cardinality(Ackers(bm, acked)) >= Cardinality(Hosts) \div 2

MutantMore(bm, acked) ==       \* > in place of >=
  Cardinality(Ackers(bm, acked)) > (Cardinality(Hosts) \div 2) + 1

\* A majority of the hosts is known to have seen bm.
can_deliver(bm, acked) ==
  Cardinality(Ackers(bm, acked)) >= (Cardinality(Hosts) \div 2) + 1

MutantDeliverAgain(tm) ==      \* already_delivered not looked at
  LET h == tm.receiver
      bm == tm.message
  IN
    /\ Receives(tm)
    /\ bm \in pending_messages[h]
    /\ can_deliver(bm, acked_messages'[h])
    /\ delivered_messages' = [delivered_messages EXCEPT ![h] = @ \cup {bm}]
    /\ log' = [log EXCEPT ![h] = Append(@, bm)]
    /\ transit' = transit \ {tm}
    /\ UNCHANGED <<mainVars, pending_messages, stopped>>

UrbDeliver(tm) ==
  LET h == tm.receiver
      bm == tm.message
  IN
    /\ Receives(tm)
    /\ bm \in pending_messages[h]
    /\ can_deliver(bm, acked_messages'[h])
    /\ bm \notin delivered_messages[h]
    /\ delivered_messages' = [delivered_messages EXCEPT ![h] = @ \cup {bm}]
    /\ log' = [log EXCEPT ![h] = Append(@, bm)]
    /\ transit' = transit \ {tm}
    /\ UNCHANGED <<mainVars, pending_messages, stopped>>

\* No majority yet, or delivered before: only the ack is recorded.
Record(tm) ==
  LET h == tm.receiver
      bm == tm.message
  IN
    /\ Receives(tm)
    /\ bm \in pending_messages[h]
    /\ ~can_deliver(bm, acked_messages'[h]) \/ bm \in delivered_messages[h]
    /\ transit' = transit \ {tm}
    /\ UNCHANGED <<mainVars, pending_messages, delivered_messages, log, stopped>>

-----------------------------------------------------------------------------
Next ==
  \/ \E h \in Hosts : Broadcast(h) \/ BebBroadcast(h) \/ Stop(h)
  \/ \E tm \in transit : Relay(tm) \/ UrbDeliver(tm) \/ Record(tm)

(***************************************************************************)
(* Fairness: the threads of a running process keep running, and the link   *)
(* delivers what a running host has sent to a running host (Reliability of *)
(* ReliableLink).  What a host sent before it stopped may be lost.         *)
(***************************************************************************)
LinkReliability ==
  \A tm \in LinkMessages :
    WF_vars(tm.sender \notin stopped /\ (Relay(tm) \/ UrbDeliver(tm) \/ Record(tm)))

Spec == Init /\ [][Next]_vars

FairSpec ==
  /\ Spec
  /\ \A h \in Hosts : WF_vars(Broadcast(h) \/ BebBroadcast(h))
  /\ LinkReliability

-----------------------------------------------------------------------------
(***************************************************************************)
(* Properties.                                                             *)
(***************************************************************************)

TypeOK ==
  /\ next_id \in [Hosts -> Nat]
  /\ broadcasting \in [Hosts -> SUBSET Messages]
  /\ pending_messages \in [Hosts -> SUBSET Messages]
  /\ acked_messages \in [Hosts -> SUBSET (Hosts \X Messages)]
  /\ delivered_messages \in [Hosts -> SUBSET Messages]
  /\ transit \subseteq LinkMessages
  /\ log \in [Hosts -> Seq(Messages)]
  /\ stopped \subseteq Hosts

Holders(bm) == {h \in Hosts : bm \in pending_messages[h]}

(***************************************************************************)
(* Why delivery is uniform: a message is delivered by nobody until a       *)
(* majority of the hosts has it pending, so it survives any minority that  *)
(* stops, the hosts that delivered it included.                            *)
(***************************************************************************)
MajorityHolds ==
  \A h \in Hosts : \A bm \in delivered_messages[h] :
    2 * Cardinality(Holders(bm)) > Cardinality(Hosts)

(***************************************************************************)
(* A host that has a message pending passes it on: until it stops, every   *)
(* host either has received it from that host, or has it coming.  This is  *)
(* what lets the acks of a majority arrive everywhere.                     *)
(***************************************************************************)
PendingIsRelayed ==
  \A h, g \in Hosts : \A bm \in pending_messages[h] :
    \/ bm \in broadcasting[h]
    \/ [sender |-> h, receiver |-> g, message |-> bm] \in transit
    \/ <<h, bm>> \in acked_messages[g]

(***************************************************************************)
(* The link gets each message of a sender for a receiver once, so that the *)
(* set transit loses none that is pushed twice, and a run is finite: every *)
(* receipt is of an ack that was not known before.                         *)
(***************************************************************************)
SentOnce ==
  /\ \A tm \in transit : <<tm.sender, tm.message>> \notin acked_messages[tm.receiver]
  /\ \A h, g \in Hosts : \A bm \in broadcasting[h] :
       /\ [sender |-> h, receiver |-> g, message |-> bm] \notin transit
       /\ <<h, bm>> \notin acked_messages[g]

\* What has been given to broadcast(), and the messages that h has pushed to all hosts.
Handed == UNION {{BroadcastMessage(h, n) : n \in 0 .. next_id[h] - 1} : h \in Hosts}

Pushed(h) == pending_messages[h] \ broadcasting[h]

(***************************************************************************)
(* No relay sets off another round of relays: whatever a step is, it adds  *)
(* to what has been broadcast, pushed or received, or stops a host, and    *)
(* takes nothing away.  Of all these there are finitely many (Messages,    *)
(* and per host Messages and Hosts \X Messages), so a run comes to an end. *)
(***************************************************************************)
EveryStepIsNew ==
  [][/\ Handed \subseteq Handed' /\ stopped \subseteq stopped'
     /\ \A h \in Hosts : /\ Pushed(h) \subseteq Pushed(h)'
                         /\ acked_messages[h] \subseteq acked_messages'[h]
     /\ \/ Handed' # Handed \/ stopped' # stopped
        \/ \E h \in Hosts : Pushed(h)' # Pushed(h) \/ acked_messages'[h] # acked_messages[h]]_vars

\* Some running host has yet to broadcast bm, or to receive it from another.
UnderWay(bm) ==
  \/ \E h \in Hosts \ stopped : bm \in broadcasting[h]
  \/ \E tm \in transit : tm.message = bm /\ {tm.sender, tm.receiver} \cap stopped = {}

(***************************************************************************)
(* Agreement never gets stuck: while a majority runs, a message that a     *)
(* running host has seen, or that any host has delivered before it stopped,*)
(* has been delivered by every running host or is still on its way between *)
(* running hosts, whatever was lost with the others.  deliver() tests for  *)
(* a majority only when it receives something, never on a first receipt    *)
(* (uniform_reliable_broadcast.hpp:57): the last ack must not be the one   *)
(* that is not tested.                                                     *)
(***************************************************************************)
NoDeliveryStuck ==
  2 * Cardinality(stopped) < Cardinality(Hosts) =>
    \A bm \in Messages :
      (\E h \in Hosts :
         bm \in pending_messages[h] /\ (h \notin stopped \/ bm \in delivered_messages[h])) =>
        (\A g \in Hosts \ stopped : bm \in delivered_messages[g]) \/ UnderWay(bm)

(***************************************************************************)
(* The refinement of UniformBroadcast.                                     *)
(***************************************************************************)

UB == INSTANCE UniformBroadcast WITH Message <- Messages, handed <- Handed

\* URB2 and URB3; with URB1 and URB4.
UniformBroadcastSafety == UB!SafeSpec
UniformBroadcastSpec == UB!Spec
=============================================================================
