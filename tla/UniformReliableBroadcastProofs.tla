-------------------- MODULE UniformReliableBroadcastProofs --------------------
(***************************************************************************)
(* Proofs about UniformReliableBroadcast, for every finite set of hosts,   *)
(* any number of messages of each and any number of hosts that stop: type  *)
(* correctness, the two invariants that make delivery uniform, and the     *)
(* refinement of UniformBroadcast.                                         *)
(***************************************************************************)
EXTENDS UniformReliableBroadcast, FiniteSetTheorems, TLAPS

-----------------------------------------------------------------------------
(***************************************************************************)
(* The inductive invariant.                                                *)
(***************************************************************************)

\* The main thread has at most one message in its hands, and it is pending.
HandsInv ==
  \A h \in Hosts :
    /\ \A bm, cm \in broadcasting[h] : bm = cm
    /\ broadcasting[h] \subseteq pending_messages[h]

\* What is pending anywhere has been given to broadcast().
HandedInv == \A h \in Hosts : pending_messages[h] \subseteq Handed

\* Who passes a message on, or is known to have acked it, has it pending.
HolderInv ==
  /\ \A tm \in transit : tm.message \in pending_messages[tm.sender]
  /\ \A h, s \in Hosts : \A bm \in Messages :
       <<s, bm>> \in acked_messages[h] => bm \in pending_messages[s]

\* What has been handed to the layer above is recorded as delivered, and pending.
LogInv ==
  \A h \in Hosts :
    /\ \A k \in DOMAIN log[h] : log[h][k] \in delivered_messages[h]
    /\ delivered_messages[h] \subseteq pending_messages[h]

CoreInv == TypeOK /\ HandsInv /\ HandedInv /\ HolderInv /\ LogInv /\ PendingIsRelayed /\ MajorityHolds

\* What an ack is known of has been received, so it is pending; once the host's own copy is
\* among them, a majority has been noticed.
SettledInv ==
  \A h \in Hosts : \A bm \in Messages :
    /\ \A s \in Hosts : <<s, bm>> \in acked_messages[h] => bm \in pending_messages[h]
    /\ can_deliver(bm, acked_messages[h]) /\ <<h, bm>> \in acked_messages[h] =>
         bm \in delivered_messages[h]

IndInv == CoreInv /\ SentOnce /\ SettledInv

-----------------------------------------------------------------------------
(***************************************************************************)
(* Messages.                                                               *)
(***************************************************************************)

LEMMA HandedMember ==
  \A bm : bm \in Handed <=>
    \E h \in Hosts : \E n \in 0 .. next_id[h] - 1 : bm = BroadcastMessage(h, n)
PROOF
  BY DEF Handed

LEMMA MessagesMember ==
  \A bm : bm \in Messages <=>
    \E h \in Hosts : \E n \in 0 .. MessageCount[h] - 1 : bm = BroadcastMessage(h, n)
PROOF
  BY DEF Messages

\* A link message is given by its three fields.
LEMMA LinkMessage ==
  \A tm \in LinkMessages :
    /\ tm.sender \in Hosts /\ tm.receiver \in Hosts /\ tm.message \in Messages
    /\ tm = [sender |-> tm.sender, receiver |-> tm.receiver, message |-> tm.message]
PROOF
  BY DEF LinkMessages

LEMMA CopiesMember ==
  ASSUME NEW h \in Hosts, NEW bm \in Messages
  PROVE  /\ Copies(h, bm) \subseteq LinkMessages
         /\ \A tm \in Copies(h, bm) : tm.sender = h /\ tm.message = bm
         /\ \A g \in Hosts : [sender |-> h, receiver |-> g, message |-> bm] \in Copies(h, bm)
PROOF
  BY DEF Copies, LinkMessages

(***************************************************************************)
(* What the three ways out of deliver() have in common.                    *)
(***************************************************************************)
Received(tm) ==
  /\ tm.receiver \notin stopped
  /\ tm \in transit
  /\ acked_messages' = [acked_messages EXCEPT ![tm.receiver] = @ \cup {<<tm.sender, tm.message>>}]
  /\ UNCHANGED <<next_id, broadcasting, stopped>>

LEMMA DeliverSteps ==
  ASSUME NEW tm \in transit
  PROVE  Relay(tm) \/ UrbDeliver(tm) \/ Record(tm) => Received(tm)
PROOF
  BY DEF Relay, UrbDeliver, Record, Receives, Received, mainVars

-----------------------------------------------------------------------------
LEMMA InitCoreInv == Init => CoreInv
PROOF
<1> SUFFICES ASSUME Init PROVE CoreInv
  OBVIOUS
<1>1. TypeOK
  BY DEF Init, TypeOK
<1>2. HandsInv /\ HandedInv /\ HolderInv /\ LogInv
  BY DEF Init, HandsInv, HandedInv, HolderInv, LogInv
<1>3. PendingIsRelayed /\ MajorityHolds
  BY DEF Init, PendingIsRelayed, MajorityHolds
<1> QED
  BY <1>1, <1>2, <1>3 DEF CoreInv

\* As long as nothing new is delivered, no holder is lost.
LEMMA HoldersGrow ==
  ASSUME MajorityHolds, UNCHANGED delivered_messages,
         \A g \in Hosts : pending_messages[g] \subseteq pending_messages'[g]
  PROVE  MajorityHolds'
PROOF
<1> SUFFICES ASSUME NEW g \in Hosts, NEW bm \in delivered_messages'[g]
             PROVE  2 * Cardinality(Holders(bm)') > Cardinality(Hosts)
  BY DEF MajorityHolds
<1>1. bm \in delivered_messages[g]
  OBVIOUS
<1>2. Holders(bm) \subseteq Holders(bm)' /\ Holders(bm)' \subseteq Hosts
  BY DEF Holders
<1>3. IsFiniteSet(Hosts)
  BY BroadcastAssumption
<1>4. Cardinality(Holders(bm)) <= Cardinality(Holders(bm)')
  BY <1>2, <1>3, FS_Subset
<1>5. Cardinality(Holders(bm)) \in Nat /\ Cardinality(Holders(bm)') \in Nat
      /\ Cardinality(Hosts) \in Nat
  BY <1>2, <1>3, FS_Subset, FS_CardinalityType
<1>6. 2 * Cardinality(Holders(bm)) > Cardinality(Hosts)
  BY <1>1 DEF MajorityHolds
<1> QED
  BY <1>4, <1>5, <1>6

(***************************************************************************)
(* Each action preserves each part.                                        *)
(***************************************************************************)
LEMMA BroadcastStep ==
  ASSUME CoreInv, NEW h \in Hosts, Broadcast(h)
  PROVE  CoreInv'
PROOF
<1> DEFINE new == BroadcastMessage(h, next_id[h])
<1> USE DEF CoreInv
<1>1. new \in Messages
  <2>1. next_id[h] \in Nat /\ MessageCount[h] \in Nat /\ next_id[h] < MessageCount[h]
    BY BroadcastAssumption DEF Broadcast, TypeOK
  <2>2. next_id[h] \in 0 .. MessageCount[h] - 1
    BY <2>1
  <2> QED
    BY <2>2, MessagesMember
<1>2. /\ broadcasting[h] = {}
      /\ next_id' = [next_id EXCEPT ![h] = @ + 1]
      /\ broadcasting' = [broadcasting EXCEPT ![h] = {new}]
      /\ pending_messages' = [pending_messages EXCEPT ![h] = @ \cup {new}]
      /\ UNCHANGED <<acked_messages, delivered_messages, transit, log, stopped>>
  BY DEF Broadcast
<1> HIDE DEF new
<1>3. TypeOK'
  BY <1>1, <1>2 DEF TypeOK
<1>4. /\ \A g \in Hosts : pending_messages[g] \subseteq pending_messages'[g]
      /\ \A g \in Hosts \ {h} : pending_messages'[g] = pending_messages[g]
      /\ pending_messages'[h] = pending_messages[h] \cup {new}
      /\ \A g \in Hosts \ {h} : broadcasting'[g] = broadcasting[g]
      /\ broadcasting'[h] = {new}
      /\ \A g \in Hosts \ {h} : next_id'[g] = next_id[g]
      /\ next_id'[h] = next_id[h] + 1
      /\ next_id[h] \in Nat
  BY <1>2 DEF TypeOK
<1>5. HandsInv'
  BY <1>4 DEF HandsInv
<1>6. HandedInv'
  <2>1. \A g \in Hosts : 0 .. next_id[g] - 1 \subseteq 0 .. next_id'[g] - 1
    <3> SUFFICES ASSUME NEW g \in Hosts PROVE 0 .. next_id[g] - 1 \subseteq 0 .. next_id'[g] - 1
      OBVIOUS
    <3>1. next_id[g] \in Nat
      BY DEF TypeOK
    <3>2. next_id'[g] = next_id[g] \/ next_id'[g] = next_id[g] + 1
      BY <1>4
    <3> QED
      BY <3>1, <3>2
  <2>2. next_id[h] \in 0 .. next_id'[h] - 1
    BY <1>4
  <2>3. Handed \subseteq Handed' /\ new \in Handed'
    BY <2>1, <2>2 DEF Handed, new
  <2> QED
    BY <1>4, <2>3 DEF HandedInv
<1>7. HolderInv'
  BY <1>2, <1>4, LinkMessage DEF HolderInv, TypeOK
<1>8. LogInv'
  BY <1>2, <1>4 DEF LogInv
<1>9. PendingIsRelayed'
  BY <1>2, <1>4 DEF PendingIsRelayed
<1>10. MajorityHolds'
  BY <1>2, <1>4, HoldersGrow
<1> QED
  BY <1>3, <1>5, <1>6, <1>7, <1>8, <1>9, <1>10

LEMMA BebBroadcastStep ==
  ASSUME CoreInv, NEW h \in Hosts, BebBroadcast(h)
  PROVE  CoreInv'
PROOF
<1> USE DEF CoreInv
<1>1. PICK bm \in broadcasting[h] : transit' = transit \cup Copies(h, bm)
  BY DEF BebBroadcast
<1>2. /\ broadcasting' = [broadcasting EXCEPT ![h] = {}]
      /\ UNCHANGED <<next_id, pending_messages, acked_messages, delivered_messages, log, stopped>>
  BY DEF BebBroadcast
<1>3. bm \in Messages /\ bm \in pending_messages[h]
  BY DEF TypeOK, HandsInv
<1>4. TypeOK'
  BY <1>1, <1>2, <1>3, CopiesMember DEF TypeOK
<1>5. /\ \A g \in Hosts : broadcasting'[g] \subseteq broadcasting[g]
      /\ \A g \in Hosts \ {h} : broadcasting'[g] = broadcasting[g]
  BY <1>2 DEF TypeOK
<1>6. HandsInv'
  BY <1>2, <1>5 DEF HandsInv
<1>7. HandedInv'
  BY <1>2 DEF HandedInv, Handed
<1>8. HolderInv'
  BY <1>1, <1>2, <1>3, CopiesMember DEF HolderInv
<1>9. LogInv'
  BY <1>2 DEF LogInv
<1>10. PendingIsRelayed'
  <2> SUFFICES ASSUME NEW f \in Hosts, NEW g \in Hosts, NEW cm \in pending_messages[f]
               PROVE  \/ cm \in broadcasting'[f]
                      \/ [sender |-> f, receiver |-> g, message |-> cm] \in transit'
                      \/ <<f, cm>> \in acked_messages[g]
    BY <1>2 DEF PendingIsRelayed
  <2>1. CASE f = h /\ cm \in broadcasting[f]
    <3>1. cm = bm
      BY <2>1 DEF HandsInv
    <3> QED
      BY <1>1, <1>3, <2>1, <3>1, CopiesMember
  <2>2. CASE ~(f = h /\ cm \in broadcasting[f])
    BY <1>1, <1>5, <2>2 DEF PendingIsRelayed
  <2> QED
    BY <2>1, <2>2
<1>11. MajorityHolds'
  BY <1>2, HoldersGrow
<1> QED
  BY <1>4, <1>6, <1>7, <1>8, <1>9, <1>10, <1>11

LEMMA StopStep ==
  ASSUME CoreInv, NEW h \in Hosts, Stop(h)
  PROVE  CoreInv'
PROOF
<1> USE DEF CoreInv
<1>1. UNCHANGED <<next_id, broadcasting, pending_messages, acked_messages,
                  delivered_messages, transit, log>> /\ stopped' = stopped \cup {h}
  BY DEF Stop, mainVars
<1>2. TypeOK'
  BY <1>1 DEF TypeOK
<1>3. HandsInv' /\ HandedInv' /\ HolderInv' /\ LogInv'
  BY <1>1 DEF HandsInv, HandedInv, Handed, HolderInv, LogInv
<1>4. PendingIsRelayed'
  BY <1>1 DEF PendingIsRelayed
<1>5. MajorityHolds'
  BY <1>1, HoldersGrow
<1> QED
  BY <1>2, <1>3, <1>4, <1>5

(***************************************************************************)
(* The ack that every receipt records is that of a host with the message.  *)
(***************************************************************************)
LEMMA ReceivedStep ==
  ASSUME CoreInv, NEW tm \in transit, Received(tm)
  PROVE  /\ tm \in LinkMessages
         /\ acked_messages' \in [Hosts -> SUBSET (Hosts \X Messages)]
         /\ \A h \in Hosts : acked_messages[h] \subseteq acked_messages'[h]
         /\ <<tm.sender, tm.message>> \in acked_messages'[tm.receiver]
         /\ \A h, s \in Hosts : \A bm \in Messages :
              <<s, bm>> \in acked_messages'[h] => bm \in pending_messages[s]
PROOF
<1>1. tm \in LinkMessages
  BY DEF CoreInv, TypeOK
<1>2. tm.sender \in Hosts /\ tm.receiver \in Hosts /\ tm.message \in Messages
  BY <1>1, LinkMessage
<1>3. /\ acked_messages \in [Hosts -> SUBSET (Hosts \X Messages)]
      /\ acked_messages' =
           [acked_messages EXCEPT ![tm.receiver] = @ \cup {<<tm.sender, tm.message>>}]
  BY DEF CoreInv, TypeOK, Received
<1>4. \A h, s \in Hosts : \A bm \in Messages :
         <<s, bm>> \in acked_messages'[h] => bm \in pending_messages[s]
  <2>1. \A h, s \in Hosts : \A bm \in Messages :
           <<s, bm>> \in acked_messages'[h] =>
             <<s, bm>> \in acked_messages[h] \/ (s = tm.sender /\ bm = tm.message)
    BY <1>2, <1>3
  <2> QED
    BY <2>1 DEF CoreInv, HolderInv
<1> QED
  BY <1>1, <1>2, <1>3, <1>4

LEMMA RelayStep ==
  ASSUME CoreInv, NEW tm \in transit, Relay(tm)
  PROVE  CoreInv'
PROOF
<1> DEFINE h == tm.receiver
           bm == tm.message
<1> USE DEF CoreInv
<1>1. Received(tm)
  BY DeliverSteps
<1>2. h \in Hosts /\ bm \in Messages /\ tm.sender \in Hosts /\ tm = [sender |-> tm.sender, receiver |-> h, message |-> bm]
  BY <1>1, ReceivedStep, LinkMessage
<1>3. /\ pending_messages' = [pending_messages EXCEPT ![h] = @ \cup {bm}]
      /\ transit' = (transit \ {tm}) \cup Copies(h, bm)
      /\ UNCHANGED <<next_id, broadcasting, delivered_messages, log, stopped>>
  BY DEF Relay, mainVars
<1>4. bm \in pending_messages[tm.sender]
  BY DEF HolderInv
<1> HIDE DEF h, bm
<1>5. TypeOK'
  <2>1. transit' \subseteq LinkMessages
    BY <1>2, <1>3, CopiesMember DEF TypeOK
  <2>2. pending_messages' \in [Hosts -> SUBSET Messages]
    BY <1>2, <1>3 DEF TypeOK
  <2>3. acked_messages' \in [Hosts -> SUBSET (Hosts \X Messages)]
    BY <1>1, ReceivedStep
  <2> QED
    BY <1>3, <2>1, <2>2, <2>3 DEF TypeOK
<1>6. /\ \A g \in Hosts : pending_messages[g] \subseteq pending_messages'[g]
      /\ \A g \in Hosts \ {h} : pending_messages'[g] = pending_messages[g]
      /\ pending_messages'[h] = pending_messages[h] \cup {bm}
  BY <1>2, <1>3 DEF TypeOK
<1>7. HandsInv'
  BY <1>3, <1>6 DEF HandsInv
<1>8. HandedInv'
  <2>1. bm \in Handed
    BY <1>2, <1>4 DEF HandedInv
  <2> QED
    BY <1>3, <1>6, <2>1 DEF HandedInv, Handed
<1>9. HolderInv'
  <2>1. \A cm \in transit' : cm.message \in pending_messages'[cm.sender]
    <3> SUFFICES ASSUME NEW cm \in transit' PROVE cm.message \in pending_messages'[cm.sender]
      OBVIOUS
    <3>1. CASE cm \in transit
      BY <1>6, <3>1, LinkMessage DEF HolderInv, TypeOK
    <3>2. CASE cm \in Copies(h, bm)
      BY <1>2, <1>6, <3>2, CopiesMember
    <3> QED
      BY <1>3, <3>1, <3>2
  <2>2. \A g, s \in Hosts : \A cm \in Messages :
           <<s, cm>> \in acked_messages'[g] => cm \in pending_messages'[s]
    BY <1>1, <1>6, ReceivedStep
  <2> QED
    BY <2>1, <2>2 DEF HolderInv
<1>10. LogInv'
  BY <1>3, <1>6 DEF LogInv
<1>11. PendingIsRelayed'
  <2> SUFFICES ASSUME NEW f \in Hosts, NEW g \in Hosts, NEW cm \in pending_messages'[f]
               PROVE  \/ cm \in broadcasting'[f]
                      \/ [sender |-> f, receiver |-> g, message |-> cm] \in transit'
                      \/ <<f, cm>> \in acked_messages'[g]
    BY DEF PendingIsRelayed
  <2>1. CASE f = h /\ cm = bm
    BY <1>2, <1>3, <2>1, CopiesMember
  <2>2. CASE ~(f = h /\ cm = bm)
    <3>1. cm \in pending_messages[f]
      BY <1>6, <2>2
    <3>2. CASE [sender |-> f, receiver |-> g, message |-> cm] = tm
      BY <1>1, <3>2, ReceivedStep
    <3>3. CASE [sender |-> f, receiver |-> g, message |-> cm] # tm
      BY <1>1, <1>3, <3>1, <3>3, ReceivedStep DEF PendingIsRelayed
    <3> QED
      BY <3>2, <3>3
  <2> QED
    BY <2>1, <2>2
<1>12. MajorityHolds'
  BY <1>3, <1>6, HoldersGrow
<1> QED
  BY <1>5, <1>7, <1>8, <1>9, <1>10, <1>11, <1>12

(***************************************************************************)
(* A receipt of a message that is pending already relays nothing.          *)
(***************************************************************************)
LEMMA ConsumedStep ==
  ASSUME CoreInv, NEW tm \in transit, Received(tm), transit' = transit \ {tm},
         UNCHANGED pending_messages
  PROVE  HandsInv' /\ HandedInv' /\ HolderInv' /\ PendingIsRelayed'
PROOF
<1> USE DEF CoreInv
<1>1. UNCHANGED <<next_id, broadcasting>>
  BY DEF Received
<1>2. HandsInv' /\ HandedInv'
  BY <1>1 DEF HandsInv, HandedInv, Handed
<1>3. HolderInv'
  BY ReceivedStep DEF HolderInv
<1>4. PendingIsRelayed'
  <2> SUFFICES ASSUME NEW f \in Hosts, NEW g \in Hosts, NEW cm \in pending_messages[f]
               PROVE  \/ cm \in broadcasting'[f]
                      \/ [sender |-> f, receiver |-> g, message |-> cm] \in transit'
                      \/ <<f, cm>> \in acked_messages'[g]
    BY DEF PendingIsRelayed
  <2>1. CASE [sender |-> f, receiver |-> g, message |-> cm] = tm
    BY <2>1, ReceivedStep
  <2>2. CASE [sender |-> f, receiver |-> g, message |-> cm] # tm
    BY <1>1, <2>2, ReceivedStep DEF PendingIsRelayed
  <2> QED
    BY <2>1, <2>2
<1> QED
  BY <1>2, <1>3, <1>4

LEMMA RecordStep ==
  ASSUME CoreInv, NEW tm \in transit, Record(tm)
  PROVE  CoreInv'
PROOF
<1>1. Received(tm)
  BY DeliverSteps
<1>2. /\ transit' = transit \ {tm}
      /\ UNCHANGED <<next_id, broadcasting, pending_messages, delivered_messages, log, stopped>>
  BY DEF Record, mainVars
<1>3. HandsInv' /\ HandedInv' /\ HolderInv' /\ PendingIsRelayed'
  BY <1>1, <1>2, ConsumedStep
<1>4. TypeOK'
  BY <1>1, <1>2, ReceivedStep DEF CoreInv, TypeOK
<1>5. LogInv'
  BY <1>2 DEF CoreInv, LogInv
<1>6. MajorityHolds'
  BY <1>2, HoldersGrow DEF CoreInv
<1> QED
  BY <1>3, <1>4, <1>5, <1>6 DEF CoreInv

(***************************************************************************)
(* More than half of the hosts: n \div 2 + 1 is the least such number.     *)
(***************************************************************************)
LEMMA Majority ==
  ASSUME NEW n \in Nat, NEW m \in Nat, m >= (n \div 2) + 1
  PROVE  2 * m > n
PROOF
  OBVIOUS

LEMMA UrbDeliverStep ==
  ASSUME CoreInv, NEW tm \in transit, UrbDeliver(tm)
  PROVE  CoreInv'
PROOF
<1> DEFINE h == tm.receiver
           bm == tm.message
<1>1. Received(tm)
  BY DeliverSteps
<1>2. h \in Hosts /\ bm \in Messages
  BY <1>1, ReceivedStep, LinkMessage
<1>3. /\ bm \in pending_messages[h]
      /\ can_deliver(bm, acked_messages'[h])
      /\ delivered_messages' = [delivered_messages EXCEPT ![h] = @ \cup {bm}]
      /\ log' = [log EXCEPT ![h] = Append(@, bm)]
      /\ transit' = transit \ {tm}
      /\ UNCHANGED <<next_id, broadcasting, pending_messages, stopped>>
  BY DEF UrbDeliver, mainVars
<1> HIDE DEF h, bm
<1>4. HandsInv' /\ HandedInv' /\ HolderInv' /\ PendingIsRelayed'
  BY <1>1, <1>3, ConsumedStep
<1>5. TypeOK'
  <2>1. acked_messages' \in [Hosts -> SUBSET (Hosts \X Messages)]
    BY <1>1, ReceivedStep
  <2>2. log' \in [Hosts -> Seq(Messages)]
    BY <1>2, <1>3 DEF CoreInv, TypeOK
  <2>3. delivered_messages' \in [Hosts -> SUBSET Messages]
    BY <1>2, <1>3 DEF CoreInv, TypeOK
  <2> QED
    BY <1>3, <2>1, <2>2, <2>3 DEF CoreInv, TypeOK
<1>6. LogInv'
  <2> SUFFICES ASSUME NEW g \in Hosts
               PROVE  /\ \A k \in DOMAIN log'[g] : log'[g][k] \in delivered_messages'[g]
                      /\ delivered_messages'[g] \subseteq pending_messages[g]
    BY <1>3 DEF LogInv
  <2>1. /\ log[g] \in Seq(Messages)
        /\ \A k \in DOMAIN log[g] : log[g][k] \in delivered_messages[g]
        /\ delivered_messages[g] \subseteq pending_messages[g]
    BY DEF CoreInv, TypeOK, LogInv
  <2>2. CASE g = h
    <3>1. log'[g] = Append(log[g], bm) /\ delivered_messages'[g] = delivered_messages[g] \cup {bm}
      BY <1>2, <1>3, <2>2 DEF CoreInv, TypeOK
    <3> QED
      BY <1>3, <2>1, <2>2, <3>1
  <2>3. CASE g # h
    <3>1. log'[g] = log[g] /\ delivered_messages'[g] = delivered_messages[g]
      BY <1>3, <2>3 DEF CoreInv, TypeOK
    <3> QED
      BY <2>1, <3>1
  <2> QED
    BY <2>2, <2>3
<1>7. MajorityHolds'
  <2>1. \A cm : Holders(cm)' = Holders(cm)
    BY <1>3 DEF Holders
  <2>2. IsFiniteSet(Hosts) /\ Holders(bm) \subseteq Hosts
        /\ Ackers(bm, acked_messages'[h]) \subseteq Holders(bm)
    BY <1>1, <1>2, ReceivedStep, BroadcastAssumption DEF Ackers, Holders
  <2>3. Cardinality(Ackers(bm, acked_messages'[h])) <= Cardinality(Holders(bm))
    BY <2>2, FS_Subset
  <2>4. Cardinality(Hosts) \in Nat /\ Cardinality(Holders(bm)) \in Nat
        /\ Cardinality(Ackers(bm, acked_messages'[h])) \in Nat
    BY <2>2, FS_Subset, FS_CardinalityType
  <2>5. Cardinality(Holders(bm)) >= (Cardinality(Hosts) \div 2) + 1
    BY <1>3, <2>3, <2>4 DEF can_deliver
  <2>6. 2 * Cardinality(Holders(bm)) > Cardinality(Hosts)
    BY <2>4, <2>5, Majority
  <2>7. \A g \in Hosts : \A cm \in delivered_messages'[g] :
           cm \in delivered_messages[g] \/ cm = bm
    BY <1>2, <1>3 DEF CoreInv, TypeOK
  <2> QED
    BY <2>1, <2>6, <2>7 DEF MajorityHolds, CoreInv
<1> QED
  BY <1>4, <1>5, <1>6, <1>7 DEF CoreInv

-----------------------------------------------------------------------------
LEMMA NextCoreInv == CoreInv /\ [Next]_vars => CoreInv'
PROOF
<1> SUFFICES ASSUME CoreInv, [Next]_vars PROVE CoreInv'
  OBVIOUS
<1>1. ASSUME NEW h \in Hosts, Broadcast(h) PROVE CoreInv'
  BY <1>1, BroadcastStep
<1>2. ASSUME NEW h \in Hosts, BebBroadcast(h) PROVE CoreInv'
  BY <1>2, BebBroadcastStep
<1>3. ASSUME NEW h \in Hosts, Stop(h) PROVE CoreInv'
  BY <1>3, StopStep
<1>4. ASSUME NEW tm \in transit, Relay(tm) PROVE CoreInv'
  BY <1>4, RelayStep
<1>5. ASSUME NEW tm \in transit, UrbDeliver(tm) PROVE CoreInv'
  BY <1>5, UrbDeliverStep
<1>6. ASSUME NEW tm \in transit, Record(tm) PROVE CoreInv'
  BY <1>6, RecordStep
<1>7. CASE UNCHANGED vars
  <2>1. TypeOK' /\ HandsInv' /\ HandedInv' /\ HolderInv'
    BY <1>7 DEF CoreInv, vars, mainVars, TypeOK, HandsInv, HandedInv, Handed, HolderInv
  <2>2. LogInv' /\ PendingIsRelayed' /\ MajorityHolds'
    BY <1>7 DEF CoreInv, vars, mainVars, LogInv, PendingIsRelayed, MajorityHolds, Holders
  <2> QED
    BY <2>1, <2>2 DEF CoreInv
<1> QED
  BY <1>1, <1>2, <1>3, <1>4, <1>5, <1>6, <1>7 DEF Next

-----------------------------------------------------------------------------
(***************************************************************************)
(* The second half: each link message is sent once, and no majority goes   *)
(* unnoticed.                                                              *)
(***************************************************************************)
LEMMA InitIndInv == Init => IndInv
PROOF
<1> SUFFICES ASSUME Init PROVE IndInv
  OBVIOUS
<1>1. CoreInv
  BY InitCoreInv
<1>2. SentOnce /\ SettledInv
  BY DEF Init, SentOnce, SettledInv
<1> QED
  BY <1>1, <1>2 DEF IndInv

\* The message a host broadcasts next is not known to anybody.
LEMMA NewMessage ==
  ASSUME CoreInv, NEW h \in Hosts
  PROVE  BroadcastMessage(h, next_id[h]) \notin Handed
PROOF
<1>1. \A g \in Hosts : next_id[g] \in Nat
  BY DEF CoreInv, TypeOK
<1>2. ASSUME NEW g \in Hosts, NEW n \in 0 .. next_id[g] - 1,
             BroadcastMessage(h, next_id[h]) = BroadcastMessage(g, n)
      PROVE  FALSE
  <2>1. h = g /\ next_id[h] = n
    BY <1>2 DEF BroadcastMessage
  <2> QED
    BY <1>1, <1>2, <2>1
<1> QED
  BY <1>2, HandedMember

\* What a receipt adds to the acks.
LEMMA AcksAfter ==
  ASSUME CoreInv, NEW tm \in transit, Received(tm)
  PROVE  /\ tm.sender \in Hosts /\ tm.receiver \in Hosts /\ tm.message \in Messages
         /\ \A g \in Hosts : \A ack :
              ack \in acked_messages'[g] <=>
                \/ ack \in acked_messages[g]
                \/ g = tm.receiver /\ ack = <<tm.sender, tm.message>>
PROOF
<1>1. tm.sender \in Hosts /\ tm.receiver \in Hosts /\ tm.message \in Messages
  BY LinkMessage DEF CoreInv, TypeOK
<1> QED
  BY <1>1 DEF CoreInv, TypeOK, Received

LEMMA SentOnceStep == CoreInv /\ SentOnce /\ [Next]_vars => SentOnce'
PROOF
<1> SUFFICES ASSUME CoreInv, SentOnce, [Next]_vars PROVE SentOnce'
  OBVIOUS
<1>1. ASSUME NEW h \in Hosts, Broadcast(h) PROVE SentOnce'
  <2> DEFINE new == BroadcastMessage(h, next_id[h])
  <2>1. /\ broadcasting' = [broadcasting EXCEPT ![h] = {new}]
        /\ UNCHANGED <<acked_messages, transit>>
    BY <1>1 DEF Broadcast
  <2>2. new \notin pending_messages[h] /\ new \in Messages
    <3>1. new \notin Handed
      BY NewMessage
    <3>2. next_id[h] \in Nat /\ MessageCount[h] \in Nat
      BY BroadcastAssumption DEF CoreInv, TypeOK
    <3>3. next_id[h] < MessageCount[h]
      BY <1>1 DEF Broadcast
    <3>4. next_id[h] \in 0 .. MessageCount[h] - 1
      BY <3>2, <3>3
    <3> QED
      BY <3>1, <3>4, MessagesMember DEF CoreInv, HandedInv
  <2> HIDE DEF new
  <2>3. \A g \in Hosts : /\ [sender |-> h, receiver |-> g, message |-> new] \notin transit
                         /\ <<h, new>> \notin acked_messages[g]
    BY <2>2 DEF CoreInv, HolderInv
  <2>4. \A f \in Hosts : broadcasting'[f] = IF f = h THEN {new} ELSE broadcasting[f]
    BY <2>1 DEF CoreInv, TypeOK
  <2>5. \A f, g \in Hosts : \A bm \in broadcasting'[f] :
           /\ [sender |-> f, receiver |-> g, message |-> bm] \notin transit
           /\ <<f, bm>> \notin acked_messages[g]
    <3> SUFFICES ASSUME NEW f \in Hosts, NEW g \in Hosts, NEW bm \in broadcasting'[f]
                 PROVE  /\ [sender |-> f, receiver |-> g, message |-> bm] \notin transit
                        /\ <<f, bm>> \notin acked_messages[g]
      OBVIOUS
    <3>1. CASE f = h
      BY <2>3, <2>4, <3>1
    <3>2. CASE f # h
      BY <2>4, <3>2 DEF SentOnce
    <3> QED
      BY <3>1, <3>2
  <2>6. transit' = transit /\ acked_messages' = acked_messages
    BY <2>1
  <2>7. \A tm \in transit : <<tm.sender, tm.message>> \notin acked_messages[tm.receiver]
    BY DEF SentOnce
  <2> QED
    BY <2>5, <2>6, <2>7 DEF SentOnce
<1>2. ASSUME NEW h \in Hosts, BebBroadcast(h) PROVE SentOnce'
  <2>1. PICK bm \in broadcasting[h] : transit' = transit \cup Copies(h, bm)
    BY <1>2 DEF BebBroadcast
  <2>2. broadcasting' = [broadcasting EXCEPT ![h] = {}] /\ UNCHANGED acked_messages
    BY <1>2 DEF BebBroadcast
  <2>3. bm \in Messages
    BY DEF CoreInv, TypeOK
  <2>4. \A tm \in Copies(h, bm) : <<tm.sender, tm.message>> \notin acked_messages[tm.receiver]
    <3>1. \A tm \in Copies(h, bm) : tm.sender = h /\ tm.message = bm /\ tm.receiver \in Hosts
      BY <2>3, CopiesMember, LinkMessage
    <3> QED
      BY <3>1 DEF SentOnce
  <2>5. \A f \in Hosts : broadcasting'[f] = IF f = h THEN {} ELSE broadcasting[f]
    BY <2>2 DEF CoreInv, TypeOK
  <2>6. \A f, g \in Hosts : \A cm \in broadcasting'[f] :
           [sender |-> f, receiver |-> g, message |-> cm] \notin transit'
    <3> SUFFICES ASSUME NEW f \in Hosts, NEW g \in Hosts, NEW cm \in broadcasting'[f]
                 PROVE  [sender |-> f, receiver |-> g, message |-> cm] \notin transit'
      OBVIOUS
    <3>1. f # h /\ cm \in broadcasting[f]
      BY <2>5
    <3>2. [sender |-> f, receiver |-> g, message |-> cm] \notin Copies(h, bm)
      BY <2>3, <3>1, CopiesMember
    <3>3. [sender |-> f, receiver |-> g, message |-> cm] \notin transit
      BY <3>1 DEF SentOnce
    <3> QED
      BY <2>1, <3>2, <3>3
  <2>7. \A f, g \in Hosts : \A cm \in broadcasting'[f] : <<f, cm>> \notin acked_messages'[g]
    <3> SUFFICES ASSUME NEW f \in Hosts, NEW g \in Hosts, NEW cm \in broadcasting'[f]
                 PROVE  <<f, cm>> \notin acked_messages'[g]
      OBVIOUS
    <3>1. cm \in broadcasting[f]
      BY <2>5
    <3>2. <<f, cm>> \notin acked_messages[g]
      BY <3>1 DEF SentOnce
    <3> QED
      BY <2>2, <3>2
  <2>8. \A tm \in transit' : <<tm.sender, tm.message>> \notin acked_messages'[tm.receiver]
    <3>1. \A tm \in transit : <<tm.sender, tm.message>> \notin acked_messages[tm.receiver]
      BY DEF SentOnce
    <3>2. acked_messages' = acked_messages
      BY <2>2
    <3> QED
      BY <2>1, <2>4, <3>1, <3>2
  <2> QED
    BY <2>6, <2>7, <2>8 DEF SentOnce
<1>3. ASSUME NEW tm \in transit, Received(tm), transit' = transit \ {tm} PROVE SentOnce'
  <2> USE <1>3
  <2>1. broadcasting' = broadcasting
    BY DEF Received
  <2>2. \A um \in transit' : <<um.sender, um.message>> \notin acked_messages'[um.receiver]
    <3> SUFFICES ASSUME NEW um \in transit'
                 PROVE  <<um.sender, um.message>> \notin acked_messages'[um.receiver]
      OBVIOUS
    <3>1. um \in transit /\ um # tm
      OBVIOUS
    <3>2. um \in LinkMessages /\ tm \in LinkMessages
      BY <3>1 DEF CoreInv, TypeOK
    <3>3. ~(um.receiver = tm.receiver /\ um.sender = tm.sender /\ um.message = tm.message)
      BY <3>1, <3>2, LinkMessage
    <3> QED
      BY <3>1, <3>2, <3>3, AcksAfter, LinkMessage DEF SentOnce
  <2>3. \A h, g \in Hosts : \A bm \in broadcasting[h] :
           /\ [sender |-> h, receiver |-> g, message |-> bm] \notin transit'
           /\ <<h, bm>> \notin acked_messages'[g]
    <3> SUFFICES ASSUME NEW h \in Hosts, NEW g \in Hosts, NEW bm \in broadcasting[h]
                 PROVE  /\ [sender |-> h, receiver |-> g, message |-> bm] \notin transit'
                        /\ <<h, bm>> \notin acked_messages'[g]
      OBVIOUS
    <3>1. tm # [sender |-> h, receiver |-> g, message |-> bm]
      BY DEF SentOnce
    <3>2. ~(g = tm.receiver /\ <<h, bm>> = <<tm.sender, tm.message>>)
      BY <3>1, LinkMessage DEF CoreInv, TypeOK
    <3> QED
      BY <3>2, AcksAfter DEF SentOnce
  <2> QED
    BY <2>1, <2>2, <2>3 DEF SentOnce
<1>4. ASSUME NEW tm \in transit, Relay(tm) PROVE SentOnce'
  <2> DEFINE h == tm.receiver
             bm == tm.message
  <2>1. Received(tm)
    BY <1>4, DeliverSteps
  <2>2. transit' = (transit \ {tm}) \cup Copies(h, bm) /\ bm \notin pending_messages[h]
    BY <1>4 DEF Relay
  <2>3. /\ h \in Hosts /\ bm \in Messages /\ tm.sender \in Hosts
        /\ bm \in pending_messages[tm.sender]
    BY <2>1, AcksAfter DEF CoreInv, HolderInv
  <2>4. broadcasting' = broadcasting
    BY <2>1 DEF Received
  <2> HIDE DEF h, bm
  <2>5. \A g \in Hosts : <<h, bm>> \notin acked_messages'[g]
    <3>1. tm.sender # h
      BY <2>2, <2>3
    <3>2. \A g \in Hosts : <<h, bm>> \notin acked_messages[g]
      BY <2>2, <2>3 DEF CoreInv, HolderInv
    <3> QED
      BY <2>1, <3>1, <3>2, AcksAfter
  <2>6. \A um \in transit' : <<um.sender, um.message>> \notin acked_messages'[um.receiver]
    <3> SUFFICES ASSUME NEW um \in transit'
                 PROVE  <<um.sender, um.message>> \notin acked_messages'[um.receiver]
      OBVIOUS
    <3>1. CASE um \in Copies(h, bm)
      <4>1. um.sender = h /\ um.message = bm /\ um.receiver \in Hosts
        BY <2>3, <3>1, CopiesMember, LinkMessage
      <4> QED
        BY <2>5, <4>1
    <3>2. CASE um \in transit /\ um # tm
      <4>1. um \in LinkMessages /\ tm \in LinkMessages
        BY <3>2 DEF CoreInv, TypeOK
      <4>2. ~(um.receiver = tm.receiver /\ um.sender = tm.sender /\ um.message = tm.message)
        BY <3>2, <4>1, LinkMessage
      <4> QED
        BY <2>1, <3>2, <4>1, <4>2, AcksAfter, LinkMessage DEF SentOnce
    <3> QED
      BY <2>2, <3>1, <3>2
  <2>7. ASSUME NEW f \in Hosts, NEW g \in Hosts, NEW cm \in broadcasting[f]
        PROVE  /\ [sender |-> f, receiver |-> g, message |-> cm] \notin transit'
               /\ <<f, cm>> \notin acked_messages'[g]
    <3>1. ~(f = h /\ cm = bm)
      BY <2>2, <2>7 DEF CoreInv, HandsInv
    <3>2. [sender |-> f, receiver |-> g, message |-> cm] \notin Copies(h, bm)
      BY <2>3, <3>1, CopiesMember
    <3>3. /\ [sender |-> f, receiver |-> g, message |-> cm] \notin transit
          /\ <<f, cm>> \notin acked_messages[g]
      BY <2>7 DEF SentOnce
    <3>4. ~(g = tm.receiver /\ <<f, cm>> = <<tm.sender, tm.message>>)
      BY <3>3, LinkMessage DEF CoreInv, TypeOK
    <3> QED
      BY <2>1, <2>2, <3>2, <3>3, <3>4, AcksAfter
  <2> QED
    BY <2>4, <2>6, <2>7 DEF SentOnce
<1>5. ASSUME NEW tm \in transit, UrbDeliver(tm) \/ Record(tm) PROVE SentOnce'
  <2>1. transit' = transit \ {tm}
    BY <1>5 DEF UrbDeliver, Record
  <2> QED
    BY <1>3, <1>5, <2>1, DeliverSteps
<1>6. ASSUME NEW h \in Hosts, Stop(h) PROVE SentOnce'
  BY <1>6 DEF Stop, SentOnce, mainVars
<1>7. CASE UNCHANGED vars
  BY <1>7 DEF vars, SentOnce, mainVars
<1> QED
  BY <1>1, <1>2, <1>4, <1>5, <1>6, <1>7 DEF Next

\* The majority test looks at the acks of one message only.
LEMMA SameAckers ==
  ASSUME NEW bm, NEW acked, NEW acked2, \A s \in Hosts : <<s, bm>> \in acked <=> <<s, bm>> \in acked2
  PROVE  can_deliver(bm, acked) <=> can_deliver(bm, acked2)
PROOF
<1>1. Ackers(bm, acked) = Ackers(bm, acked2)
  BY DEF Ackers
<1> QED
  BY <1>1 DEF can_deliver

LEMMA SettledStep == CoreInv /\ SettledInv /\ [Next]_vars => SettledInv'
PROOF
<1> SUFFICES ASSUME CoreInv, SettledInv, [Next]_vars PROVE SettledInv'
  OBVIOUS
\* All that matters is the message that is received, at the host that receives it.
<1>1. ASSUME NEW tm \in transit, Received(tm),
             \A g \in Hosts : /\ pending_messages[g] \subseteq pending_messages'[g]
                              /\ delivered_messages[g] \subseteq delivered_messages'[g],
             tm.message \in pending_messages'[tm.receiver],
             can_deliver(tm.message, acked_messages'[tm.receiver])
               /\ <<tm.receiver, tm.message>> \in acked_messages'[tm.receiver] =>
                    tm.message \in delivered_messages'[tm.receiver]
      PROVE  SettledInv'
  <2> SUFFICES ASSUME NEW h \in Hosts, NEW bm \in Messages
               PROVE  /\ \A s \in Hosts : <<s, bm>> \in acked_messages'[h] =>
                                            bm \in pending_messages'[h]
                      /\ can_deliver(bm, acked_messages'[h]) /\ <<h, bm>> \in acked_messages'[h] =>
                           bm \in delivered_messages'[h]
    BY DEF SettledInv, can_deliver, Ackers
  <2>1. CASE h = tm.receiver /\ bm = tm.message
    BY <1>1, <2>1
  <2>2. CASE ~(h = tm.receiver /\ bm = tm.message)
    <3>1. \A s \in Hosts : <<s, bm>> \in acked_messages'[h] <=> <<s, bm>> \in acked_messages[h]
      BY <1>1, <2>2, AcksAfter
    <3>2. can_deliver(bm, acked_messages'[h]) <=> can_deliver(bm, acked_messages[h])
      BY <3>1, SameAckers
    <3> QED
      BY <1>1, <3>1, <3>2 DEF SettledInv
  <2> QED
    BY <2>1, <2>2
<1>2. ASSUME NEW tm \in transit, Relay(tm) PROVE SettledInv'
  <2> DEFINE h == tm.receiver
             bm == tm.message
  <2>1. Received(tm)
    BY <1>2, DeliverSteps
  <2>2. /\ bm \notin pending_messages[h]
        /\ pending_messages' = [pending_messages EXCEPT ![h] = @ \cup {bm}]
        /\ UNCHANGED delivered_messages
    BY <1>2 DEF Relay
  <2>3. h \in Hosts /\ bm \in Messages /\ bm \in pending_messages[tm.sender]
    BY <2>1, AcksAfter DEF CoreInv, HolderInv
  <2>4. \A g \in Hosts : pending_messages[g] \subseteq pending_messages'[g]
    BY <2>2, <2>3 DEF CoreInv, TypeOK
  <2>5. bm \in pending_messages'[h]
    BY <2>2, <2>3 DEF CoreInv, TypeOK
  <2>6. <<h, bm>> \notin acked_messages'[h]
    <3>1. <<h, bm>> \notin acked_messages[h]
      BY <2>2, <2>3 DEF CoreInv, HolderInv
    <3>2. tm.sender # h
      BY <2>2, <2>3
    <3> QED
      BY <2>1, <2>3, <3>1, <3>2, AcksAfter
  <2> QED
    BY <1>1, <2>1, <2>2, <2>4, <2>5, <2>6
<1>3. ASSUME NEW tm \in transit, UrbDeliver(tm) PROVE SettledInv'
  <2>1. Received(tm)
    BY <1>3, DeliverSteps
  <2>2. /\ tm.message \in pending_messages[tm.receiver]
        /\ delivered_messages' =
             [delivered_messages EXCEPT ![tm.receiver] = @ \cup {tm.message}]
        /\ UNCHANGED pending_messages
    BY <1>3 DEF UrbDeliver
  <2>3. /\ \A g \in Hosts : delivered_messages[g] \subseteq delivered_messages'[g]
        /\ tm.message \in delivered_messages'[tm.receiver]
    BY <2>1, <2>2, AcksAfter DEF CoreInv, TypeOK
  <2> QED
    BY <1>1, <2>1, <2>2, <2>3
<1>4. ASSUME NEW tm \in transit, Record(tm) PROVE SettledInv'
  <2>1. Received(tm)
    BY <1>4, DeliverSteps
  <2>2. /\ tm.message \in pending_messages[tm.receiver]
        /\ \/ ~can_deliver(tm.message, acked_messages'[tm.receiver])
           \/ tm.message \in delivered_messages[tm.receiver]
        /\ UNCHANGED <<pending_messages, delivered_messages>>
    BY <1>4 DEF Record
  <2> QED
    BY <1>1, <2>1, <2>2
<1>5. ASSUME UNCHANGED <<acked_messages, delivered_messages>>,
             \A g \in Hosts : pending_messages[g] \subseteq pending_messages'[g]
      PROVE  SettledInv'
  BY <1>5 DEF SettledInv, can_deliver, Ackers
<1>6. ASSUME NEW h \in Hosts, Broadcast(h) PROVE SettledInv'
  BY <1>5, <1>6 DEF Broadcast, CoreInv, TypeOK
<1>7. ASSUME NEW h \in Hosts, BebBroadcast(h) \/ Stop(h) PROVE SettledInv'
  BY <1>5, <1>7 DEF BebBroadcast, Stop
<1>8. CASE UNCHANGED vars
  BY <1>5, <1>8 DEF vars
<1> QED
  BY <1>2, <1>3, <1>4, <1>6, <1>7, <1>8 DEF Next

LEMMA NextIndInv == IndInv /\ [Next]_vars => IndInv'
PROOF
  BY NextCoreInv, SentOnceStep, SettledStep DEF IndInv

(***************************************************************************)
(* The invariant holds, and with it what the run checks.                   *)
(***************************************************************************)
THEOREM IndInvHolds == Spec => []IndInv
PROOF
  BY InitIndInv, NextIndInv, PTL DEF Spec

\* Type correctness of the broadcast.
THEOREM TypeCorrect == Spec => []TypeOK
PROOF
<1>1. IndInv => TypeOK
  BY DEF IndInv, CoreInv
<1> QED
  BY <1>1, IndInvHolds, PTL

\* Nobody delivers a message before a majority holds it.
THEOREM MajorityHoldsAlways == Spec => []MajorityHolds
PROOF
<1>1. IndInv => MajorityHolds
  BY DEF IndInv, CoreInv
<1> QED
  BY <1>1, IndInvHolds, PTL

\* Whoever has a message pending has passed it on to every host.
THEOREM PendingIsRelayedAlways == Spec => []PendingIsRelayed
PROOF
<1>1. IndInv => PendingIsRelayed
  BY DEF IndInv, CoreInv
<1> QED
  BY <1>1, IndInvHolds, PTL

\* A link message is pushed once, and its receipt is never of an ack known before.
THEOREM SentOnceHolds == Spec => []SentOnce
PROOF
<1>1. IndInv => SentOnce
  BY DEF IndInv
<1> QED
  BY <1>1, IndInvHolds, PTL

(***************************************************************************)
(* Each step adds to what has happened.                                    *)
(***************************************************************************)
LEMMA HandedSame == UNCHANGED next_id => UNCHANGED Handed
PROOF
  BY DEF Handed

LEMMA BroadcastIsNew ==
  ASSUME IndInv, NEW h \in Hosts, Broadcast(h)
  PROVE  /\ Handed \subseteq Handed' /\ Handed' # Handed
         /\ \A g \in Hosts : Pushed(g)' = Pushed(g)
         /\ UNCHANGED <<stopped, acked_messages>>
PROOF
<1> USE DEF IndInv, CoreInv
<1> DEFINE new == BroadcastMessage(h, next_id[h])
<1>1. /\ broadcasting[h] = {}
      /\ next_id' = [next_id EXCEPT ![h] = @ + 1]
      /\ broadcasting' = [broadcasting EXCEPT ![h] = {new}]
      /\ pending_messages' = [pending_messages EXCEPT ![h] = @ \cup {new}]
      /\ UNCHANGED <<stopped, acked_messages>>
  BY DEF Broadcast
<1>2. new \notin Handed
  BY NewMessage
<1>3. Handed \subseteq Handed' /\ new \in Handed'
  <2>1. \A g \in Hosts : next_id[g] \in Nat /\ next_id'[g] = IF g = h THEN next_id[g] + 1 ELSE next_id[g]
    BY <1>1 DEF TypeOK
  <2>2. \A g \in Hosts : 0 .. next_id[g] - 1 \subseteq 0 .. next_id'[g] - 1
    BY <2>1
  <2>3. next_id[h] \in 0 .. next_id'[h] - 1
    BY <2>1
  <2> QED
    BY <2>2, <2>3 DEF Handed
<1> HIDE DEF new
<1>4. ASSUME NEW g \in Hosts PROVE Pushed(g)' = Pushed(g)
  <2>1. CASE g = h
    <3>1. new \notin pending_messages[h]
      BY <1>2 DEF HandedInv
    <3> QED
      BY <1>1, <2>1, <3>1 DEF Pushed, TypeOK
  <2>2. CASE g # h
    BY <1>1, <2>2 DEF Pushed, TypeOK
  <2> QED
    BY <2>1, <2>2
<1> QED
  BY <1>1, <1>2, <1>3, <1>4

LEMMA BebBroadcastIsNew ==
  ASSUME IndInv, NEW h \in Hosts, BebBroadcast(h)
  PROVE  /\ UNCHANGED <<Handed, stopped, acked_messages>>
         /\ \A g \in Hosts : Pushed(g) \subseteq Pushed(g)'
         /\ Pushed(h)' # Pushed(h)
PROOF
<1> USE DEF IndInv, CoreInv
<1>1. PICK bm \in broadcasting[h] : transit' = transit \cup Copies(h, bm)
  BY DEF BebBroadcast
<1>2. /\ broadcasting' = [broadcasting EXCEPT ![h] = {}]
      /\ UNCHANGED <<next_id, pending_messages, acked_messages, stopped>>
  BY DEF BebBroadcast
<1>3. \A g \in Hosts : broadcasting'[g] \subseteq broadcasting[g]
  BY <1>2 DEF TypeOK
<1>4. bm \in Pushed(h)' /\ bm \notin Pushed(h)
  BY <1>1, <1>2 DEF Pushed, TypeOK, HandsInv
<1>5. \A g \in Hosts : Pushed(g) \subseteq Pushed(g)'
  BY <1>2, <1>3 DEF Pushed
<1> QED
  BY <1>2, <1>4, <1>5, HandedSame

LEMMA ReceiptIsNew ==
  ASSUME IndInv, NEW tm \in transit, Relay(tm) \/ UrbDeliver(tm) \/ Record(tm)
  PROVE  /\ UNCHANGED <<Handed, stopped>>
         /\ \A g \in Hosts : /\ Pushed(g) \subseteq Pushed(g)'
                             /\ acked_messages[g] \subseteq acked_messages'[g]
         /\ \E g \in Hosts : acked_messages'[g] # acked_messages[g]
PROOF
<1> USE DEF IndInv, CoreInv
<1>1. Received(tm)
  BY DeliverSteps
<1>2. UNCHANGED <<next_id, broadcasting, stopped>>
  BY <1>1 DEF Received
<1>3. /\ tm.receiver \in Hosts
      /\ \A g \in Hosts : acked_messages[g] \subseteq acked_messages'[g]
      /\ <<tm.sender, tm.message>> \in acked_messages'[tm.receiver]
  BY <1>1, AcksAfter
<1>4. <<tm.sender, tm.message>> \notin acked_messages[tm.receiver]
  BY DEF SentOnce
<1>5. \A g \in Hosts : pending_messages[g] \subseteq pending_messages'[g]
  <2>1. \/ UNCHANGED pending_messages
        \/ pending_messages' = [pending_messages EXCEPT ![tm.receiver] = @ \cup {tm.message}]
    BY DEF Relay, UrbDeliver, Record
  <2> QED
    BY <2>1 DEF TypeOK
<1>6. \A g \in Hosts : Pushed(g) \subseteq Pushed(g)'
  BY <1>2, <1>5 DEF Pushed
<1> QED
  BY <1>2, <1>3, <1>4, <1>6, HandedSame

\* Every step adds to what has been broadcast, pushed or received, or stops a host.
THEOREM EveryStepIsNewHolds == Spec => EveryStepIsNew
PROOF
<1> DEFINE New ==
  /\ Handed \subseteq Handed' /\ stopped \subseteq stopped'
  /\ \A h \in Hosts : /\ Pushed(h) \subseteq Pushed(h)'
                      /\ acked_messages[h] \subseteq acked_messages'[h]
  /\ \/ Handed' # Handed \/ stopped' # stopped
     \/ \E h \in Hosts : Pushed(h)' # Pushed(h) \/ acked_messages'[h] # acked_messages[h]
<1>1. IndInv /\ [Next]_vars => [New]_vars
  <2> SUFFICES ASSUME IndInv, Next PROVE New
    OBVIOUS
  <2>1. ASSUME NEW h \in Hosts, Broadcast(h) PROVE New
    BY <2>1, BroadcastIsNew
  <2>2. ASSUME NEW h \in Hosts, BebBroadcast(h) PROVE New
    BY <2>2, BebBroadcastIsNew
  <2>3. ASSUME NEW h \in Hosts, Stop(h) PROVE New
    <3>1. /\ h \notin stopped /\ stopped' = stopped \cup {h}
          /\ UNCHANGED <<next_id, broadcasting, pending_messages, acked_messages>>
      BY <2>3 DEF Stop, mainVars
    <3>2. \A g \in Hosts : Pushed(g)' = Pushed(g)
      BY <3>1 DEF Pushed
    <3> QED
      BY <3>1, <3>2, HandedSame
  <2>4. ASSUME NEW tm \in transit, Relay(tm) \/ UrbDeliver(tm) \/ Record(tm) PROVE New
    BY <2>4, ReceiptIsNew
  <2> QED
    BY <2>1, <2>2, <2>3, <2>4 DEF Next
<1> QED
  BY <1>1, IndInvHolds, PTL DEF Spec, EveryStepIsNew

\* Where nothing of bm is under way, a running host that has it pending is known everywhere.
LEMMA QuietIsAcked ==
  ASSUME IndInv, NEW bm \in Messages, ~UnderWay(bm),
         NEW h \in Hosts \ stopped, bm \in pending_messages[h]
  PROVE  \A g \in Hosts \ stopped :
           <<h, bm>> \in acked_messages[g] /\ bm \in pending_messages[g]
PROOF
<1> SUFFICES ASSUME NEW g \in Hosts \ stopped
             PROVE  <<h, bm>> \in acked_messages[g] /\ bm \in pending_messages[g]
  OBVIOUS
<1> DEFINE tm == [sender |-> h, receiver |-> g, message |-> bm]
<1>1. bm \notin broadcasting[h]
  BY DEF UnderWay
<1>2. tm \notin transit
  <2>1. tm.message = bm /\ tm.sender \notin stopped /\ tm.receiver \notin stopped
    OBVIOUS
  <2> HIDE DEF tm
  <2> QED
    BY <2>1 DEF UnderWay
<1>3. <<h, bm>> \in acked_messages[g]
  BY <1>1, <1>2 DEF IndInv, CoreInv, PendingIsRelayed
<1> QED
  BY <1>3 DEF IndInv, SettledInv

\* What somebody has delivered is held by a running host, while a majority runs.
LEMMA DeliveredSurvives ==
  ASSUME IndInv, 2 * Cardinality(stopped) < Cardinality(Hosts),
         NEW h \in Hosts, NEW bm \in delivered_messages[h]
  PROVE  \E g \in Hosts \ stopped : bm \in pending_messages[g]
PROOF
<1> SUFFICES ASSUME Holders(bm) \subseteq stopped PROVE FALSE
  BY DEF Holders
<1>1. IsFiniteSet(stopped) /\ stopped \subseteq Hosts
  BY BroadcastAssumption, FS_Subset DEF IndInv, CoreInv, TypeOK
<1>2. Cardinality(Holders(bm)) <= Cardinality(stopped) /\ IsFiniteSet(Holders(bm))
  BY <1>1, FS_Subset
<1>3. /\ Cardinality(Holders(bm)) \in Nat
      /\ Cardinality(stopped) \in Nat
      /\ Cardinality(Hosts) \in Nat
  BY <1>1, <1>2, BroadcastAssumption, FS_CardinalityType
<1>4. 2 * Cardinality(Holders(bm)) > Cardinality(Hosts)
  BY DEF IndInv, CoreInv, MajorityHolds
<1> QED
  BY <1>2, <1>3, <1>4

LEMMA NothingStuck == IndInv => NoDeliveryStuck
PROOF
<1> SUFFICES ASSUME IndInv, 2 * Cardinality(stopped) < Cardinality(Hosts),
                    NEW bm \in Messages, ~UnderWay(bm),
                    NEW h \in Hosts, bm \in pending_messages[h],
                    h \notin stopped \/ bm \in delivered_messages[h],
                    NEW g \in Hosts \ stopped
             PROVE  bm \in delivered_messages[g]
  BY DEF NoDeliveryStuck
\* A running host has the message pending.
<1>1. PICK f \in Hosts \ stopped : bm \in pending_messages[f]
  <2>1. CASE h \notin stopped
    BY <2>1
  <2>2. CASE bm \in delivered_messages[h]
    BY <2>2, DeliveredSurvives
  <2> QED
    BY <2>1, <2>2
\* So every running host has, and its ack is known at g.
<1>2. \A s \in Hosts \ stopped : bm \in pending_messages[s]
  BY <1>1, QuietIsAcked
<1>3. \A s \in Hosts \ stopped : <<s, bm>> \in acked_messages[g]
  BY <1>2, QuietIsAcked
\* They are a majority.
<1>4. can_deliver(bm, acked_messages[g])
  <2> DEFINE A == Ackers(bm, acked_messages[g])
  <2>1. IsFiniteSet(Hosts) /\ stopped \subseteq Hosts
    BY BroadcastAssumption DEF IndInv, CoreInv, TypeOK
  <2>2. Hosts \ stopped \subseteq A /\ A \subseteq Hosts
    BY <1>3 DEF Ackers
  <2>3. /\ IsFiniteSet(stopped) /\ IsFiniteSet(A) /\ IsFiniteSet(Hosts \ stopped)
        /\ Cardinality(Hosts \ stopped) <= Cardinality(A)
    BY <2>1, <2>2, FS_Subset
  <2>4. Cardinality(Hosts \ stopped) = Cardinality(Hosts) - Cardinality(stopped)
    <3>1. Hosts \cap stopped = stopped
      BY <2>1
    <3> QED
      BY <2>1, <3>1, FS_Difference
  <2>5. /\ Cardinality(Hosts) \in Nat /\ Cardinality(stopped) \in Nat
        /\ Cardinality(A) \in Nat
    BY <2>1, <2>3, FS_CardinalityType
  <2>6. Cardinality(A) >= (Cardinality(Hosts) \div 2) + 1
    BY <2>3, <2>4, <2>5
  <2> QED
    BY <2>6 DEF can_deliver
<1> QED
  BY <1>3, <1>4 DEF IndInv, SettledInv

\* While a majority runs, no message is left with nothing on its way that would deliver it.
THEOREM NoDeliveryStuckHolds == Spec => []NoDeliveryStuck
PROOF
  BY NothingStuck, IndInvHolds, PTL

-----------------------------------------------------------------------------
(***************************************************************************)
(* The refinement.                                                         *)
(***************************************************************************)
LEMMA InitUniform == Init => UB!Init
PROOF
  BY DEF Init, UB!Init, Handed

LEMMA StepUniform == IndInv /\ IndInv' /\ [Next]_vars => [UB!Next]_(UB!vars)
PROOF
<1> SUFFICES ASSUME IndInv, [Next]_vars PROVE UB!Next \/ UNCHANGED UB!vars
  OBVIOUS
<1> USE DEF UB!vars
<1>1. ASSUME NEW h \in Hosts, Broadcast(h) PROVE UB!Next
  <2> DEFINE new == BroadcastMessage(h, next_id[h])
  <2>1. /\ h \notin stopped
        /\ next_id[h] < MessageCount[h]
        /\ next_id' = [next_id EXCEPT ![h] = @ + 1]
        /\ UNCHANGED <<log, stopped>>
    BY <1>1 DEF Broadcast
  <2>2. next_id[h] \in Nat /\ MessageCount[h] \in Nat
    BY BroadcastAssumption DEF IndInv, CoreInv, TypeOK
  <2>3. new \in Messages
    BY <2>1, <2>2, MessagesMember
  <2>4. new.source = h /\ new.seq_number = next_id[h]
    BY DEF BroadcastMessage
  <2>5. new \notin Handed
    BY <2>2, <2>4, HandedMember DEF BroadcastMessage
  <2>6. Handed' = Handed \cup {new}
    <3>1. \A bm : bm \in Handed' <=>
             \E g \in Hosts : \E n \in 0 .. next_id'[g] - 1 : bm = BroadcastMessage(g, n)
      BY DEF Handed
    <3>2. 0 .. next_id'[h] - 1 = (0 .. next_id[h] - 1) \cup {next_id[h]}
      BY <2>1, <2>2 DEF IndInv, CoreInv, TypeOK
    <3>3. \A g \in Hosts \ {h} : next_id'[g] = next_id[g]
      BY <2>1 DEF IndInv, CoreInv, TypeOK
    <3> QED
      BY <3>1, <3>2, <3>3, HandedMember
  <2> HIDE DEF new
  <2>7. UB!Broadcast(new)
    BY <2>1, <2>4, <2>5, <2>6 DEF UB!Broadcast
  <2> QED
    BY <2>3, <2>7 DEF UB!Next
<1>2. ASSUME NEW h \in Hosts, BebBroadcast(h) PROVE UNCHANGED UB!vars
  BY <1>2 DEF BebBroadcast, Handed
<1>3. ASSUME NEW h \in Hosts, Stop(h) PROVE UB!Next
  <2>1. UB!Stop(h)
    BY <1>3 DEF Stop, UB!Stop, Handed, mainVars
  <2> QED
    BY <2>1 DEF UB!Next
<1>4. ASSUME NEW tm \in transit, Relay(tm) PROVE UNCHANGED UB!vars
  BY <1>4 DEF Relay, Handed, mainVars
<1>5. ASSUME NEW tm \in transit, UrbDeliver(tm) PROVE UB!Next
  <2>1. tm \in LinkMessages
    BY DEF IndInv, CoreInv, TypeOK
  <2>2. tm.receiver \in Hosts /\ tm.message \in Messages
    BY <2>1, LinkMessage
  <2>3. tm.message \in Handed
    BY <1>5, <2>2 DEF IndInv, CoreInv, HandedInv, UrbDeliver
  <2>4. ~UB!Delivered(tm.receiver, tm.message)
    BY <1>5, <2>2 DEF IndInv, CoreInv, LogInv, UrbDeliver, UB!Delivered
  <2>5. UB!Deliver(tm.receiver, tm.message)
    BY <1>5, <2>3, <2>4 DEF UrbDeliver, Receives, UB!Deliver, Handed, mainVars
  <2> QED
    BY <2>2, <2>5 DEF UB!Next
<1>6. ASSUME NEW tm \in transit, Record(tm) PROVE UNCHANGED UB!vars
  BY <1>6 DEF Record, Handed, mainVars
<1>7. CASE UNCHANGED vars
  BY <1>7 DEF vars, mainVars, Handed
<1> QED
  BY <1>1, <1>2, <1>3, <1>4, <1>5, <1>6, <1>7 DEF Next

(***************************************************************************)
(* URB2 and URB3: initial states are initial states of UniformBroadcast,   *)
(* every step is one of its steps or a stutter.                            *)
(***************************************************************************)
THEOREM ImplementsUniformBroadcast == Spec => UniformBroadcastSafety
PROOF
  BY InitUniform, StepUniform, IndInvHolds, PTL DEF Spec, UniformBroadcastSafety, UB!SafeSpec
=============================================================================
