---------------------------- MODULE PerfectLink ----------------------------
(***************************************************************************)
(* Milestone 1: PerfectLink over FairLossLink (UDP), driven by the main    *)
(* thread of m1.cpp.                                                       *)
(*                                                                         *)
(* A process has three threads.  The main thread logs and queues its       *)
(* messages (LogSend, Send).  The sending thread takes the head of the     *)
(* queue, drops it if it has been acknowledged (Retire), else puts it on   *)
(* the wire and back at the tail of the queue (Transmit, Requeue).  The    *)
(* receiving thread records an acknowledgement (ReceiveAck), or answers a  *)
(* data message with one and only then looks whether the message is new    *)
(* (ReceiveData, Deliver, Discard).                                        *)
(*                                                                         *)
(* What the model abstracts.  The content of a message is its place in the *)
(* sender's workload.  Empty polls of the queue are stuttering steps.  The *)
(* check of the acknowledged set and the sendto() that follows are one     *)
(* step: an acknowledgement between the two only means one transmission    *)
(* more, which the model has too.  The signal handler stop() is one step:  *)
(* what the other threads do while it runs, they may as well do before it, *)
(* because the two flags it sets are plain bools nothing orders.           *)
(***************************************************************************)
EXTENDS Naturals, Sequences

CONSTANTS
  Hosts,       \* the host ids of the hosts file
  Workload,    \* Workload[h][i]: the receiver of the i-th message of host h
  SeqModulus   \* the number of values of the counter next_id; 2^32 in the code

(***************************************************************************)
(* Workload is what the configuration and the layer above make the main    *)
(* thread send; its length is the bound on the messages of a host.         *)
(***************************************************************************)
ASSUME PerfectLinkAssumption ==
  /\ Workload \in [Hosts -> Seq(Hosts)]
  /\ SeqModulus \in Nat \ {0}

VARIABLES
  logged,              \* logged[h]: how many "b" lines host h has written
  sent,                \* sent[h]: how many messages host h has handed to send()
  next_id,             \* next_id[h]: TransportMessage::next_id of the process
  queue,               \* queue[h]: the queue of messages to (re)transmit
  sending,             \* sending[h]: the message in the sending thread's hands, if any
  receiving,           \* receiving[h]: the message in the receiving thread's hands, if any
  acked_messages,      \* acked_messages[h]: pairs <<receiver, seq_number>>
  delivered_messages,  \* delivered_messages[h]: pairs <<sender, seq_number>>
  network,             \* the datagrams in flight
  output,              \* output[h]: the "d" lines of host h, in order
  down,                \* the hosts whose process has exited
  closed               \* the hosts whose receiving thread has ended and closed the socket

threadVars == <<sending, receiving>>
linkVars == <<next_id, queue, acked_messages, delivered_messages>>
mainVars == <<logged, sent>>
vars == <<mainVars, linkVars, threadVars, network, output, down, closed>>

-----------------------------------------------------------------------------
(***************************************************************************)
(* Messages.  (A definition whose name starts with Mutant is not part of   *)
(* the model: it is the definition after it with a plausible bug, and      *)
(* shows which property finds the bug; see the README.)                    *)
(***************************************************************************)

Count(h) == Len(Workload[h])

\* The i-th message of h as the constructor of TransportMessage makes it with seq number n.
TransportMessage(h, i, n) ==
  [type |-> "Data", sender |-> h, receiver |-> Workload[h][i],
   seq_number |-> n, payload |-> i]

create_ack(tm) ==
  [type |-> "Ack", sender |-> tm.receiver, receiver |-> tm.sender,
   seq_number |-> tm.seq_number]

\* The seq number next_id++ yields for the i-th message.
SeqNumber(i) == (i - 1) % SeqModulus

DataOf(h) == {TransportMessage(h, i, SeqNumber(i)) : i \in 1 .. Count(h)}
Data == UNION {DataOf(h) : h \in Hosts}
Acks == {create_ack(tm) : tm \in Data}

\* A "d" line: what the delivering host writes about a message.
Line(tm) == [sender |-> tm.sender, receiver |-> tm.receiver, payload |-> tm.payload]
Letter(h, i) == [sender |-> h, receiver |-> Workload[h][i], payload |-> i]
Letters == UNION {{Letter(h, i) : i \in 1 .. Count(h)} : h \in Hosts}

Init ==
  /\ logged = [h \in Hosts |-> 0]
  /\ sent = [h \in Hosts |-> 0]
  /\ next_id = [h \in Hosts |-> 0]
  /\ queue = [h \in Hosts |-> <<>>]
  /\ sending = [h \in Hosts |-> {}]
  /\ receiving = [h \in Hosts |-> {}]
  /\ acked_messages = [h \in Hosts |-> {}]
  /\ delivered_messages = [h \in Hosts |-> {}]
  /\ network = {}
  /\ output = [h \in Hosts |-> <<>>]
  /\ down = {}
  /\ closed = {}

-----------------------------------------------------------------------------
(***************************************************************************)
(* The main thread: m1.cpp's loop.                                         *)
(***************************************************************************)

\* plSend: the "b" line is written before the message is handed to the link.
LogSend(h) ==
  /\ h \notin down
  /\ logged[h] = sent[h]
  /\ logged[h] < Count(h)
  /\ logged' = [logged EXCEPT ![h] = @ + 1]
  /\ UNCHANGED <<sent, linkVars, threadVars, network, output, down, closed>>

MutantSendBeforeLog(h) ==      \* pl.send() before plSend()
  /\ h \notin down
  /\ sent[h] <= logged[h] /\ sent[h] < Count(h)
  /\ sent' = [sent EXCEPT ![h] = @ + 1]
  /\ queue' = [queue EXCEPT ![h] =
                 Append(@, TransportMessage(h, sent[h] + 1, next_id[h]))]
  /\ next_id' = [next_id EXCEPT ![h] = (@ + 1) % SeqModulus]
  /\ UNCHANGED <<logged, acked_messages, delivered_messages, threadVars,
                 network, output, down, closed>>

Send(h) ==
  /\ h \notin down
  /\ sent[h] < logged[h]
  /\ sent' = [sent EXCEPT ![h] = @ + 1]
  /\ queue' = [queue EXCEPT ![h] =
                 Append(@, TransportMessage(h, sent[h] + 1, next_id[h]))]
  /\ next_id' = [next_id EXCEPT ![h] = (@ + 1) % SeqModulus]
  /\ UNCHANGED <<logged, acked_messages, delivered_messages, threadVars,
                 network, output, down, closed>>

\* SIGTERM or SIGINT: stop() shuts the link down, flushes the output and exits.
Stop(h) ==
  /\ h \notin down
  /\ down' = down \cup {h}
  /\ UNCHANGED <<mainVars, linkVars, threadVars, network, output, closed>>

-----------------------------------------------------------------------------
(***************************************************************************)
(* The sending thread.                                                     *)
(***************************************************************************)

MutantFrontNotPop(h) ==        \* front() in place of pop()
  /\ h \notin down
  /\ sending[h] = {}
  /\ queue[h] # <<>>
  /\ UNCHANGED queue

\* The sending thread finds the queue non-empty and pops its head.
Pops(h) ==
  /\ h \notin down
  /\ sending[h] = {}
  /\ queue[h] # <<>>
  /\ queue' = [queue EXCEPT ![h] = Tail(@)]

IsAcked(h, tm) == <<tm.receiver, tm.seq_number>> \in acked_messages[h]

Retire(h) ==
  /\ Pops(h)
  /\ IsAcked(h, Head(queue[h]))
  /\ UNCHANGED <<mainVars, next_id, acked_messages, delivered_messages,
                 threadVars, network, output, down, closed>>

\* sendto() on a closed socket fails, which nothing notices.
Transmit(h) ==
  /\ Pops(h)
  /\ ~IsAcked(h, Head(queue[h]))
  /\ sending' = [sending EXCEPT ![h] = {Head(queue[h])}]
  /\ network' = IF h \in closed THEN network ELSE network \cup {Head(queue[h])}
  /\ UNCHANGED <<mainVars, next_id, acked_messages, delivered_messages,
                 receiving, output, down, closed>>

MutantRequeueDropped(h) ==     \* one transmission only
  /\ h \notin down
  /\ sending[h] # {}
  /\ sending' = [sending EXCEPT ![h] = {}]
  /\ UNCHANGED <<mainVars, linkVars, receiving, network, output, down, closed>>

Requeue(h) ==
  /\ h \notin down
  /\ \E tm \in sending[h] : queue' = [queue EXCEPT ![h] = Append(@, tm)]
  /\ sending' = [sending EXCEPT ![h] = {}]
  /\ UNCHANGED <<mainVars, next_id, acked_messages, delivered_messages,
                 receiving, network, output, down, closed>>

-----------------------------------------------------------------------------
(***************************************************************************)
(* The network.  A datagram stays in flight until it is lost, and may be   *)
(* received any number of times before: that covers duplication and        *)
(* arbitrary delay and reordering.                                         *)
(***************************************************************************)

Lose(d) ==
  /\ d \in network
  /\ network' = network \ {d}
  /\ UNCHANGED <<mainVars, linkVars, threadVars, output, down, closed>>

\* The receiving thread of h, back in recvfrom(), gets datagram d.
Receives(h, d) ==
  /\ h \notin down \cup closed
  /\ receiving[h] = {}
  /\ d \in network
  /\ d.receiver = h

-----------------------------------------------------------------------------
(***************************************************************************)
(* The receiving thread.                                                   *)
(***************************************************************************)

\* The acknowledgement is in the set already: receiving it again changes nothing.
IsRecorded(d) == <<d.sender, d.seq_number>> \in acked_messages[d.receiver]

MutantAckCumulative(h, d) ==   \* an ack taken for all smaller seq numbers too
  /\ Receives(h, d)
  /\ d.type = "Ack"
  /\ acked_messages' = [acked_messages EXCEPT ![h] = @ \cup ({d.sender} \X (0 .. d.seq_number))]
  /\ UNCHANGED <<mainVars, next_id, queue, delivered_messages, threadVars,
                 network, output, down, closed>>

MutantAckOfReceiver(h, d) ==   \* the ack recorded under the wrong end
  /\ Receives(h, d)
  /\ d.type = "Ack"
  /\ acked_messages' = [acked_messages EXCEPT ![h] = @ \cup {<<d.receiver, d.seq_number>>}]
  /\ UNCHANGED <<mainVars, next_id, queue, delivered_messages, threadVars,
                 network, output, down, closed>>

ReceiveAck(h, d) ==
  /\ Receives(h, d)
  /\ d.type = "Ack"
  /\ acked_messages' = [acked_messages EXCEPT ![h] = @ \cup {<<d.sender, d.seq_number>>}]
  /\ UNCHANGED <<mainVars, next_id, queue, delivered_messages, threadVars,
                 network, output, down, closed>>

MutantAckOnce(h, d) ==         \* no ack for a message already delivered
  /\ Receives(h, d)
  /\ d.type = "Data"
  /\ network' = IF <<d.sender, d.seq_number>> \in delivered_messages[h]
                  THEN network ELSE network \cup {create_ack(d)}
  /\ receiving' = [receiving EXCEPT ![h] = {d}]
  /\ UNCHANGED <<mainVars, linkVars, sending, output, down, closed>>

ReceiveData(h, d) ==
  /\ Receives(h, d)
  /\ d.type = "Data"
  /\ network' = network \cup {create_ack(d)}
  /\ receiving' = [receiving EXCEPT ![h] = {d}]
  /\ UNCHANGED <<mainVars, linkVars, sending, output, down, closed>>

\* recvfrom() fails: the loop ends, and with it the socket that sendto() uses.
ReceiveError(h) ==
  /\ h \notin down \cup closed
  /\ receiving[h] = {}
  /\ closed' = closed \cup {h}
  /\ UNCHANGED <<mainVars, linkVars, threadVars, network, output, down>>

MutantNeverDelivered(h, tm) == FALSE   \* no look at delivered_messages

IsDelivered(h, tm) == <<tm.sender, tm.seq_number>> \in delivered_messages[h]

MutantDeliverUnrecorded(h) ==  \* no insert into delivered_messages
  /\ h \notin down
  /\ \E tm \in receiving[h] :
       /\ ~IsDelivered(h, tm)
       /\ output' = [output EXCEPT ![h] = Append(@, Line(tm))]
  /\ receiving' = [receiving EXCEPT ![h] = {}]
  /\ UNCHANGED <<mainVars, linkVars, sending, network, down, closed>>

Deliver(h) ==
  /\ h \notin down
  /\ \E tm \in receiving[h] :
       /\ ~IsDelivered(h, tm)
       /\ delivered_messages' = [delivered_messages EXCEPT ![h] =
                                   @ \cup {<<tm.sender, tm.seq_number>>}]
       /\ output' = [output EXCEPT ![h] = Append(@, Line(tm))]
  /\ receiving' = [receiving EXCEPT ![h] = {}]
  /\ UNCHANGED <<mainVars, next_id, queue, acked_messages, sending, network, down, closed>>

Discard(h) ==
  /\ h \notin down
  /\ \E tm \in receiving[h] : IsDelivered(h, tm)
  /\ receiving' = [receiving EXCEPT ![h] = {}]
  /\ UNCHANGED <<mainVars, linkVars, sending, network, output, down, closed>>

-----------------------------------------------------------------------------
Next ==
  \/ \E h \in Hosts :
       \/ LogSend(h) \/ Send(h) \/ Stop(h)
       \/ Retire(h) \/ Transmit(h) \/ Requeue(h)
       \/ Deliver(h) \/ Discard(h) \/ ReceiveError(h)
       \/ \E d \in network : ReceiveAck(h, d) \/ ReceiveData(h, d)
  \/ \E d \in network : Lose(d)

(***************************************************************************)
(* Fairness.  Each thread of a process that has not exited keeps running,  *)
(* and the network is a fair-loss one: a datagram that is on the wire      *)
(* again and again reaches the socket of its receiver, where it waits for  *)
(* the receiving thread, so it is received again and again.  (Strong       *)
(* fairness of the receive actions would be weaker: they are disabled      *)
(* while the receiving thread is busy, the socket is not.)  Nothing        *)
(* obliges a host to stop, recvfrom() to fail or the network to lose       *)
(* anything.                                                               *)
(***************************************************************************)
ThreadFairness ==
  \A h \in Hosts :
    /\ WF_vars(LogSend(h) \/ Send(h))
    /\ WF_vars(Retire(h) \/ Transmit(h) \/ Requeue(h))
    /\ WF_vars(Deliver(h) \/ Discard(h))

FairLoss ==
  /\ \A d \in Data :
       []<>(d \in network /\ d.receiver \notin down \cup closed)
         => []<><<ReceiveData(d.receiver, d)>>_vars
  /\ \A d \in Acks :
       []<>(d \in network /\ d.receiver \notin down \cup closed /\ ~IsRecorded(d))
         => []<><<ReceiveAck(d.receiver, d)>>_vars

Spec == Init /\ [][Next]_vars

FairSpec == Spec /\ ThreadFairness /\ FairLoss

-----------------------------------------------------------------------------
(***************************************************************************)
(* Properties.                                                             *)
(***************************************************************************)

TypeOK ==
  /\ logged \in [Hosts -> Nat]
  /\ sent \in [Hosts -> Nat]
  /\ next_id \in [Hosts -> 0 .. SeqModulus - 1]
  /\ queue \in [Hosts -> Seq(Data)]
  /\ sending \in [Hosts -> SUBSET Data]
  /\ receiving \in [Hosts -> SUBSET Data]
  /\ acked_messages \in [Hosts -> SUBSET (Hosts \X (0 .. SeqModulus - 1))]
  /\ delivered_messages \in [Hosts -> SUBSET (Hosts \X (0 .. SeqModulus - 1))]
  /\ network \subseteq (Data \cup Acks)
  /\ output \in [Hosts -> Seq(Letters)]
  /\ down \subseteq Hosts
  /\ closed \subseteq Hosts

Queued(h, i) == \E k \in DOMAIN queue[h] : queue[h][k].payload = i
InHand(hand, h, i) == \E tm \in hand : tm.sender = h /\ tm.payload = i
Delivered(h, i) ==
  \E k \in DOMAIN output[Workload[h][i]] : output[Workload[h][i]][k] = Letter(h, i)

(***************************************************************************)
(* The link does not lose a message: until the receiver has delivered it,  *)
(* or at least holds it with nothing left but to deliver it, the sender    *)
(* still has it queued or in the hands of its sending thread.  The hazard  *)
(* is the acknowledgement, which leaves before the delivery and is matched *)
(* by seq number only.                                                     *)
(***************************************************************************)
NoMessageLost ==
  \A h \in Hosts : \A i \in 1 .. sent[h] :
    \/ Queued(h, i)
    \/ InHand(sending[h], h, i)
    \/ InHand(receiving[Workload[h][i]], h, i)
    \/ Delivered(h, i)

(***************************************************************************)
(* PL2: no message is delivered twice, although every retransmission and   *)
(* every duplicate on the wire reaches the same handler.                   *)
(***************************************************************************)
NoDuplication ==
  \A h \in Hosts : \A j, k \in DOMAIN output[h] :
    output[h][j] = output[h][k] => j = k

(***************************************************************************)
(* PL3, on the log files: a line "d s i" in a host's output is about a     *)
(* message addressed to that host which s has already logged with "b i".   *)
(***************************************************************************)
NoCreation ==
  \A h \in Hosts : \A k \in DOMAIN output[h] :
    LET line == output[h][k] IN
      /\ line.payload \in 1 .. logged[line.sender]
      /\ line = Letter(line.sender, line.payload)
      /\ line.receiver = h

(***************************************************************************)
(* The queue is bounded by what has been sent, whatever happens to the     *)
(* receivers (perfect_link.hpp:44): retransmission, which takes a message  *)
(* out and puts it back, never multiplies it, in the queue or between the  *)
(* queue and the hands of the sending thread.                              *)
(***************************************************************************)
QueueBounded ==
  \A h \in Hosts :
    /\ \A j, k \in DOMAIN queue[h] : queue[h][j] = queue[h][k] => j = k
    /\ \A k \in DOMAIN queue[h] : queue[h][k] \notin sending[h]

\* Whether an end of the i-th message of h has exited or closed its socket.
EndGone(h, i) == {h, Workload[h][i]} \cap (down \cup closed) # {}

(***************************************************************************)
(* PL1: a message sent is eventually delivered, unless the process at one  *)
(* of its two ends exits or closes its socket.                             *)
(***************************************************************************)
ReliableDelivery ==
  \A h \in Hosts : \A i \in 1 .. Count(h) :
    i <= sent[h] ~> (Delivered(h, i) \/ EndGone(h, i))

(***************************************************************************)
(* Retransmission comes to an end: between hosts that keep running, the    *)
(* acknowledgement of a message is not lost for ever, and the sending      *)
(* thread stops sending the message and drops it.                          *)
(***************************************************************************)
RetransmissionEnds ==
  \A h \in Hosts : \A i \in 1 .. Count(h) :
    i <= sent[h] ~>
      \/ [](~Queued(h, i) /\ ~InHand(sending[h], h, i))
      \/ EndGone(h, i)

(***************************************************************************)
(* The refinement: the link implements ReliableLink, its "d" lines being   *)
(* the deliveries.                                                         *)
(***************************************************************************)
Handed == UNION {{Letter(h, i) : i \in 1 .. sent[h]} : h \in Hosts}

RL == INSTANCE ReliableLink
        WITH Message <- Letters, handed <- Handed, log <- output, stopped <- down, cut <- closed

\* Its safety part; its Reliability is ReliableDelivery.
ReliableLinkSafety == RL!SafeSpec
=============================================================================
