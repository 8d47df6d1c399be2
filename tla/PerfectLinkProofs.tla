------------------------- MODULE PerfectLinkProofs -------------------------
(***************************************************************************)
(* Proofs about PerfectLink, for any hosts, any workload and any modulus   *)
(* of the counter next_id: type correctness, NoDuplication, NoCreation and *)
(* the safety part of the refinement of ReliableLink, QueueBounded; and,   *)
(* provided that no host sends more messages than there are seq numbers,   *)
(* NoMessageLost.                                                          *)
(***************************************************************************)
EXTENDS PerfectLink, SequenceTheorems, TLAPS

(***************************************************************************)
(* The strengthening.  It says what each part of a process knows about the *)
(* messages in the others' hands.                                          *)
(***************************************************************************)

\* The main thread logs a message, then sends it with the next seq number.
Counters ==
  \A h \in Hosts :
    /\ sent[h] <= logged[h]
    /\ logged[h] <= Count(h)
    /\ next_id[h] = SeqNumber(sent[h] + 1)

\* A data message, wherever it is, has been sent.
Sent(tm) == tm.payload <= sent[tm.sender]

\* A host queues and transmits only its own messages, one at a time.
OwnMessages ==
  \A h \in Hosts :
    /\ \A k \in DOMAIN queue[h] : queue[h][k].sender = h /\ Sent(queue[h][k])
    /\ \A tm \in sending[h] : tm.sender = h /\ Sent(tm)
    /\ \A tm, other \in sending[h] : tm = other

\* A host receives only messages addressed to it, one at a time.
ReceivedMessages ==
  /\ \A d \in network : d.type = "Data" => Sent(d)
  /\ \A h \in Hosts :
       /\ \A tm \in receiving[h] : tm.receiver = h /\ Sent(tm)
       /\ \A tm, other \in receiving[h] : tm = other

\* A host whose socket is closed is receiving nothing any more.
ClosedIdle == \A h \in closed : receiving[h] = {}

\* Every "d" line has its pair in the delivered set and is about a message sent to this host ...
Lines(r) ==
  \A k \in DOMAIN output[r] :
    /\ <<output[r][k].sender, SeqNumber(output[r][k].payload)>> \in delivered_messages[r]
    /\ output[r][k].payload <= sent[output[r][k].sender]
    /\ output[r][k].receiver = r

\* ... and each pair of the delivered set comes from such a line.
RecordedLines ==
  \A r, h \in Hosts : \A s \in 0 .. SeqModulus - 1 :
    <<h, s>> \in delivered_messages[r] =>
      \E i \in 1 .. Count(h) : Workload[h][i] = r /\ SeqNumber(i) = s /\ Delivered(h, i)

\* The message of h to r with seq number s has come to r, which delivered it or is about to.
Answered(h, r, s) ==
  \E i \in 1 .. Count(h) :
    /\ Workload[h][i] = r
    /\ SeqNumber(i) = s
    /\ InHand(receiving[r], h, i) \/ Delivered(h, i)

\* No acknowledgement without a message received.
AcksAnswered ==
  /\ \A d \in network : d.type = "Ack" => Answered(d.receiver, d.sender, d.seq_number)
  /\ \A h, r \in Hosts : \A s \in 0 .. SeqModulus - 1 :
       <<r, s>> \in acked_messages[h] => Answered(h, r, s)

LinkInv == OwnMessages /\ ReceivedMessages /\ ClosedIdle /\ QueueBounded

LogInv == (\A r \in Hosts : Lines(r)) /\ NoDuplication

AckInv == RecordedLines /\ AcksAnswered

TypeInv == TypeOK /\ Counters

IndInv == TypeInv /\ LinkInv /\ LogInv /\ AckInv

\* No host sends more messages than there are seq numbers.
NoWrap == \A h \in Hosts : Count(h) <= SeqModulus

-----------------------------------------------------------------------------
(***************************************************************************)
(* Messages and seq numbers.                                               *)
(***************************************************************************)

LEMMA WorkloadType ==
  ASSUME NEW h \in Hosts
  PROVE  /\ Count(h) \in Nat
         /\ \A i \in 1 .. Count(h) : Workload[h][i] \in Hosts
BY PerfectLinkAssumption DEF Count

LEMMA RemainderUnique ==
  ASSUME NEW M \in Nat \ {0}, NEW d \in Int, NEW r \in 0 .. M - 1
  PROVE  (M * d + r) % M = r
OBVIOUS

LEMMA SmallRemainder ==
  ASSUME NEW M \in Nat \ {0}, NEW n \in Nat, n < M
  PROVE  n % M = n
OBVIOUS

\* next_id++ yields the seq number of the next message.
LEMMA SeqNumberNext ==
  ASSUME NEW n \in Nat
  PROVE  /\ SeqNumber(n + 1) \in 0 .. SeqModulus - 1
         /\ (SeqNumber(n + 1) + 1) % SeqModulus = SeqNumber(n + 2)
<1> DEFINE m == n % SeqModulus
<1>1. m \in 0 .. SeqModulus - 1
  BY PerfectLinkAssumption
<1>2. SeqNumber(n + 1) = m
  BY DEF SeqNumber
<1>3. (m + 1) % SeqModulus = (n + 1) % SeqModulus
  <2> DEFINE d == n \div SeqModulus
  <2>1. d \in Int /\ n + 1 = SeqModulus * d + (m + 1)
    BY PerfectLinkAssumption, n = SeqModulus * (n \div SeqModulus) + (n % SeqModulus)
  <2>2. CASE m + 1 < SeqModulus
    <3>1. (n + 1) % SeqModulus = m + 1
      BY <1>1, <2>1, <2>2, PerfectLinkAssumption, m + 1 \in 0 .. SeqModulus - 1, RemainderUnique
    <3> QED
      BY <3>1, <1>1, <2>2, PerfectLinkAssumption, m + 1 \in Nat, SmallRemainder
  <2>3. CASE m + 1 = SeqModulus
    <3>1. n + 1 = SeqModulus * (d + 1) + 0
      BY <2>1, <2>3, PerfectLinkAssumption
    <3>2. (n + 1) % SeqModulus = 0
      BY <3>1, <2>1, PerfectLinkAssumption, d + 1 \in Int, 0 \in 0 .. SeqModulus - 1, RemainderUnique
    <3>3. SeqModulus % SeqModulus = 0
      BY PerfectLinkAssumption, SeqModulus = SeqModulus * 1 + 0, 0 \in 0 .. SeqModulus - 1, RemainderUnique
    <3> QED
      BY <2>3, <3>2, <3>3
  <2>4. m + 1 < SeqModulus \/ m + 1 = SeqModulus
    BY <1>1, PerfectLinkAssumption
  <2> QED
    BY <2>2, <2>3, <2>4
<1>4. SeqNumber(n + 2) = (n + 1) % SeqModulus
  BY DEF SeqNumber
<1> QED
  BY <1>1, <1>2, <1>3, <1>4

\* Without wrap-around the seq number of a message is its own.
LEMMA SeqNumberInjective ==
  ASSUME NoWrap, NEW h \in Hosts, NEW i \in 1 .. Count(h), NEW j \in 1 .. Count(h),
         SeqNumber(i) = SeqNumber(j)
  PROVE  i = j
<1>1. \A k \in 1 .. Count(h) : SeqNumber(k) = k - 1
  <2> SUFFICES ASSUME NEW k \in 1 .. Count(h) PROVE SeqNumber(k) = k - 1
    OBVIOUS
  <2>1. k - 1 \in Nat /\ k - 1 < SeqModulus
    BY WorkloadType, PerfectLinkAssumption DEF NoWrap
  <2> QED
    BY <2>1, SmallRemainder, PerfectLinkAssumption DEF SeqNumber
<1> QED
  BY <1>1, WorkloadType

LEMMA DataFields ==
  ASSUME NEW tm \in Data
  PROVE  /\ tm.type = "Data"
         /\ tm.sender \in Hosts
         /\ tm.receiver \in Hosts
         /\ tm.payload \in 1 .. Count(tm.sender)
         /\ tm.payload \in Nat \ {0}
         /\ tm.receiver = Workload[tm.sender][tm.payload]
         /\ tm.seq_number = SeqNumber(tm.payload)
         /\ tm.seq_number \in 0 .. SeqModulus - 1
         /\ Line(tm) = Letter(tm.sender, tm.payload)
         /\ Line(tm) \in Letters
         /\ create_ack(tm) \in Acks
<1>0. PICK h \in Hosts : tm \in DataOf(h)
  BY DEF Data
<1>1. PICK i \in 1 .. Count(h) : tm = TransportMessage(h, i, SeqNumber(i))
  BY <1>0 DEF DataOf
<1>2. i \in Nat \ {0} /\ SeqNumber(i) \in 0 .. SeqModulus - 1
  <2>1. i \in Nat /\ i - 1 \in Nat
    BY WorkloadType
  <2> QED
    BY <2>1, SeqNumberNext, i = (i - 1) + 1
<1>3. Letter(h, i) \in Letters
  BY DEF Letters
<1>4. Line(tm) = Letter(h, i)
  BY <1>1 DEF TransportMessage, Line, Letter
<1>5. create_ack(tm) \in Acks
  BY DEF Acks
<1> QED
  BY <1>1, <1>2, <1>3, <1>4, <1>5, WorkloadType DEF TransportMessage

LEMMA AckFields ==
  ASSUME NEW d \in Acks
  PROVE  /\ d.type = "Ack"
         /\ d.sender \in Hosts
         /\ d.receiver \in Hosts
         /\ d.seq_number \in 0 .. SeqModulus - 1
<1>1. PICK tm \in Data : d = create_ack(tm)
  BY DEF Acks
<1> QED
  BY <1>1, DataFields DEF create_ack

LEMMA LetterFields ==
  ASSUME NEW line \in Letters
  PROVE  /\ line.sender \in Hosts
         /\ line.payload \in 1 .. Count(line.sender)
         /\ line.receiver = Workload[line.sender][line.payload]
         /\ line = Letter(line.sender, line.payload)
BY DEF Letters, Letter

\* A data message and its line name each other.
LEMMA DataOfLine ==
  ASSUME NEW h \in Hosts, NEW i \in 1 .. Count(h)
  PROVE  /\ Letter(h, i) \in Letters
         /\ Letter(h, i).sender = h
         /\ Letter(h, i).payload = i
         /\ Letter(h, i).receiver = Workload[h][i]
         /\ TransportMessage(h, i, SeqNumber(i)) \in Data
BY DEF Letters, Letter, Data, DataOf

-----------------------------------------------------------------------------
(***************************************************************************)
(* Type correctness, with the counters.                                    *)
(***************************************************************************)

LEMMA TypeInit == Init => TypeInv
<1> SUFFICES ASSUME Init PROVE TypeInv
  OBVIOUS
<1>1. SeqNumber(0 + 1) = 0
  BY SmallRemainder, PerfectLinkAssumption DEF SeqNumber
<1>2. TypeOK
  <2>1. 0 \in 0 .. SeqModulus - 1
    BY PerfectLinkAssumption
  <2> QED
    BY <2>1 DEF Init, TypeOK
<1>3. Counters
  <2> SUFFICES ASSUME NEW h \in Hosts
               PROVE  /\ sent[h] <= logged[h]
                      /\ logged[h] <= Count(h)
                      /\ next_id[h] = SeqNumber(sent[h] + 1)
    BY DEF Counters
  <2>1. sent[h] = 0 /\ logged[h] = 0 /\ next_id[h] = 0
    BY DEF Init
  <2> QED
    BY <1>1, <2>1, WorkloadType
<1> QED
  BY <1>2, <1>3 DEF TypeInv

\* What a pop leaves in the queue.
LEMMA PopsType ==
  ASSUME TypeOK, NEW h \in Hosts, Pops(h)
  PROVE  /\ Head(queue[h]) \in Data
         /\ queue' \in [Hosts -> Seq(Data)]
BY DEF TypeOK, Pops

LEMMA TypeStep == TypeInv /\ [Next]_vars => TypeInv'
<1> SUFFICES ASSUME TypeInv, [Next]_vars PROVE TypeInv'
  OBVIOUS
<1> USE DEF mainVars, linkVars, threadVars
<1>1. ASSUME NEW h \in Hosts, LogSend(h) PROVE TypeInv'
  <2>1. TypeOK'
    <3>1. logged' \in [Hosts -> Nat]
      BY <1>1 DEF TypeInv, TypeOK, LogSend
    <3> QED
      BY <1>1, <3>1 DEF TypeInv, TypeOK, LogSend
  <2>2. Counters'
    BY <1>1, WorkloadType DEF TypeInv, TypeOK, Counters, LogSend
  <2> QED
    BY <2>1, <2>2 DEF TypeInv
<1>2. ASSUME NEW h \in Hosts, Send(h) PROVE TypeInv'
  <2>1. /\ sent[h] \in Nat
        /\ sent[h] + 1 \in 1 .. Count(h)
        /\ next_id[h] = SeqNumber(sent[h] + 1)
    BY <1>2, WorkloadType DEF TypeInv, TypeOK, Counters, Send
  <2>2. TransportMessage(h, sent[h] + 1, next_id[h]) \in Data
    BY <2>1, DataOfLine
  <2>3. /\ next_id'[h] = SeqNumber(sent[h] + 2)
        /\ next_id'[h] \in 0 .. SeqModulus - 1
    <3>1. next_id'[h] = (SeqNumber(sent[h] + 1) + 1) % SeqModulus
      BY <1>2, <2>1 DEF TypeInv, TypeOK, Send
    <3>2. SeqNumber((sent[h] + 1) + 1) \in 0 .. SeqModulus - 1
      BY <2>1, SeqNumberNext
    <3> QED
      BY <2>1, <3>1, <3>2, SeqNumberNext, (sent[h] + 1) + 1 = sent[h] + 2
  <2>4. TypeOK'
    <3>1. next_id' \in [Hosts -> 0 .. SeqModulus - 1]
      BY <1>2, <2>3 DEF TypeInv, TypeOK, Send
    <3>2. sent' \in [Hosts -> Nat] /\ queue' \in [Hosts -> Seq(Data)]
      BY <1>2, <2>1, <2>2 DEF TypeInv, TypeOK, Send
    <3> QED
      BY <1>2, <3>1, <3>2 DEF TypeInv, TypeOK, Send
  <2>5. Counters'
    <3> SUFFICES ASSUME NEW g \in Hosts
                 PROVE  /\ sent'[g] <= logged'[g]
                        /\ logged'[g] <= Count(g)
                        /\ next_id'[g] = SeqNumber(sent'[g] + 1)
      BY DEF Counters
    <3>1. CASE g = h
      BY <1>2, <2>1, <2>3, <3>1, (sent[h] + 1) + 1 = sent[h] + 2
         DEF TypeInv, TypeOK, Counters, Send
    <3>2. CASE g # h
      BY <1>2, <3>2 DEF TypeInv, TypeOK, Counters, Send
    <3> QED
      BY <3>1, <3>2
  <2> QED
    BY <2>4, <2>5 DEF TypeInv
<1>3. ASSUME NEW h \in Hosts, Stop(h) PROVE TypeInv'
  BY <1>3 DEF TypeInv, TypeOK, Counters, Stop
<1>4. ASSUME NEW h \in Hosts, Retire(h) PROVE TypeInv'
  BY <1>4, PopsType DEF TypeInv, TypeOK, Counters, Retire
<1>5. ASSUME NEW h \in Hosts, Transmit(h) PROVE TypeInv'
  BY <1>5, PopsType DEF TypeInv, TypeOK, Counters, Transmit
<1>6. ASSUME NEW h \in Hosts, Requeue(h) PROVE TypeInv'
  <2>1. queue' \in [Hosts -> Seq(Data)] /\ sending' \in [Hosts -> SUBSET Data]
    BY <1>6 DEF TypeInv, TypeOK, Requeue
  <2> QED
    BY <1>6, <2>1 DEF TypeInv, TypeOK, Counters, Requeue
<1>7. ASSUME NEW d \in network, Lose(d) PROVE TypeInv'
  BY <1>7 DEF TypeInv, TypeOK, Counters, Lose
<1>8. ASSUME NEW h \in Hosts, NEW d \in network, ReceiveAck(h, d) PROVE TypeInv'
  <2>1. d \in Acks
    BY <1>8, DataFields DEF TypeInv, TypeOK, ReceiveAck
  <2>2. <<d.sender, d.seq_number>> \in Hosts \X (0 .. SeqModulus - 1)
    BY <2>1, AckFields
  <2> QED
    BY <1>8, <2>2 DEF TypeInv, TypeOK, Counters, ReceiveAck
<1>9. ASSUME NEW h \in Hosts, NEW d \in network, ReceiveData(h, d) PROVE TypeInv'
  <2>1. d \in Data
    BY <1>9, AckFields DEF TypeInv, TypeOK, ReceiveData
  <2>2. create_ack(d) \in Acks
    BY <2>1, DataFields
  <2> QED
    BY <1>9, <2>1, <2>2 DEF TypeInv, TypeOK, Counters, ReceiveData
<1>10. ASSUME NEW h \in Hosts, Deliver(h) PROVE TypeInv'
  <2>1. PICK tm \in receiving[h] :
          /\ delivered_messages' = [delivered_messages EXCEPT ![h] =
                                      @ \cup {<<tm.sender, tm.seq_number>>}]
          /\ output' = [output EXCEPT ![h] = Append(@, Line(tm))]
    BY <1>10 DEF Deliver
  <2>2. tm \in Data
    BY DEF TypeInv, TypeOK
  <2>3. /\ Line(tm) \in Letters
        /\ <<tm.sender, tm.seq_number>> \in Hosts \X (0 .. SeqModulus - 1)
    BY <2>2, DataFields
  <2>4. /\ output' \in [Hosts -> Seq(Letters)]
        /\ delivered_messages' \in [Hosts -> SUBSET (Hosts \X (0 .. SeqModulus - 1))]
        /\ receiving' \in [Hosts -> SUBSET Data]
    <3>1. Append(output[h], Line(tm)) \in Seq(Letters)
      BY <2>3 DEF TypeInv, TypeOK
    <3>2. output' \in [Hosts -> Seq(Letters)]
      BY <2>1, <3>1 DEF TypeInv, TypeOK
    <3>3. delivered_messages' \in [Hosts -> SUBSET (Hosts \X (0 .. SeqModulus - 1))]
      BY <2>1, <2>3 DEF TypeInv, TypeOK
    <3>4. receiving' \in [Hosts -> SUBSET Data]
      BY <1>10 DEF TypeInv, TypeOK, Deliver
    <3> QED
      BY <3>2, <3>3, <3>4
  <2>5. TypeOK'
    BY <1>10, <2>4 DEF TypeInv, TypeOK, Deliver
  <2>6. Counters'
    BY <1>10 DEF TypeInv, Counters, Deliver
  <2> QED
    BY <2>5, <2>6 DEF TypeInv
<1>11. ASSUME NEW h \in Hosts, Discard(h) PROVE TypeInv'
  BY <1>11 DEF TypeInv, TypeOK, Counters, Discard
<1>12. ASSUME NEW h \in Hosts, ReceiveError(h) PROVE TypeInv'
  BY <1>12 DEF TypeInv, TypeOK, Counters, ReceiveError
<1>13. CASE UNCHANGED vars
  BY <1>13 DEF TypeInv, TypeOK, Counters, vars
<1> QED
  BY <1>1, <1>2, <1>3, <1>4, <1>5, <1>6, <1>7, <1>8, <1>9, <1>10, <1>11, <1>12, <1>13
     DEF Next

-----------------------------------------------------------------------------
(***************************************************************************)
(* What is in the threads' hands.                                          *)
(***************************************************************************)

LEMMA AppendEntries ==
  ASSUME NEW S, NEW s \in Seq(S), NEW x \in S
  PROVE  /\ \A k \in DOMAIN Append(s, x) :
              Append(s, x)[k] = x \/ (k \in DOMAIN s /\ Append(s, x)[k] = s[k])
         /\ \A k \in DOMAIN s : k \in DOMAIN Append(s, x) /\ Append(s, x)[k] = s[k]
         /\ \E k \in DOMAIN Append(s, x) : Append(s, x)[k] = x
<1>1. /\ Len(Append(s, x)) = Len(s) + 1
      /\ \A k \in 1 .. Len(s) : Append(s, x)[k] = s[k]
      /\ Append(s, x)[Len(s) + 1] = x
  OBVIOUS
<1>2. /\ DOMAIN Append(s, x) = 1 .. Len(s) + 1
      /\ DOMAIN s = 1 .. Len(s)
      /\ Len(s) \in Nat
  BY <1>1
<1> QED
  BY <1>1, <1>2

LEMMA TailEntries ==
  ASSUME NEW S, NEW s \in Seq(S), s # <<>>
  PROVE  /\ \A k \in DOMAIN Tail(s) : k + 1 \in DOMAIN s /\ Tail(s)[k] = s[k + 1]
         /\ \A k \in DOMAIN s :
              s[k] = Head(s) \/ (k - 1 \in DOMAIN Tail(s) /\ Tail(s)[k - 1] = s[k])
         /\ \E k \in DOMAIN s : s[k] = Head(s)
<1>1. /\ Tail(s) \in Seq(S)
      /\ Len(s) \in Nat \ {0}
      /\ Len(Tail(s)) = Len(s) - 1
      /\ \A k \in 1 .. Len(s) - 1 : Tail(s)[k] = s[k + 1]
      /\ Head(s) = s[1]
  OBVIOUS
<1>2. DOMAIN Tail(s) = 1 .. Len(s) - 1 /\ DOMAIN s = 1 .. Len(s)
  BY <1>1
<1> QED
  BY <1>1, <1>2

\* Only Send changes the counters of the main thread that the invariant reads.
LEMMA SentGrows ==
  ASSUME TypeInv, [Next]_vars, NEW h \in Hosts
  PROVE  sent'[h] \in Nat /\ sent[h] \in Nat /\ sent[h] <= sent'[h]
<1> USE DEF mainVars, linkVars, threadVars, TypeInv, TypeOK
<1>1. CASE \E g \in Hosts : Send(g)
  BY <1>1 DEF Send
<1>2. CASE UNCHANGED sent
  BY <1>2
<1>3. (\E g \in Hosts : Send(g)) \/ UNCHANGED sent
  BY DEF Next, vars, LogSend, Stop, ReceiveError, Retire, Transmit, Requeue, Deliver, Discard,
         ReceiveAck, ReceiveData, Lose
<1> QED
  BY <1>1, <1>2, <1>3

LEMMA SentStays ==
  ASSUME TypeInv, [Next]_vars, NEW tm \in Data, Sent(tm)
  PROVE  Sent(tm)'
BY SentGrows, DataFields DEF Sent

\* Where the messages of a queue come from.
LEMMA QueueStep ==
  ASSUME TypeInv, [Next]_vars, NEW h \in Hosts, NEW k \in DOMAIN queue'[h]
  PROVE  \/ \E j \in DOMAIN queue[h] : queue'[h][k] = queue[h][j]
         \/ queue'[h][k] \in sending[h]
         \/ /\ Send(h)
            /\ queue'[h][k] = TransportMessage(h, sent[h] + 1, next_id[h])
<1> USE DEF mainVars, linkVars, threadVars
<1>1. queue \in [Hosts -> Seq(Data)] /\ queue[h] \in Seq(Data)
  BY DEF TypeInv, TypeOK
<1>2. CASE Send(h)
  <2>1. TransportMessage(h, sent[h] + 1, next_id[h]) \in Data
    BY <1>2, WorkloadType, DataOfLine DEF TypeInv, TypeOK, Counters, Send
  <2>2. queue'[h] = Append(queue[h], TransportMessage(h, sent[h] + 1, next_id[h]))
    BY <1>1, <1>2 DEF Send
  <2> QED
    BY <1>1, <1>2, <2>1, <2>2, AppendEntries
<1>3. CASE Pops(h)
  <2>1. queue[h] # <<>> /\ queue'[h] = Tail(queue[h])
    BY <1>1, <1>3 DEF Pops
  <2> QED
    BY <1>1, <2>1, TailEntries
<1>4. CASE Requeue(h)
  <2>1. PICK tm \in sending[h] : queue'[h] = Append(queue[h], tm)
    BY <1>1, <1>4 DEF Requeue
  <2>2. tm \in Data
    BY DEF TypeInv, TypeOK
  <2> QED
    BY <1>1, <2>1, <2>2, AppendEntries
<1>5. CASE queue'[h] = queue[h]
  BY <1>5
<1>6. \/ Send(h) \/ Pops(h) \/ Requeue(h)
      \/ queue'[h] = queue[h]
  <2>1. \/ \E g \in Hosts : Send(g) \/ Pops(g) \/ Requeue(g)
        \/ UNCHANGED queue
    BY DEF Next, vars, LogSend, Stop, ReceiveError, Retire, Transmit, Deliver, Discard, ReceiveAck,
           ReceiveData, Lose
  <2>2. ASSUME NEW g \in Hosts, Send(g) \/ Pops(g) \/ Requeue(g), g # h
        PROVE  queue'[h] = queue[h]
    BY <1>1, <2>2 DEF Send, Pops, Requeue
  <2> QED
    BY <2>1, <2>2
<1> QED
  BY <1>2, <1>3, <1>4, <1>5, <1>6

\* Where the message of a sending thread comes from.
LEMMA SendingStep ==
  ASSUME TypeInv, [Next]_vars, NEW h \in Hosts
  PROVE  \/ sending'[h] = sending[h]
         \/ sending'[h] = {}
         \/ \E k \in DOMAIN queue[h] : sending'[h] = {queue[h][k]}
<1> USE DEF mainVars, linkVars, threadVars
<1>1. sending \in [Hosts -> SUBSET Data] /\ queue[h] \in Seq(Data)
  BY DEF TypeInv, TypeOK
<1>2. CASE Transmit(h)
  <2>1. queue[h] # <<>> /\ sending'[h] = {Head(queue[h])}
    BY <1>1, <1>2 DEF Transmit, Pops
  <2> QED
    BY <1>1, <2>1, TailEntries
<1>3. CASE Requeue(h)
  BY <1>1, <1>3 DEF Requeue
<1>4. Transmit(h) \/ Requeue(h) \/ sending'[h] = sending[h]
  <2>1. (\E g \in Hosts : Transmit(g) \/ Requeue(g)) \/ UNCHANGED sending
    BY DEF Next, vars, LogSend, Send, Stop, ReceiveError, Retire, Deliver, Discard, ReceiveAck,
           ReceiveData, Lose
  <2>2. ASSUME NEW g \in Hosts, Transmit(g) \/ Requeue(g), g # h
        PROVE  sending'[h] = sending[h]
    BY <1>1, <2>2 DEF Transmit, Requeue
  <2> QED
    BY <2>1, <2>2
<1> QED
  BY <1>2, <1>3, <1>4

\* Where the message of a receiving thread comes from.
LEMMA ReceivingStep ==
  ASSUME TypeInv, [Next]_vars, NEW h \in Hosts
  PROVE  \/ receiving'[h] = receiving[h]
         \/ receiving'[h] = {}
         \/ \E d \in network : ReceiveData(h, d) /\ receiving'[h] = {d}
<1> USE DEF mainVars, linkVars, threadVars
<1>1. receiving \in [Hosts -> SUBSET Data]
  BY DEF TypeInv, TypeOK
<1>2. CASE \E d \in network : ReceiveData(h, d)
  BY <1>1, <1>2 DEF ReceiveData
<1>3. CASE Deliver(h) \/ Discard(h)
  BY <1>1, <1>3 DEF Deliver, Discard
<1>4. \/ \E d \in network : ReceiveData(h, d)
      \/ Deliver(h) \/ Discard(h)
      \/ receiving'[h] = receiving[h]
  <2>1. \/ \E g \in Hosts : \/ \E d \in network : ReceiveData(g, d)
                            \/ Deliver(g) \/ Discard(g)
        \/ UNCHANGED receiving
    BY DEF Next, vars, LogSend, Send, Stop, ReceiveError, Retire, Transmit, Requeue, ReceiveAck, Lose
  <2>2. ASSUME NEW g \in Hosts, g # h,
               (\E d \in network : ReceiveData(g, d)) \/ Deliver(g) \/ Discard(g)
        PROVE  receiving'[h] = receiving[h]
    BY <1>1, <2>2 DEF ReceiveData, Deliver, Discard
  <2> QED
    BY <2>1, <2>2
<1> QED
  BY <1>2, <1>3, <1>4

\* Where a datagram comes from.
LEMMA NetworkStep ==
  ASSUME TypeInv, [Next]_vars, NEW d \in network'
  PROVE  \/ d \in network
         \/ \E h \in Hosts : \E k \in DOMAIN queue[h] : d = queue[h][k] /\ d \in Data
         \/ \E h \in Hosts : \E tm \in network : ReceiveData(h, tm) /\ d = create_ack(tm)
<1> USE DEF mainVars, linkVars, threadVars
<1>1. ASSUME NEW h \in Hosts, Transmit(h)
      PROVE  d \in network \/ \E k \in DOMAIN queue[h] : d = queue[h][k] /\ d \in Data
  <2>1. /\ queue[h] \in Seq(Data) /\ queue[h] # <<>>
        /\ network' \subseteq network \cup {Head(queue[h])}
    BY <1>1 DEF TypeInv, TypeOK, Transmit, Pops
  <2>2. Head(queue[h]) \in Data
    BY <2>1
  <2> QED
    BY <2>1, <2>2, TailEntries
<1>2. ASSUME NEW h \in Hosts, NEW tm \in network, ReceiveData(h, tm)
      PROVE  d \in network \/ d = create_ack(tm)
  BY <1>2 DEF ReceiveData
<1>3. ASSUME NEW e \in network, Lose(e) PROVE d \in network
  BY <1>3 DEF Lose
<1>4. \/ \E h \in Hosts : Transmit(h)
      \/ \E h \in Hosts : \E tm \in network : ReceiveData(h, tm)
      \/ \E e \in network : Lose(e)
      \/ UNCHANGED network
  BY DEF Next, vars, LogSend, Send, Stop, ReceiveError, Retire, Requeue, Deliver, Discard, ReceiveAck
<1> QED
  BY <1>1, <1>2, <1>3, <1>4

\* After the error nothing is received, so that the receiving thread's hands stay empty.
LEMMA ClosedStep ==
  ASSUME TypeInv, ClosedIdle, [Next]_vars
  PROVE  ClosedIdle'
<1> SUFFICES ASSUME NEW h \in closed' PROVE receiving'[h] = {}
  BY DEF ClosedIdle
<1>1. ASSUME NEW g \in Hosts, ReceiveError(g)
      PROVE  receiving' = receiving /\ receiving[g] = {} /\ closed' = closed \cup {g}
  BY <1>1 DEF ReceiveError, threadVars
<1>2. CASE \E g \in Hosts : ReceiveError(g)
  BY <1>1, <1>2 DEF ClosedIdle
<1>3. CASE UNCHANGED closed
  <2>1. h \in Hosts /\ h \in closed /\ receiving[h] = {}
    BY <1>3 DEF TypeInv, TypeOK, ClosedIdle
  <2>2. ASSUME NEW d \in network PROVE ~ReceiveData(h, d)
    BY <2>1 DEF ReceiveData, Receives
  <2> QED
    BY <2>1, <2>2, ReceivingStep
<1>4. (\E g \in Hosts : ReceiveError(g)) \/ UNCHANGED closed
  BY DEF Next, vars, LogSend, Send, Stop, Retire, Transmit, Requeue, Deliver, Discard,
         ReceiveAck, ReceiveData, Lose
<1> QED
  BY <1>2, <1>3, <1>4

LEMMA HeadNotInTail ==
  ASSUME NEW S, NEW s \in Seq(S), s # <<>>,
         \A j, k \in DOMAIN s : s[j] = s[k] => j = k
  PROVE  /\ \A j, k \in DOMAIN Tail(s) : Tail(s)[j] = Tail(s)[k] => j = k
         /\ \A k \in DOMAIN Tail(s) : Tail(s)[k] # Head(s)
<1>1. /\ DOMAIN Tail(s) = 1 .. Len(s) - 1 /\ DOMAIN s = 1 .. Len(s) /\ Len(s) \in Nat
      /\ Head(s) = s[1] /\ Len(s) >= 1
      /\ \A k \in 1 .. Len(s) - 1 : Tail(s)[k] = s[k + 1]
  OBVIOUS
<1>2. ASSUME NEW j \in DOMAIN Tail(s), NEW k \in DOMAIN Tail(s), Tail(s)[j] = Tail(s)[k]
      PROVE  j = k
  <2>1. j + 1 \in DOMAIN s /\ k + 1 \in DOMAIN s /\ s[j + 1] = s[k + 1]
    BY <1>1, <1>2
  <2> QED
    BY <1>1, <2>1
<1>3. ASSUME NEW k \in DOMAIN Tail(s), Tail(s)[k] = Head(s) PROVE FALSE
  <2>1. k + 1 \in DOMAIN s /\ 1 \in DOMAIN s /\ s[k + 1] = s[1]
    BY <1>1, <1>3
  <2> QED
    BY <1>1, <2>1
<1> QED
  BY <1>2, <1>3

LEMMA AppendNew ==
  ASSUME NEW S, NEW s \in Seq(S), NEW x \in S,
         \A j, k \in DOMAIN s : s[j] = s[k] => j = k,
         \A k \in DOMAIN s : s[k] # x
  PROVE  \A j, k \in DOMAIN Append(s, x) : Append(s, x)[j] = Append(s, x)[k] => j = k
<1>1. /\ DOMAIN Append(s, x) = 1 .. Len(s) + 1 /\ DOMAIN s = 1 .. Len(s) /\ Len(s) \in Nat
      /\ \A k \in 1 .. Len(s) : Append(s, x)[k] = s[k]
      /\ Append(s, x)[Len(s) + 1] = x
  OBVIOUS
<1> QED
  BY <1>1

\* Retransmission never multiplies a message.
LEMMA QueueStays ==
  ASSUME TypeInv, OwnMessages, QueueBounded, [Next]_vars
  PROVE  QueueBounded'
<1> USE DEF mainVars, linkVars, threadVars
<1> SUFFICES ASSUME NEW h \in Hosts
             PROVE  /\ \A j, k \in DOMAIN queue'[h] : queue'[h][j] = queue'[h][k] => j = k
                    /\ \A k \in DOMAIN queue'[h] : queue'[h][k] \notin sending'[h]
  BY DEF QueueBounded
<1>1. /\ queue \in [Hosts -> Seq(Data)] /\ queue[h] \in Seq(Data)
      /\ sending \in [Hosts -> SUBSET Data]
  BY DEF TypeInv, TypeOK
<1>2. /\ \A j, k \in DOMAIN queue[h] : queue[h][j] = queue[h][k] => j = k
      /\ \A k \in DOMAIN queue[h] : queue[h][k] \notin sending[h]
  BY DEF QueueBounded
<1>3. CASE Send(h)
  <2> DEFINE tm == TransportMessage(h, sent[h] + 1, next_id[h])
  <2>1. tm \in Data
    BY <1>3, WorkloadType, DataOfLine DEF TypeInv, TypeOK, Counters, Send
  <2>2. queue'[h] = Append(queue[h], tm) /\ sending'[h] = sending[h]
    BY <1>1, <1>3 DEF Send
  <2>3. sent[h] \in Nat /\ tm.payload = sent[h] + 1 /\ tm.sender = h
    BY DEF TypeInv, TypeOK, TransportMessage
  <2>4. \A k \in DOMAIN queue[h] : queue[h][k] # tm
    BY <2>3 DEF OwnMessages, Sent
  <2>5. tm \notin sending[h]
    BY <2>3 DEF OwnMessages, Sent
  <2> HIDE DEF tm
  <2>6. \A j, k \in DOMAIN queue'[h] : queue'[h][j] = queue'[h][k] => j = k
    BY <1>1, <1>2, <2>1, <2>2, <2>4, AppendNew
  <2>7. \A k \in DOMAIN queue'[h] : queue'[h][k] = tm \/ \E j \in DOMAIN queue[h] : queue'[h][k] = queue[h][j]
    BY <1>1, <2>1, <2>2, AppendEntries
  <2> QED
    BY <1>2, <2>2, <2>5, <2>6, <2>7
<1>4. CASE Retire(h) \/ Transmit(h)
  <2>1. /\ queue[h] # <<>> /\ queue'[h] = Tail(queue[h])
        /\ sending[h] = {} /\ sending'[h] \in {{}, {Head(queue[h])}}
    BY <1>1, <1>4 DEF Retire, Transmit, Pops
  <2> QED
    BY <1>1, <1>2, <2>1, HeadNotInTail
<1>5. CASE Requeue(h)
  <2>1. PICK tm \in sending[h] : queue'[h] = Append(queue[h], tm)
    BY <1>1, <1>5 DEF Requeue
  <2>2. tm \in Data /\ sending'[h] = {}
    BY <1>1, <1>5, <2>1 DEF Requeue
  <2>3. \A j, k \in DOMAIN queue'[h] : queue'[h][j] = queue'[h][k] => j = k
    BY <1>1, <1>2, <2>1, <2>2, AppendNew
  <2> QED
    BY <2>2, <2>3
<1>6. CASE queue'[h] = queue[h] /\ sending'[h] = sending[h]
  BY <1>2, <1>6
<1>7. \/ Send(h) \/ Retire(h) \/ Transmit(h) \/ Requeue(h)
      \/ queue'[h] = queue[h] /\ sending'[h] = sending[h]
  <2>1. \/ \E g \in Hosts : Send(g) \/ Retire(g) \/ Transmit(g) \/ Requeue(g)
        \/ UNCHANGED <<queue, sending>>
    BY DEF Next, vars, LogSend, Stop, ReceiveError, Deliver, Discard, ReceiveAck, ReceiveData, Lose
  <2>2. ASSUME NEW g \in Hosts, Send(g) \/ Retire(g) \/ Transmit(g) \/ Requeue(g), g # h
        PROVE  queue'[h] = queue[h] /\ sending'[h] = sending[h]
    BY <1>1, <2>2 DEF Send, Retire, Transmit, Requeue, Pops
  <2> QED
    BY <2>1, <2>2
<1> QED
  BY <1>3, <1>4, <1>5, <1>6, <1>7

LEMMA LinkStep == TypeInv /\ LinkInv /\ [Next]_vars => LinkInv'
<1> SUFFICES ASSUME TypeInv, LinkInv, [Next]_vars PROVE LinkInv'
  OBVIOUS
<1>1. TypeInv'
  BY TypeStep
<1>2. OwnMessages'
  <2> SUFFICES ASSUME NEW h \in Hosts
               PROVE  /\ (\A k \in DOMAIN queue[h] : queue[h][k].sender = h /\ Sent(queue[h][k]))'
                      /\ \A tm \in sending'[h] : tm.sender = h /\ Sent(tm)'
                      /\ \A tm, other \in sending'[h] : tm = other
    BY DEF OwnMessages
  <2>1. ASSUME NEW k \in DOMAIN queue[h]
        PROVE  queue[h][k] \in Data /\ queue[h][k].sender = h /\ Sent(queue[h][k])
    BY DEF TypeInv, TypeOK, LinkInv, OwnMessages
  <2>2. ASSUME NEW tm \in sending[h]
        PROVE  tm \in Data /\ tm.sender = h /\ Sent(tm)
    BY DEF TypeInv, TypeOK, LinkInv, OwnMessages
  <2>3. ASSUME Send(h), NEW tm, tm = TransportMessage(h, sent[h] + 1, next_id[h])
        PROVE  tm.sender = h /\ Sent(tm)'
    <3>1. sent'[h] = sent[h] + 1 /\ sent[h] \in Nat
      BY <2>3 DEF TypeInv, TypeOK, Send
    <3> QED
      BY <2>3, <3>1 DEF TransportMessage, Sent
  <2>4. ASSUME NEW k \in DOMAIN queue'[h], NEW tm, tm = queue'[h][k]
        PROVE  tm.sender = h /\ Sent(tm)'
    <3>1. CASE \E j \in DOMAIN queue[h] : tm = queue[h][j]
      <4>1. PICK j \in DOMAIN queue[h] : tm = queue[h][j]
        BY <3>1
      <4>2. tm \in Data /\ tm.sender = h /\ Sent(tm)
        BY <2>1, <4>1
      <4> QED
        BY <4>2, SentStays
    <3>2. CASE tm \in sending[h]
      BY <2>2, <3>2, SentStays
    <3>3. CASE Send(h) /\ tm = TransportMessage(h, sent[h] + 1, next_id[h])
      BY <2>3, <3>3
    <3> QED
      BY <2>4, <3>1, <3>2, <3>3, QueueStep
  <2>5. ASSUME NEW tm \in sending'[h]
        PROVE  tm.sender = h /\ Sent(tm)'
    BY <2>1, <2>2, SendingStep, SentStays
  <2>6. \A tm, other \in sending'[h] : tm = other
    BY SendingStep DEF LinkInv, OwnMessages
  <2> QED
    BY <2>4, <2>5, <2>6
<1>3. \A d \in network' : d.type = "Data" => Sent(d)'
  <2> SUFFICES ASSUME NEW d \in network', d.type = "Data" PROVE Sent(d)'
    OBVIOUS
  <2>1. CASE d \in network
    <3>1. d \in Data /\ Sent(d)
      BY <2>1, AckFields DEF TypeInv, TypeOK, LinkInv, ReceivedMessages
    <3> QED
      BY <3>1, SentStays
  <2>2. ASSUME NEW h \in Hosts, NEW k \in DOMAIN queue[h], d = queue[h][k], d \in Data
        PROVE  Sent(d)'
    BY <2>2, SentStays DEF LinkInv, OwnMessages
  <2>3. ASSUME NEW tm, d = create_ack(tm) PROVE FALSE
    BY <2>3 DEF create_ack
  <2> QED
    BY <2>1, <2>2, <2>3, NetworkStep
<1>4. ASSUME NEW h \in Hosts
      PROVE  /\ \A tm \in receiving'[h] : tm.receiver = h /\ Sent(tm)'
             /\ \A tm, other \in receiving'[h] : tm = other
  <2>1. ASSUME NEW tm \in receiving[h] PROVE tm.receiver = h /\ Sent(tm)'
    BY SentStays DEF TypeInv, TypeOK, LinkInv, ReceivedMessages
  <2>2. ASSUME NEW d \in network, ReceiveData(h, d) PROVE d.receiver = h /\ Sent(d)'
    <3>1. d \in Data /\ d.type = "Data" /\ d.receiver = h
      BY <2>2, AckFields DEF TypeInv, TypeOK, ReceiveData, Receives
    <3> QED
      BY <3>1, SentStays DEF LinkInv, ReceivedMessages
  <2>3. \A tm, other \in receiving'[h] : tm = other
    BY ReceivingStep DEF LinkInv, ReceivedMessages
  <2> QED
    BY <2>1, <2>2, <2>3, ReceivingStep
<1>5. ClosedIdle'
  BY ClosedStep DEF LinkInv
<1>6. QueueBounded'
  BY QueueStays DEF LinkInv
<1> QED
  BY <1>2, <1>3, <1>4, <1>5, <1>6 DEF LinkInv, ReceivedMessages

LEMMA LinkInit == Init => LinkInv
BY DEF Init, LinkInv, OwnMessages, ReceivedMessages, ClosedIdle, QueueBounded

-----------------------------------------------------------------------------
(***************************************************************************)
(* The log: "d" lines and the delivered set grow together.                 *)
(***************************************************************************)

\* The lines and the delivered set of a host change in Deliver alone.
LEMMA OutputStep ==
  ASSUME TypeInv, LinkInv, [Next]_vars, NEW r \in Hosts
  PROVE  \/ output'[r] = output[r] /\ delivered_messages'[r] = delivered_messages[r]
         \/ \E tm \in receiving[r] :
              /\ tm \in Data
              /\ receiving[r] = {tm}
              /\ receiving'[r] = {}
              /\ ~IsDelivered(r, tm)
              /\ output'[r] = Append(output[r], Line(tm))
              /\ delivered_messages'[r] =
                    delivered_messages[r] \cup {<<tm.sender, tm.seq_number>>}
<1> USE DEF mainVars, linkVars, threadVars
<1>1. /\ output \in [Hosts -> Seq(Letters)]
      /\ DOMAIN delivered_messages = Hosts
      /\ receiving \in [Hosts -> SUBSET Data]
  BY DEF TypeInv, TypeOK
<1>2. CASE Deliver(r)
  <2>1. PICK tm \in receiving[r] :
          /\ ~IsDelivered(r, tm)
          /\ delivered_messages' = [delivered_messages EXCEPT ![r] =
                                      @ \cup {<<tm.sender, tm.seq_number>>}]
          /\ output' = [output EXCEPT ![r] = Append(@, Line(tm))]
    BY <1>2 DEF Deliver
  <2>2. receiving[r] = {tm} /\ receiving'[r] = {}
    BY <1>1, <1>2 DEF Deliver, LinkInv, ReceivedMessages
  <2> QED
    BY <1>1, <2>1, <2>2
<1>3. \/ Deliver(r)
      \/ output'[r] = output[r] /\ delivered_messages'[r] = delivered_messages[r]
  <2>1. (\E g \in Hosts : Deliver(g)) \/ UNCHANGED <<output, delivered_messages>>
    BY DEF Next, vars, LogSend, Send, Stop, ReceiveError, Retire, Transmit, Requeue, Discard,
           ReceiveAck, ReceiveData, Lose
  <2>2. ASSUME NEW g \in Hosts, Deliver(g), g # r
        PROVE  output'[r] = output[r] /\ delivered_messages'[r] = delivered_messages[r]
    BY <1>1, <2>2 DEF Deliver
  <2> QED
    BY <2>1, <2>2
<1> QED
  BY <1>2, <1>3

\* What the line of a newly delivered message is.
LEMMA LineFields ==
  ASSUME NEW tm \in Data
  PROVE  /\ Line(tm) \in Letters
         /\ Line(tm).sender = tm.sender
         /\ Line(tm).payload = tm.payload
         /\ Line(tm).receiver = tm.receiver
BY DataFields DEF Line

LEMMA LogInit == Init => LogInv
BY DEF Init, LogInv, Lines, NoDuplication

LEMMA LogStep == TypeInv /\ LinkInv /\ LogInv /\ [Next]_vars => LogInv'
<1> SUFFICES ASSUME TypeInv, LinkInv, LogInv, [Next]_vars PROVE LogInv'
  OBVIOUS
<1> SUFFICES ASSUME NEW r \in Hosts
             PROVE  /\ Lines(r)'
                    /\ (\A j, k \in DOMAIN output[r] : output[r][j] = output[r][k] => j = k)'
  BY DEF LogInv, NoDuplication
<1>1. output[r] \in Seq(Letters) /\ output'[r] \in Seq(Letters)
  BY TypeStep DEF TypeInv, TypeOK
<1>2. ASSUME NEW line \in Letters, line.payload <= sent[line.sender]
      PROVE  line.payload <= sent'[line.sender]
  BY <1>2, LetterFields, WorkloadType, SentGrows
<1>3. CASE output'[r] = output[r] /\ delivered_messages'[r] = delivered_messages[r]
  <2>1. ASSUME NEW k \in DOMAIN output'[r]
        PROVE  /\ output'[r][k] = output[r][k]
               /\ output[r][k] \in Letters
               /\ output[r][k].payload <= sent'[output[r][k].sender]
    <3>1. k \in DOMAIN output[r] /\ output'[r][k] = output[r][k]
      BY <1>3
    <3>2. output[r][k] \in Letters
      BY <1>1, <3>1
    <3>3. output[r][k].payload <= sent[output[r][k].sender]
      BY <3>1 DEF LogInv, Lines
    <3> QED
      BY <1>2, <3>1, <3>2, <3>3
  <2>2. Lines(r)'
    BY <1>3, <2>1 DEF LogInv, Lines
  <2> QED
    BY <1>3, <2>2 DEF LogInv, NoDuplication
<1>4. ASSUME NEW tm \in receiving[r],
             tm \in Data,
             ~IsDelivered(r, tm),
             output'[r] = Append(output[r], Line(tm)),
             delivered_messages'[r] =
               delivered_messages[r] \cup {<<tm.sender, tm.seq_number>>}
      PROVE  /\ Lines(r)'
             /\ (\A j, k \in DOMAIN output[r] : output[r][j] = output[r][k] => j = k)'
  <2>1. /\ Line(tm) \in Letters
        /\ Line(tm).sender = tm.sender
        /\ Line(tm).payload = tm.payload
        /\ Line(tm).receiver = r
        /\ tm.seq_number = SeqNumber(tm.payload)
        /\ tm.payload <= sent[tm.sender]
    BY <1>4, LineFields, DataFields DEF LinkInv, ReceivedMessages, Sent
  <2>2. /\ Len(output'[r]) = Len(output[r]) + 1
        /\ \A k \in 1 .. Len(output[r]) : output'[r][k] = output[r][k]
        /\ output'[r][Len(output[r]) + 1] = Line(tm)
        /\ DOMAIN output'[r] = 1 .. Len(output[r]) + 1
        /\ DOMAIN output[r] = 1 .. Len(output[r])
        /\ Len(output[r]) \in Nat
    BY <1>1, <1>4, <2>1
  <2>3. ASSUME NEW k \in DOMAIN output[r]
        PROVE  /\ output'[r][k] = output[r][k]
               /\ output[r][k] \in Letters
               /\ <<output[r][k].sender, SeqNumber(output[r][k].payload)>>
                    \in delivered_messages[r]
               /\ output[r][k].payload <= sent'[output[r][k].sender]
               /\ output[r][k].receiver = r
               /\ output[r][k] # Line(tm)
    <3>1. output'[r][k] = output[r][k] /\ output[r][k] \in Letters
      BY <1>1, <2>2
    <3>2. <<output[r][k].sender, SeqNumber(output[r][k].payload)>> \in delivered_messages[r]
      BY DEF LogInv, Lines
    <3>3. output[r][k] # Line(tm)
      BY <1>4, <2>1, <3>2 DEF IsDelivered
    <3> QED
      BY <1>2, <3>1, <3>2, <3>3 DEF LogInv, Lines
  <2>4. Line(tm).payload <= sent'[Line(tm).sender]
    BY <1>2, <2>1
  <2>5. \A k \in DOMAIN output'[r] :
          \/ k \in DOMAIN output[r]
          \/ k = Len(output[r]) + 1 /\ output'[r][k] = Line(tm)
    BY <2>2
  <2>6. ASSUME NEW k \in DOMAIN output'[r]
        PROVE  /\ <<output'[r][k].sender, SeqNumber(output'[r][k].payload)>>
                    \in delivered_messages'[r]
               /\ output'[r][k].payload <= sent'[output'[r][k].sender]
               /\ output'[r][k].receiver = r
    BY <1>4, <2>1, <2>3, <2>4, <2>5
  <2>7. ASSUME NEW j \in DOMAIN output'[r], NEW k \in DOMAIN output'[r],
               output'[r][j] = output'[r][k]
        PROVE  j = k
    <3>1. CASE j \in DOMAIN output[r] /\ k \in DOMAIN output[r]
      BY <2>3, <2>7, <3>1 DEF LogInv, NoDuplication
    <3>2. CASE j = Len(output[r]) + 1 /\ k = Len(output[r]) + 1
      BY <3>2
    <3>3. CASE j \in DOMAIN output[r] /\ k = Len(output[r]) + 1
      BY <2>2, <2>3, <2>7, <3>3
    <3>4. CASE j = Len(output[r]) + 1 /\ k \in DOMAIN output[r]
      BY <2>2, <2>3, <2>7, <3>4
    <3> QED
      BY <2>5, <3>1, <3>2, <3>3, <3>4
  <2>8. Lines(r)'
    BY <2>6 DEF Lines
  <2> QED
    BY <2>7, <2>8
<1> QED
  BY <1>3, <1>4, OutputStep

LEMMA CreationFromLog == TypeInv /\ LogInv => NoCreation
<1> SUFFICES ASSUME TypeInv, LogInv, NEW h \in Hosts, NEW k \in DOMAIN output[h],
                    NEW line, line = output[h][k]
             PROVE  /\ line.payload \in 1 .. logged[line.sender]
                    /\ line = Letter(line.sender, line.payload)
                    /\ line.receiver = h
  BY DEF NoCreation
<1>1. line \in Letters
  BY DEF TypeInv, TypeOK
<1>2. line.payload <= sent[line.sender] /\ line.receiver = h
  BY DEF LogInv, Lines
<1>3. line.sender \in Hosts /\ logged[line.sender] \in Nat /\ sent[line.sender] \in Nat
  BY <1>1, LetterFields, WorkloadType DEF TypeInv, TypeOK, Counters
<1>4. sent[line.sender] <= logged[line.sender]
  BY <1>3 DEF TypeInv, TypeOK, Counters
<1> QED
  BY <1>1, <1>2, <1>3, <1>4, LetterFields

-----------------------------------------------------------------------------
(***************************************************************************)
(* The refinement of ReliableLink.                                         *)
(***************************************************************************)

HandedFields ==
  /\ Handed \subseteq Letters
  /\ \A line \in Letters : line \in Handed <=> line.payload <= sent[line.sender]

LEMMA HandedLemma == TypeInv => HandedFields
<1> SUFFICES ASSUME TypeInv PROVE HandedFields
  OBVIOUS
<1>1. ASSUME NEW h \in Hosts, NEW i \in 1 .. sent[h]
      PROVE  /\ i \in 1 .. Count(h)
             /\ Letter(h, i) \in Letters
             /\ Letter(h, i).sender = h /\ Letter(h, i).payload = i
  <2>1. i \in 1 .. Count(h)
    BY WorkloadType DEF TypeInv, TypeOK, Counters
  <2> QED
    BY <2>1, DataOfLine
<1>2. Handed \subseteq Letters
  BY <1>1 DEF Handed
<1>3. ASSUME NEW line \in Letters, line \in Handed
      PROVE  line.payload <= sent[line.sender]
  <2>1. PICK h \in Hosts : \E i \in 1 .. sent[h] : line = Letter(h, i)
    BY <1>3 DEF Handed
  <2>2. PICK i \in 1 .. sent[h] : line = Letter(h, i)
    BY <2>1
  <2> QED
    BY <1>1, <2>2 DEF TypeInv, TypeOK
<1>4. ASSUME NEW line \in Letters, line.payload <= sent[line.sender]
      PROVE  line \in Handed
  <2>1. /\ line.sender \in Hosts
        /\ line.payload \in 1 .. sent[line.sender]
        /\ line = Letter(line.sender, line.payload)
    BY <1>4, LetterFields, WorkloadType DEF TypeInv, TypeOK
  <2> QED
    BY <2>1 DEF Handed
<1> QED
  BY <1>2, <1>3, <1>4 DEF HandedFields

LEMMA RefinementInit == Init => RL!Init
BY DEF Init, RL!Init, Handed

LEMMA RefinementSend ==
  ASSUME TypeInv, TypeInv', NEW h \in Hosts, Send(h)
  PROVE  \E m \in Letters : RL!Send(m)
<1> DEFINE m == Letter(h, sent[h] + 1)
<1>0. HandedFields /\ HandedFields'
  <2>1. TypeInv' => HandedFields'
    BY HandedLemma, PTL
  <2> QED
    BY <2>1, HandedLemma
<1>1. /\ sent[h] \in Nat
      /\ sent[h] + 1 \in 1 .. Count(h)
      /\ sent' = [sent EXCEPT ![h] = @ + 1]
      /\ h \notin down
      /\ UNCHANGED <<output, down, closed>>
  BY WorkloadType DEF TypeInv, TypeOK, Counters, Send
<1>2. m \in Letters /\ m.sender = h /\ m.payload = sent[h] + 1
  BY <1>1, DataOfLine
<1>3. m \notin Handed
  BY <1>0, <1>1, <1>2 DEF HandedFields
<1>4. ASSUME NEW line \in Letters
      PROVE  line \in Handed' <=> line \in Handed \/ line = m
  <2>1. line \in Handed' <=> line.payload <= sent'[line.sender]
    BY <1>0 DEF HandedFields
  <2>2. line \in Handed <=> line.payload <= sent[line.sender]
    BY <1>0 DEF HandedFields
  <2>3. /\ line.sender \in Hosts /\ line.payload \in Nat
        /\ line = Letter(line.sender, line.payload)
    BY LetterFields, WorkloadType
  <2>4. CASE line.sender = h
    <3>1. sent'[h] = sent[h] + 1
      BY <1>1 DEF TypeInv, TypeOK
    <3> QED
      BY <1>1, <1>2, <2>1, <2>2, <2>3, <2>4, <3>1
  <2>5. CASE line.sender # h
    BY <1>1, <1>2, <2>1, <2>2, <2>3, <2>5 DEF TypeInv, TypeOK
  <2> QED
    BY <2>4, <2>5
<1>5. Handed \subseteq Letters /\ Handed' \subseteq Letters
  BY <1>0 DEF HandedFields
<1>6. Handed' = Handed \cup {m}
  BY <1>2, <1>4, <1>5
<1>7. RL!Send(m)
  BY <1>1, <1>2, <1>3, <1>6 DEF RL!Send
<1> QED
  BY <1>2, <1>7

LEMMA RefinementDeliver ==
  ASSUME TypeInv, LinkInv, LogInv, NEW h \in Hosts, Deliver(h)
  PROVE  \E m \in Letters : RL!Deliver(m)
<1>1. PICK tm \in receiving[h] :
        /\ ~IsDelivered(h, tm)
        /\ output' = [output EXCEPT ![h] = Append(@, Line(tm))]
  BY DEF Deliver
<1>2. tm \in Data /\ tm.receiver = h /\ Sent(tm)
  BY DEF TypeInv, TypeOK, LinkInv, ReceivedMessages
<1> DEFINE m == Line(tm)
<1>3. /\ m \in Letters /\ m.sender = tm.sender /\ m.payload = tm.payload
      /\ m.receiver = h /\ tm.seq_number = SeqNumber(tm.payload)
  BY <1>2, LineFields, DataFields
<1>4. m \in Handed
  BY <1>2, <1>3, HandedLemma DEF HandedFields, Sent
<1>5. ~RL!Delivered(m)
  <2> SUFFICES ASSUME NEW k \in DOMAIN output[h], output[h][k] = m PROVE FALSE
    BY <1>3 DEF RL!Delivered
  <2>1. <<m.sender, SeqNumber(m.payload)>> \in delivered_messages[h]
    BY DEF LogInv, Lines
  <2> QED
    BY <1>1, <1>3, <2>1 DEF IsDelivered
<1>6. h \notin down \cup closed /\ UNCHANGED <<sent, down, closed>>
  BY <1>1 DEF Deliver, mainVars, LinkInv, ClosedIdle
<1>7. Handed' = Handed
  BY <1>6 DEF Handed
<1>8. RL!Deliver(m)
  BY <1>1, <1>3, <1>4, <1>5, <1>6, <1>7 DEF RL!Deliver
<1> QED
  BY <1>3, <1>8

LEMMA RefinementStep ==
  TypeInv /\ LinkInv /\ LogInv /\ [Next]_vars => [RL!Next]_(RL!vars)
<1> SUFFICES ASSUME TypeInv, LinkInv, LogInv, [Next]_vars
             PROVE  [RL!Next]_(RL!vars)
  OBVIOUS
<1>1. CASE \E h \in Hosts : Send(h)
  BY <1>1, TypeStep, RefinementSend DEF RL!Next
<1>2. CASE \E h \in Hosts : Deliver(h)
  BY <1>2, RefinementDeliver DEF RL!Next
<1>3. ASSUME NEW h \in Hosts, Stop(h) PROVE RL!Next
  <2>1. RL!Stop(h)
    BY <1>3 DEF Stop, RL!Stop, Handed, mainVars
  <2> QED
    BY <2>1 DEF RL!Next
<1>4. ASSUME NEW h \in Hosts, ReceiveError(h) PROVE RL!Next
  <2>1. RL!CutOff(h)
    BY <1>4 DEF ReceiveError, RL!CutOff, Handed, mainVars
  <2> QED
    BY <2>1 DEF RL!Next
<1>5. CASE UNCHANGED <<sent, output, down, closed>>
  BY <1>5 DEF RL!vars, Handed
<1>6. \/ \E h \in Hosts : Send(h) \/ Deliver(h) \/ Stop(h) \/ ReceiveError(h)
      \/ UNCHANGED <<sent, output, down, closed>>
  BY DEF Next, vars, mainVars, LogSend, Retire, Transmit, Requeue, Discard, ReceiveAck,
         ReceiveData, Lose
<1> QED
  BY <1>1, <1>2, <1>3, <1>4, <1>5, <1>6

-----------------------------------------------------------------------------
(***************************************************************************)
(* Acknowledgements.                                                       *)
(***************************************************************************)

LEMMA DeliveredStays ==
  ASSUME TypeInv, LinkInv, [Next]_vars, NEW h \in Hosts, NEW i \in 1 .. Count(h),
         Delivered(h, i)
  PROVE  Delivered(h, i)'
<1> DEFINE r == Workload[h][i]
<1>1. r \in Hosts /\ output[r] \in Seq(Letters)
  BY WorkloadType DEF TypeInv, TypeOK
<1>2. CASE output'[r] = output[r]
  BY <1>2 DEF Delivered
<1>3. ASSUME NEW tm \in Data, output'[r] = Append(output[r], Line(tm))
      PROVE  Delivered(h, i)'
  <2>1. \A k \in DOMAIN output[r] : k \in DOMAIN output'[r] /\ output'[r][k] = output[r][k]
    BY <1>1, <1>3, LineFields, AppendEntries
  <2> QED
    BY <2>1 DEF Delivered
<1> QED
  BY <1>1, <1>2, <1>3, OutputStep

\* What becomes of the message in the receiving thread's hands.
LEMMA HandStep ==
  ASSUME TypeInv, LinkInv, [Next]_vars, NEW r \in Hosts, NEW tm \in receiving[r]
  PROVE  \/ tm \in receiving'[r]
         \/ IsDelivered(r, tm)
         \/ output'[r] = Append(output[r], Line(tm))
<1> USE DEF mainVars, linkVars, threadVars
<1>1. /\ receiving \in [Hosts -> SUBSET Data]
      /\ output \in [Hosts -> Seq(Letters)]
      /\ \A other \in receiving[r] : other = tm
  BY DEF TypeInv, TypeOK, LinkInv, ReceivedMessages
<1>2. CASE Deliver(r)
  BY <1>1, <1>2 DEF Deliver
<1>3. CASE Discard(r)
  BY <1>1, <1>3 DEF Discard
<1>4. Deliver(r) \/ Discard(r) \/ receiving'[r] = receiving[r]
  <2>1. \/ \E g \in Hosts : \/ Deliver(g) \/ Discard(g)
                            \/ \E d \in network : ReceiveData(g, d)
        \/ UNCHANGED receiving
    BY DEF Next, vars, LogSend, Send, Stop, ReceiveError, Retire, Transmit, Requeue, ReceiveAck, Lose
  <2>2. ASSUME NEW g \in Hosts, g # r,
               Deliver(g) \/ Discard(g) \/ \E d \in network : ReceiveData(g, d)
        PROVE  receiving'[r] = receiving[r]
    BY <1>1, <2>2 DEF Deliver, Discard, ReceiveData
  <2>3. ASSUME NEW d \in network, ReceiveData(r, d) PROVE FALSE
    BY <2>3 DEF ReceiveData, Receives
  <2> QED
    BY <2>1, <2>2, <2>3
<1> QED
  BY <1>2, <1>3, <1>4

\* Delivering a message writes its line.
LEMMA LineDelivered ==
  ASSUME TypeInv, NEW tm \in Data, NEW r, tm.receiver = r,
         output'[r] = Append(output[r], Line(tm))
  PROVE  Delivered(tm.sender, tm.payload)'
<1>1. /\ tm.receiver = Workload[tm.sender][tm.payload]
      /\ Line(tm) = Letter(tm.sender, tm.payload)
      /\ Line(tm) \in Letters
      /\ tm.receiver \in Hosts
  BY DataFields
<1>2. output[r] \in Seq(Letters) /\ Line(tm) \in Letters
  BY <1>1 DEF TypeInv, TypeOK
<1>3. \E k \in DOMAIN output'[r] : output'[r][k] = Line(tm)
  BY <1>2, AppendEntries
<1> QED
  BY <1>1, <1>3 DEF Delivered

LEMMA AnsweredStays ==
  ASSUME TypeInv, LinkInv, RecordedLines, [Next]_vars,
         NEW h \in Hosts, NEW r \in Hosts, NEW s, Answered(h, r, s)
  PROVE  Answered(h, r, s)'
<1>1. PICK i \in 1 .. Count(h) :
        /\ Workload[h][i] = r
        /\ SeqNumber(i) = s
        /\ InHand(receiving[r], h, i) \/ Delivered(h, i)
  BY DEF Answered
<1>2. CASE Delivered(h, i)
  BY <1>1, <1>2, DeliveredStays DEF Answered
<1>3. ASSUME NEW tm \in receiving[r], tm.sender = h, tm.payload = i
      PROVE  Answered(h, r, s)'
  <2>1. /\ tm \in Data /\ tm.receiver = r
        /\ tm.seq_number = s /\ s \in 0 .. SeqModulus - 1
    BY <1>1, <1>3, DataFields DEF TypeInv, TypeOK
  <2>2. CASE tm \in receiving'[r]
    BY <1>1, <1>3, <2>2 DEF Answered, InHand
  <2>3. CASE IsDelivered(r, tm)
    <3>1. PICK j \in 1 .. Count(h) :
            Workload[h][j] = r /\ SeqNumber(j) = s /\ Delivered(h, j)
      BY <1>3, <2>1, <2>3 DEF IsDelivered, RecordedLines
    <3> QED
      BY <3>1, DeliveredStays DEF Answered
  <2>4. CASE output'[r] = Append(output[r], Line(tm))
    BY <1>1, <1>3, <2>1, <2>4, LineDelivered DEF Answered
  <2> QED
    BY <2>2, <2>3, <2>4, HandStep
<1> QED
  BY <1>1, <1>2, <1>3 DEF InHand

LEMMA AckInit == Init => AckInv
BY DEF Init, AckInv, RecordedLines, AcksAnswered

LEMMA RecordedStep ==
  ASSUME TypeInv, LinkInv, RecordedLines, [Next]_vars
  PROVE  RecordedLines'
<1> SUFFICES ASSUME NEW r \in Hosts, NEW h \in Hosts, NEW s \in 0 .. SeqModulus - 1,
                    <<h, s>> \in delivered_messages'[r]
             PROVE  (\E i \in 1 .. Count(h) :
                       Workload[h][i] = r /\ SeqNumber(i) = s /\ Delivered(h, i))'
  BY DEF RecordedLines
<1>1. CASE <<h, s>> \in delivered_messages[r]
  <2>1. PICK i \in 1 .. Count(h) : Workload[h][i] = r /\ SeqNumber(i) = s /\ Delivered(h, i)
    BY <1>1 DEF RecordedLines
  <2> QED
    BY <2>1, DeliveredStays
<1>2. ASSUME NEW tm \in receiving[r],
             output'[r] = Append(output[r], Line(tm)),
             <<h, s>> = <<tm.sender, tm.seq_number>>
      PROVE  (\E i \in 1 .. Count(h) :
                Workload[h][i] = r /\ SeqNumber(i) = s /\ Delivered(h, i))'
  <2>1. tm \in Data /\ tm.receiver = r /\ tm.sender = h /\ tm.seq_number = s
    BY <1>2 DEF TypeInv, TypeOK, LinkInv, ReceivedMessages
  <2>2. /\ tm.payload \in 1 .. Count(h)
        /\ Workload[h][tm.payload] = r
        /\ SeqNumber(tm.payload) = s
    BY <2>1, DataFields
  <2>3. Delivered(h, tm.payload)'
    BY <1>2, <2>1, LineDelivered
  <2> QED
    BY <2>2, <2>3
<1> QED
  BY <1>1, <1>2, OutputStep

LEMMA AckStep == TypeInv /\ LinkInv /\ AckInv /\ [Next]_vars => AckInv'
<1> SUFFICES ASSUME TypeInv, LinkInv, AckInv, [Next]_vars PROVE AckInv'
  OBVIOUS
<1> USE DEF mainVars, linkVars, threadVars
<1>1. RecordedLines /\ RecordedLines'
  BY RecordedStep DEF AckInv
<1>2. ASSUME NEW d \in network, d.type = "Ack"
      PROVE  /\ d.sender \in Hosts /\ d.receiver \in Hosts
             /\ Answered(d.receiver, d.sender, d.seq_number)'
  <2>1. d \in Acks
    BY <1>2, DataFields DEF TypeInv, TypeOK
  <2>2. Answered(d.receiver, d.sender, d.seq_number)
    BY <1>2 DEF AckInv, AcksAnswered
  <2> QED
    BY <1>1, <2>1, <2>2, AckFields, AnsweredStays
<1>3. ASSUME NEW h \in Hosts, NEW tm \in network, ReceiveData(h, tm),
             NEW d, d = create_ack(tm)
      PROVE  Answered(d.receiver, d.sender, d.seq_number)'
  <2>1. tm \in Data /\ tm.receiver = h /\ receiving'[h] = {tm}
    BY <1>3, AckFields DEF TypeInv, TypeOK, ReceiveData, Receives
  <2>2. d.receiver = tm.sender /\ d.sender = h /\ d.seq_number = tm.seq_number
    BY <1>3, <2>1 DEF create_ack
  <2>3. InHand(receiving'[h], tm.sender, tm.payload)
    BY <2>1 DEF InHand
  <2> QED
    BY <2>1, <2>2, <2>3, DataFields DEF Answered
<1>4. \A d \in network' : d.type = "Ack" => Answered(d.receiver, d.sender, d.seq_number)'
  BY <1>2, <1>3, NetworkStep, DataFields
<1>5. ASSUME NEW h \in Hosts, NEW r \in Hosts, NEW s \in 0 .. SeqModulus - 1,
             <<r, s>> \in acked_messages'[h]
      PROVE  Answered(h, r, s)'
  <2>1. CASE <<r, s>> \in acked_messages[h]
    BY <1>1, <2>1, AnsweredStays DEF AckInv, AcksAnswered
  <2>2. ASSUME NEW g \in Hosts, NEW d \in network, ReceiveAck(g, d),
               <<r, s>> \notin acked_messages[h]
        PROVE  Answered(h, r, s)'
    <3>1. d.type = "Ack" /\ d.receiver = g
      BY <2>2 DEF ReceiveAck, Receives
    <3>2. g = h /\ <<r, s>> = <<d.sender, d.seq_number>>
      BY <1>5, <2>2 DEF TypeInv, TypeOK, ReceiveAck
    <3> QED
      BY <1>2, <3>1, <3>2
  <2>3. \/ \E g \in Hosts : \E d \in network : ReceiveAck(g, d)
        \/ UNCHANGED acked_messages
    BY DEF Next, vars, LogSend, Send, Stop, ReceiveError, Retire, Transmit, Requeue, Deliver, Discard,
           ReceiveData, Lose
  <2> QED
    BY <1>5, <2>1, <2>2, <2>3
<1> QED
  BY <1>1, <1>4, <1>5 DEF AckInv, AcksAnswered

-----------------------------------------------------------------------------
(***************************************************************************)
(* NoMessageLost.  Retire and Discard decide by seq number; without wrap-  *)
(* around the seq number singles out the message.                          *)
(***************************************************************************)

LEMMA LostInit == Init => NoMessageLost
BY DEF Init, NoMessageLost

\* A pop takes no other message than the head out of the queue.
LEMMA PopsQueued ==
  ASSUME TypeInv, NEW h \in Hosts, Pops(h), NEW i, Queued(h, i)
  PROVE  Queued(h, i)' \/ Head(queue[h]).payload = i
<1>1. queue[h] \in Seq(Data) /\ queue[h] # <<>> /\ queue'[h] = Tail(queue[h])
  BY DEF TypeInv, TypeOK, Pops
<1>2. PICK k \in DOMAIN queue[h] : queue[h][k].payload = i
  BY DEF Queued
<1>3. \/ queue[h][k] = Head(queue[h])
      \/ k - 1 \in DOMAIN Tail(queue[h]) /\ Tail(queue[h])[k - 1] = queue[h][k]
  BY <1>1, TailEntries
<1> QED
  BY <1>1, <1>2, <1>3 DEF Queued

\* A push loses nothing and adds its message.
LEMMA PushQueued ==
  ASSUME TypeInv, NEW h \in Hosts, NEW tm \in Data, queue'[h] = Append(queue[h], tm), NEW i,
         Queued(h, i) \/ tm.payload = i
  PROVE  Queued(h, i)'
<1>1. queue[h] \in Seq(Data)
  BY DEF TypeInv, TypeOK
<1>2. /\ \A k \in DOMAIN queue[h] : k \in DOMAIN queue'[h] /\ queue'[h][k] = queue[h][k]
      /\ \E k \in DOMAIN queue'[h] : queue'[h][k] = tm
  <2>1. /\ Len(queue'[h]) = Len(queue[h]) + 1
        /\ queue'[h][Len(queue[h]) + 1] = tm
        /\ \A k \in 1 .. Len(queue[h]) : queue'[h][k] = queue[h][k]
        /\ DOMAIN queue'[h] = 1 .. Len(queue[h]) + 1
        /\ DOMAIN queue[h] = 1 .. Len(queue[h])
        /\ Len(queue[h]) \in Nat
    BY <1>1
  <2> QED
    BY <2>1
<1> QED
  BY <1>2 DEF Queued

\* The sender keeps a message that nobody has answered.
LEMMA SenderKeeps ==
  ASSUME NoWrap, TypeInv, LinkInv, AckInv, [Next]_vars,
         NEW h \in Hosts, NEW i \in 1 .. Count(h),
         Queued(h, i) \/ InHand(sending[h], h, i)
  PROVE  \/ Queued(h, i)'
         \/ InHand(sending[h], h, i)'
         \/ InHand(receiving[Workload[h][i]], h, i)'
         \/ Delivered(h, i)'
<1> USE DEF mainVars, linkVars, threadVars
<1>1. CASE Retire(h)
  <2>1. InHand(sending[h], h, i) => InHand(sending[h], h, i)'
    BY <1>1 DEF Retire
  <2>2. ASSUME Queued(h, i), Head(queue[h]).payload = i
        PROVE  InHand(receiving[Workload[h][i]], h, i)' \/ Delivered(h, i)'
    <3> DEFINE tm == Head(queue[h])
    <3>1. tm \in Data /\ tm.sender = h
      <4>1. queue[h] \in Seq(Data) /\ queue[h] # <<>>
        BY <1>1 DEF TypeInv, TypeOK, Retire, Pops
      <4>2. \E k \in DOMAIN queue[h] : queue[h][k] = tm
        BY <4>1, TailEntries
      <4> QED
        BY <4>1, <4>2 DEF LinkInv, OwnMessages
    <3>2. /\ tm.receiver = Workload[h][i]
          /\ tm.seq_number = SeqNumber(i)
          /\ tm.receiver \in Hosts
          /\ tm.seq_number \in 0 .. SeqModulus - 1
      BY <2>2, <3>1, DataFields
    <3>3. Answered(h, tm.receiver, tm.seq_number)
      BY <1>1, <3>2 DEF Retire, IsAcked, AckInv, AcksAnswered
    <3>4. Answered(h, Workload[h][i], SeqNumber(i))'
      BY <3>2, <3>3, AnsweredStays, WorkloadType DEF AckInv
    <3> QED
      BY <3>4, SeqNumberInjective DEF Answered
  <2> QED
    BY <1>1, <2>1, <2>2, PopsQueued DEF Retire
<1>2. CASE Transmit(h)
  <2>1. /\ sending'[h] = {Head(queue[h])}
        /\ sending[h] = {}
        /\ queue[h] \in Seq(Data) /\ queue[h] # <<>>
    BY <1>2 DEF TypeInv, TypeOK, Transmit, Pops
  <2>2. Head(queue[h]).sender = h
    BY <2>1, TailEntries DEF LinkInv, OwnMessages
  <2> QED
    BY <1>2, <2>1, <2>2, PopsQueued DEF Transmit, InHand
<1>3. CASE Requeue(h)
  <2>1. PICK tm \in sending[h] : queue' = [queue EXCEPT ![h] = Append(@, tm)]
    BY <1>3 DEF Requeue
  <2>2. /\ tm \in Data
        /\ queue'[h] = Append(queue[h], tm)
        /\ \A other \in sending[h] : other = tm
    BY <2>1 DEF TypeInv, TypeOK, LinkInv, OwnMessages
  <2>3. Queued(h, i) \/ tm.payload = i
    BY <2>2 DEF InHand
  <2> QED
    BY <2>2, <2>3, PushQueued
<1>4. CASE Send(h)
  <2>1. TransportMessage(h, sent[h] + 1, next_id[h]) \in Data
    BY <1>4, WorkloadType, DataOfLine DEF TypeInv, TypeOK, Counters, Send
  <2>2. queue'[h] = Append(queue[h], TransportMessage(h, sent[h] + 1, next_id[h]))
    BY <1>4 DEF TypeInv, TypeOK, Send
  <2>3. Queued(h, i) => Queued(h, i)'
    BY <2>1, <2>2, PushQueued
  <2>4. InHand(sending[h], h, i) => InHand(sending[h], h, i)'
    BY <1>4 DEF Send
  <2> QED
    BY <2>3, <2>4
<1>5. CASE queue'[h] = queue[h] /\ sending'[h] = sending[h]
  BY <1>5 DEF Queued, InHand
<1>6. \/ Retire(h) \/ Transmit(h) \/ Requeue(h) \/ Send(h)
      \/ queue'[h] = queue[h] /\ sending'[h] = sending[h]
  <2>1. \/ \E g \in Hosts : Retire(g) \/ Transmit(g) \/ Requeue(g) \/ Send(g)
        \/ UNCHANGED <<queue, sending>>
    BY DEF Next, vars, LogSend, Stop, ReceiveError, Deliver, Discard, ReceiveAck, ReceiveData, Lose
  <2>2. ASSUME NEW g \in Hosts, Retire(g) \/ Transmit(g) \/ Requeue(g) \/ Send(g), g # h
        PROVE  queue'[h] = queue[h] /\ sending'[h] = sending[h]
    BY <2>2 DEF TypeInv, TypeOK, Retire, Transmit, Requeue, Send, Pops
  <2> QED
    BY <2>1, <2>2
<1> QED
  BY <1>1, <1>2, <1>3, <1>4, <1>5, <1>6

LEMMA LostStep ==
  ASSUME NoWrap
  PROVE  TypeInv /\ LinkInv /\ AckInv /\ NoMessageLost /\ [Next]_vars => NoMessageLost'
<1> SUFFICES ASSUME TypeInv, LinkInv, AckInv, NoMessageLost, [Next]_vars,
                    NEW h \in Hosts, NEW i \in 1 .. sent'[h]
             PROVE  \/ Queued(h, i)'
                    \/ InHand(sending[h], h, i)'
                    \/ InHand(receiving[Workload[h][i]], h, i)'
                    \/ Delivered(h, i)'
  BY DEF NoMessageLost
<1>0. TypeInv'
  BY TypeStep
<1>1. i \in 1 .. Count(h) /\ Workload[h][i] \in Hosts
  BY <1>0, WorkloadType DEF TypeInv, TypeOK, Counters
<1>2. CASE i \notin 1 .. sent[h]
  <2>1. Send(h)
    <3>1. (\E g \in Hosts : Send(g)) \/ UNCHANGED sent
      BY DEF Next, vars, mainVars, LogSend, Stop, ReceiveError, Retire, Transmit, Requeue, Deliver, Discard,
             ReceiveAck, ReceiveData, Lose
    <3>2. ASSUME NEW g \in Hosts, Send(g), g # h PROVE FALSE
      BY <1>2, <3>2 DEF TypeInv, TypeOK, Send
    <3> QED
      BY <1>2, <3>1, <3>2
  <2>2. i = sent[h] + 1
    BY <1>2, <2>1 DEF TypeInv, TypeOK, Send
  <2>3. /\ TransportMessage(h, i, next_id[h]) \in Data
        /\ queue'[h] = Append(queue[h], TransportMessage(h, i, next_id[h]))
    BY <1>1, <2>1, <2>2, DataOfLine DEF TypeInv, TypeOK, Counters, Send
  <2> QED
    BY <2>3, PushQueued DEF TransportMessage
<1>3. CASE Queued(h, i) \/ InHand(sending[h], h, i)
  BY <1>1, <1>3, SenderKeeps
<1>4. CASE InHand(receiving[Workload[h][i]], h, i) \/ Delivered(h, i)
  <2>1. Answered(h, Workload[h][i], SeqNumber(i))
    BY <1>1, <1>4 DEF Answered
  <2>2. Answered(h, Workload[h][i], SeqNumber(i))'
    BY <1>1, <2>1, AnsweredStays DEF AckInv
  <2> QED
    BY <1>1, <2>2, SeqNumberInjective DEF Answered
<1> QED
  BY <1>2, <1>3, <1>4 DEF NoMessageLost

-----------------------------------------------------------------------------
(***************************************************************************)
(* The theorems.                                                           *)
(***************************************************************************)

\* The strengthening is an invariant, next_id wrapping around or not.
THEOREM IndInvHolds == Spec => []IndInv
<1>1. Init => IndInv
  BY TypeInit, LinkInit, LogInit, AckInit DEF IndInv
<1>2. IndInv /\ [Next]_vars => IndInv'
  BY TypeStep, LinkStep, LogStep, AckStep DEF IndInv
<1> QED
  BY <1>1, <1>2, PTL DEF Spec

(***************************************************************************)
(* Type correctness of the link, whatever the threads and the network do:  *)
(* the messages in the queues, the threads' hands and the network are      *)
(* messages of the workload.                                               *)
(***************************************************************************)
THEOREM TypeCorrect == Spec => []TypeOK
<1>1. IndInv => TypeOK
  BY DEF IndInv, TypeInv
<1> QED
  BY <1>1, IndInvHolds, PTL

(***************************************************************************)
(* NoDuplication, even when next_id has wrapped around: it may suppress a  *)
(* delivery, but never makes a second one.                                 *)
(***************************************************************************)
THEOREM NoDuplicationHolds == Spec => []NoDuplication
<1>1. IndInv => NoDuplication
  BY DEF IndInv, LogInv
<1> QED
  BY <1>1, IndInvHolds, PTL

(***************************************************************************)
(* QueueBounded: each message that has been sent is at one place at most,  *)
(* in the queue or in the sending thread's hands.                          *)
(***************************************************************************)
THEOREM QueueBoundedHolds == Spec => []QueueBounded
<1>1. IndInv => QueueBounded
  BY DEF IndInv, LinkInv
<1> QED
  BY <1>1, IndInvHolds, PTL

(***************************************************************************)
(* NoCreation: a host writes "d s i" only about a message addressed to it, *)
(* and only when s has already written "b i".                              *)
(***************************************************************************)
THEOREM NoCreationHolds == Spec => []NoCreation
<1>1. IndInv => NoCreation
  BY CreationFromLog DEF IndInv
<1> QED
  BY <1>1, IndInvHolds, PTL

(***************************************************************************)
(* NoMessageLost for every workload that fits in the seq numbers: the      *)
(* early acknowledgement, sent before the delivery, loses nothing, because *)
(* what it acknowledges is in the receiving thread's hands.                *)
(***************************************************************************)
THEOREM NoMessageLostHolds ==
  ASSUME NoWrap
  PROVE  Spec => []NoMessageLost
<1>1. IndInv /\ NoMessageLost /\ [Next]_vars => NoMessageLost'
  BY LostStep DEF IndInv
<1> QED
  BY <1>1, LostInit, IndInvHolds, PTL DEF Spec

(***************************************************************************)
(* The retransmission protocol implements the safety part of ReliableLink: *)
(* what the layers above see of the link is the abstract link, whose       *)
(* deliveries are the "d" lines.                                           *)
(***************************************************************************)
THEOREM ImplementsReliableLink == Spec => ReliableLinkSafety
<1>1. IndInv /\ [Next]_vars => [RL!Next]_(RL!vars)
  BY RefinementStep DEF IndInv
<1> QED
  BY <1>1, RefinementInit, IndInvHolds, PTL DEF Spec, ReliableLinkSafety, RL!SafeSpec
=============================================================================
