------------------------- MODULE FifoBroadcastProofs -------------------------
(***************************************************************************)
(* Proofs about FifoBroadcast, for every finite set of hosts, any number   *)
(* of messages of each, any order in which urb delivers them and any       *)
(* number of hosts that stop: type correctness, FIFO order, that the       *)
(* buffer holds back only what it must, and that the lines written are     *)
(* again the deliveries of a UniformBroadcast.                             *)
(***************************************************************************)
EXTENDS FifoBroadcast, FiniteSetTheorems, TLAPS

-----------------------------------------------------------------------------
(***************************************************************************)
(* The inductive invariant.                                                *)
(***************************************************************************)

\* Urb delivers only what has been broadcast.
HandedInv ==
  \A h \in Hosts :
    /\ next_id[h] <= MessageCount[h]
    /\ \A k \in DOMAIN urbLog[h] : urbLog[h][k] \in Handed

\* What urb has delivered, of one source: the numbers up to the next one, and those held back.
HeldInv ==
  \A h, s \in Hosts :
    /\ \A n \in messages[h][s] : n > next_seq_nums[h][s]
    /\ {n \in 0 .. MessageCount[s] - 1 : URB!Delivered(h, BroadcastMessage(s, n))} =
         (0 .. next_seq_nums[h][s] - 1) \cup messages[h][s]

\* The lines written, and those about to be.
Lines(h) == output[h] \o delivering[h]

\* The lines are the messages below the next number of their source, in ascending order.
LinesInv ==
  \A h \in Hosts :
    /\ \A k \in DOMAIN Lines(h) :
         Lines(h)[k].seq_number < next_seq_nums[h][Lines(h)[k].source]
    /\ \A s \in Hosts : \A n \in 0 .. next_seq_nums[h][s] - 1 :
         \E k \in DOMAIN Lines(h) : Lines(h)[k] = BroadcastMessage(s, n)
    /\ \A k \in DOMAIN Lines(h) : \A j \in 1 .. k - 1 :
         Lines(h)[j].source = Lines(h)[k].source =>
           Lines(h)[j].seq_number < Lines(h)[k].seq_number

IndInv == TypeOK /\ HandedInv /\ HeldInv /\ LinesInv

-----------------------------------------------------------------------------
(***************************************************************************)
(* Messages.                                                               *)
(***************************************************************************)

LEMMA MessageFields ==
  \A bm \in Messages :
    /\ bm.source \in Hosts
    /\ bm.seq_number \in 0 .. MessageCount[bm.source] - 1
    /\ bm = BroadcastMessage(bm.source, bm.seq_number)
PROOF
  BY DEF Messages, BroadcastMessage

LEMMA MessagesMember ==
  \A h \in Hosts : \A n \in 0 .. MessageCount[h] - 1 : BroadcastMessage(h, n) \in Messages
PROOF
  BY DEF Messages

LEMMA MessageIsItsFields ==
  \A h, n, g, m :
    /\ BroadcastMessage(h, n).source = h
    /\ BroadcastMessage(h, n).seq_number = n
    /\ BroadcastMessage(h, n) = BroadcastMessage(g, m) => h = g /\ n = m
PROOF
  BY DEF BroadcastMessage

LEMMA HandedMember ==
  \A bm : bm \in Handed <=>
    \E h \in Hosts : \E n \in 0 .. next_id[h] - 1 : bm = BroadcastMessage(h, n)
PROOF
  BY DEF Handed

LEMMA HandedAreMessages ==
  ASSUME TypeOK, HandedInv
  PROVE  Handed \subseteq Messages
PROOF
<1>1. \A h \in Hosts : next_id[h] \in Nat /\ MessageCount[h] \in Nat
  BY FifoAssumption DEF TypeOK
<1>2. \A h \in Hosts : 0 .. next_id[h] - 1 \subseteq 0 .. MessageCount[h] - 1
  BY <1>1 DEF HandedInv
<1> QED
  BY <1>2, HandedMember, MessagesMember

\* Broadcasting goes through the messages one by one.
LEMMA HandedGrows ==
  ASSUME TypeOK, NEW h \in Hosts, next_id' = [next_id EXCEPT ![h] = @ + 1]
  PROVE  Handed' = Handed \cup {BroadcastMessage(h, next_id[h])}
PROOF
<1>1. \A bm : bm \in Handed' <=>
         \E g \in Hosts : \E n \in 0 .. next_id'[g] - 1 : bm = BroadcastMessage(g, n)
  BY DEF Handed
<1>2. next_id'[h] = next_id[h] + 1 /\ next_id[h] \in Nat
  BY DEF TypeOK
<1>3. 0 .. next_id'[h] - 1 = (0 .. next_id[h] - 1) \cup {next_id[h]}
  BY <1>2
<1>4. \A g \in Hosts \ {h} : next_id'[g] = next_id[g]
  BY DEF TypeOK
<1>5. ASSUME NEW bm \in Handed' PROVE bm \in Handed \cup {BroadcastMessage(h, next_id[h])}
  <2>1. PICK g \in Hosts : \E n \in 0 .. next_id'[g] - 1 : bm = BroadcastMessage(g, n)
    BY <1>1
  <2>2. PICK n \in 0 .. next_id'[g] - 1 : bm = BroadcastMessage(g, n)
    BY <2>1
  <2>3. CASE n \in 0 .. next_id[g] - 1
    BY <2>2, <2>3, HandedMember
  <2>4. CASE ~ (n \in 0 .. next_id[g] - 1)
    <3>1. g = h
      BY <1>4, <2>4
    <3>2. n = next_id[h]
      BY <1>3, <2>4, <3>1
    <3> QED
      BY <2>2, <3>1, <3>2
  <2> QED
    BY <2>3, <2>4
<1>6. ASSUME NEW bm \in Handed PROVE bm \in Handed'
  <2>1. PICK g \in Hosts : \E n \in 0 .. next_id[g] - 1 : bm = BroadcastMessage(g, n)
    BY HandedMember
  <2>2. PICK n \in 0 .. next_id[g] - 1 : bm = BroadcastMessage(g, n)
    BY <2>1
  <2>3. n \in 0 .. next_id'[g] - 1
    BY <1>3, <1>4
  <2> QED
    BY <1>1, <2>2, <2>3
<1>7. BroadcastMessage(h, next_id[h]) \in Handed'
  BY <1>1, <1>3
<1> QED
  BY <1>5, <1>6, <1>7

-----------------------------------------------------------------------------
(***************************************************************************)
(* What the buffer takes out of a heap whose numbers are none below the    *)
(* next one: the numbers from there on, up to the first that is missing.   *)
(***************************************************************************)
LEMMA RunLengthIs ==
  ASSUME NEW held \in SUBSET Nat, IsFiniteSet(held), NEW next \in Nat
  PROVE  /\ RunLength(held, next) \in Nat
         /\ \A n \in next .. next + RunLength(held, next) - 1 : n \in held
         /\ next + RunLength(held, next) \notin held
PROOF
<1> DEFINE Gaps == {k \in Nat : next + k \notin held}
<1>1. Cardinality(held) \in Nat
  BY FS_CardinalityType
<1>2. PICK j \in 0 .. Cardinality(held) : next + j \notin held
  <2> SUFFICES ASSUME \A j \in 0 .. Cardinality(held) : next + j \in held PROVE FALSE
    OBVIOUS
  <2> DEFINE run == next .. next + Cardinality(held)
  <2>1. run \subseteq held
    <3> SUFFICES ASSUME NEW n \in run PROVE n \in held
      OBVIOUS
    <3>1. n - next \in 0 .. Cardinality(held) /\ next + (n - next) = n
      BY <1>1
    <3> QED
      BY <3>1
  <2>2. Cardinality(run) <= Cardinality(held)
    BY <2>1, FS_Subset
  <2>3. Cardinality(run) = Cardinality(held) + 1
    BY <1>1, FS_Interval
  <2> QED
    BY <1>1, <2>2, <2>3
<1>3. PICK k \in Gaps : \A i \in Gaps : ~ (i < k)
  <2> DEFINE R == {ss \in Nat \X Nat : ss[1] < ss[2]}
  <2>1. IsWellFoundedOn(R, Nat)
    BY NatLessThanWellFounded DEF OpToRel
  <2>2. Gaps \subseteq Nat /\ j \in Gaps
    BY <1>1, <1>2
  <2> HIDE DEF R
  <2>3. \E k \in Gaps : \A i \in Gaps : ~ (<<i, k>> \in R)
    BY <2>1, <2>2, WFMin
  <2> QED
    BY <2>2, <2>3 DEF R
<1>4. k \in 0 .. Cardinality(held) /\ next + k \notin held
  BY <1>1, <1>2, <1>3
<1>5. \A n \in next .. next + k - 1 : n \in held
  <2> SUFFICES ASSUME NEW n \in next .. next + k - 1 PROVE n \in held
    OBVIOUS
  <2>1. n - next \in Nat /\ n - next < k /\ next + (n - next) = n
    BY <1>3
  <2> QED
    BY <1>3, <2>1
<1> DEFINE IsRun(i) == (\A n \in next .. next + i - 1 : n \in held) /\ next + i \notin held
<1>6. \E i \in 0 .. Cardinality(held) : IsRun(i)
  BY <1>4, <1>5
<1>7. RunLength(held, next) = CHOOSE i \in 0 .. Cardinality(held) : IsRun(i)
  BY DEF RunLength
<1> HIDE DEF IsRun
<1>8. RunLength(held, next) \in 0 .. Cardinality(held) /\ IsRun(RunLength(held, next))
  BY <1>6, <1>7
<1> QED
  BY <1>1, <1>8 DEF IsRun

LEMMA TakenIs ==
  ASSUME NEW held \in SUBSET Nat, IsFiniteSet(held), NEW next \in Nat,
         \A n \in held : ~ (n < next)
  PROVE  \E k \in Nat :
           /\ Taken(held, next) = [i \in 1 .. k |-> next + i - 1]
           /\ Len(Taken(held, next)) = k
           /\ Range(Taken(held, next)) = next .. next + k - 1
           /\ next .. next + k - 1 \subseteq held
           /\ next + k \notin held
PROOF
<1> DEFINE k == RunLength(held, next)
<1>1. k \in Nat /\ (\A n \in next .. next + k - 1 : n \in held) /\ next + k \notin held
  BY RunLengthIs
<1>2. Taken(held, next) = [i \in 1 .. k |-> next + i - 1]
  BY DEF Taken
<1> HIDE DEF k
<1>3. Len(Taken(held, next)) = k
  BY <1>1, <1>2
<1>4. Range(Taken(held, next)) = next .. next + k - 1
  <2>1. \A i \in 1 .. k : next + i - 1 \in next .. next + k - 1
    BY <1>1
  <2>2. \A n \in next .. next + k - 1 : n - next + 1 \in 1 .. k /\ next + (n - next + 1) - 1 = n
    BY <1>1
  <2> QED
    BY <1>2, <2>1, <2>2 DEF Range
<1> QED
  BY <1>1, <1>2, <1>3, <1>4

-----------------------------------------------------------------------------
(***************************************************************************)
(* Lines.                                                                  *)
(***************************************************************************)

\* The lines of a sequence of messages, place by place.
LEMMA LineAt ==
  ASSUME NEW a \in Seq(Messages), NEW b \in Seq(Messages)
  PROVE  /\ a \o b \in Seq(Messages)
         /\ DOMAIN (a \o b) = 1 .. Len(a) + Len(b)
         /\ \A k \in 1 .. Len(a) : (a \o b)[k] = a[k]
         /\ \A k \in 1 .. Len(b) : (a \o b)[Len(a) + k] = b[k]
PROOF
  OBVIOUS

LEMMA LinesType ==
  ASSUME TypeOK, NEW h \in Hosts
  PROVE  /\ output[h] \in Seq(Messages) /\ delivering[h] \in Seq(Messages)
         /\ Len(output[h]) \in Nat /\ DOMAIN output[h] = 1 .. Len(output[h])
         /\ Len(delivering[h]) \in Nat /\ DOMAIN delivering[h] = 1 .. Len(delivering[h])
         /\ Lines(h) \in Seq(Messages)
         /\ DOMAIN Lines(h) = 1 .. Len(output[h]) + Len(delivering[h])
         /\ \A k \in 1 .. Len(output[h]) : Lines(h)[k] = output[h][k]
         /\ \A k \in 1 .. Len(delivering[h]) : Lines(h)[Len(output[h]) + k] = delivering[h][k]
         /\ \A k \in DOMAIN Lines(h) : Lines(h)[k] \in Messages
PROOF
<1>1. output[h] \in Seq(Messages) /\ delivering[h] \in Seq(Messages)
  BY DEF TypeOK
<1>2. /\ Lines(h) \in Seq(Messages)
      /\ DOMAIN Lines(h) = 1 .. Len(output[h]) + Len(delivering[h])
      /\ \A k \in 1 .. Len(output[h]) : Lines(h)[k] = output[h][k]
      /\ \A k \in 1 .. Len(delivering[h]) : Lines(h)[Len(output[h]) + k] = delivering[h][k]
  BY <1>1, LineAt DEF Lines
<1>3. \A k \in DOMAIN Lines(h) : Lines(h)[k] \in Messages
  <2>1. \A sq \in Seq(Messages) : \A k \in DOMAIN sq : sq[k] \in Messages
    OBVIOUS
  <2> QED
    BY <1>2, <2>1
<1>4. /\ Len(output[h]) \in Nat /\ DOMAIN output[h] = 1 .. Len(output[h])
      /\ Len(delivering[h]) \in Nat /\ DOMAIN delivering[h] = 1 .. Len(delivering[h])
  BY <1>1
<1> QED
  BY <1>1, <1>2, <1>3, <1>4

\* A line is delivered by urb, and so has been broadcast.
LEMMA LineIsDelivered ==
  ASSUME IndInv, NEW h \in Hosts, NEW k \in DOMAIN Lines(h)
  PROVE  URB!Delivered(h, Lines(h)[k]) /\ Lines(h)[k] \in Handed
PROOF
<1> DEFINE bm == Lines(h)[k]
<1> USE DEF IndInv
<1>1. bm \in Messages
  BY LinesType
<1>2. bm.source \in Hosts /\ bm.seq_number \in 0 .. MessageCount[bm.source] - 1
      /\ bm = BroadcastMessage(bm.source, bm.seq_number)
  BY <1>1, MessageFields
<1>3. bm.seq_number < next_seq_nums[h][bm.source]
  BY DEF LinesInv
<1>4. next_seq_nums[h][bm.source] \in Nat /\ MessageCount[bm.source] \in Nat
  BY <1>2, FifoAssumption DEF TypeOK
<1>5. bm.seq_number \in 0 .. next_seq_nums[h][bm.source] - 1
  BY <1>2, <1>3, <1>4
<1> HIDE DEF bm
<1>6. URB!Delivered(h, bm)
  BY <1>2, <1>5 DEF HeldInv
<1>7. bm \in Handed
  BY <1>6 DEF URB!Delivered, HandedInv
<1> QED
  BY <1>6, <1>7 DEF bm

-----------------------------------------------------------------------------
LEMMA InitIndInv == Init => IndInv
PROOF
<1> SUFFICES ASSUME Init PROVE IndInv
  OBVIOUS
<1>1. TypeOK
  BY DEF Init, TypeOK
<1>2. HandedInv
  BY FifoAssumption DEF Init, HandedInv
<1>3. HeldInv
  BY DEF Init, HeldInv, URB!Delivered
<1>4. LinesInv
  <2>1. \A h \in Hosts : Lines(h) = <<>>
    BY DEF Init, Lines
  <2> QED
    BY <2>1 DEF Init, LinesInv
<1> QED
  BY <1>1, <1>2, <1>3, <1>4 DEF IndInv

(***************************************************************************)
(* Each action preserves the invariant.                                    *)
(***************************************************************************)
LEMMA FrbBroadcastStep ==
  ASSUME IndInv, NEW h \in Hosts, FrbBroadcast(h)
  PROVE  IndInv'
PROOF
<1> USE DEF IndInv
<1>1. /\ next_id[h] < MessageCount[h]
      /\ next_id' = [next_id EXCEPT ![h] = @ + 1]
      /\ UNCHANGED <<urbLog, messages, next_seq_nums, delivering, output, stopped>>
  BY DEF FrbBroadcast, buffer
<1>2. TypeOK'
  BY <1>1 DEF TypeOK
<1>3. HandedInv'
  <2>1. \A g \in Hosts : next_id[g] \in Nat /\ MessageCount[g] \in Nat
    BY FifoAssumption DEF TypeOK
  <2>2. \A g \in Hosts : next_id'[g] <= MessageCount[g]
    <3>1. \A g \in Hosts : next_id'[g] = IF g = h THEN next_id[h] + 1 ELSE next_id[g]
      BY <1>1 DEF TypeOK
    <3>2. \A g \in Hosts : next_id[g] <= MessageCount[g]
      BY DEF HandedInv
    <3> QED
      BY <1>1, <2>1, <3>1, <3>2
  <2>3. Handed \subseteq Handed'
    BY <1>1, HandedGrows
  <2> QED
    BY <1>1, <2>2, <2>3 DEF HandedInv
<1>4. HeldInv'
  BY <1>1 DEF HeldInv, URB!Delivered
<1>5. LinesInv'
  BY <1>1 DEF LinesInv, Lines
<1> QED
  BY <1>2, <1>3, <1>4, <1>5

LEMMA StopStep ==
  ASSUME IndInv, NEW h \in Hosts, Stop(h)
  PROVE  IndInv'
PROOF
<1> USE DEF IndInv
<1>1. UNCHANGED <<next_id, urbLog, messages, next_seq_nums, delivering, output>>
      /\ stopped' = stopped \cup {h}
  BY DEF Stop, buffer
<1>2. TypeOK' /\ HandedInv'
  BY <1>1 DEF TypeOK, HandedInv, Handed
<1>3. HeldInv'
  BY <1>1 DEF HeldInv, URB!Delivered
<1>4. LinesInv'
  BY <1>1 DEF LinesInv, Lines
<1> QED
  BY <1>2, <1>3, <1>4

LEMMA FrbDeliverStep ==
  ASSUME IndInv, NEW h \in Hosts, FrbDeliver(h)
  PROVE  IndInv'
PROOF
<1> USE DEF IndInv
<1>1. /\ delivering[h] # <<>>
      /\ output' = [output EXCEPT ![h] = Append(@, Head(delivering[h]))]
      /\ delivering' = [delivering EXCEPT ![h] = Tail(@)]
      /\ UNCHANGED <<next_id, urbLog, messages, next_seq_nums, stopped>>
  BY DEF FrbDeliver, buffer
<1>2. delivering[h] \in Seq(Messages) /\ output[h] \in Seq(Messages)
  BY LinesType
<1>3. Head(delivering[h]) \in Messages /\ Tail(delivering[h]) \in Seq(Messages)
  BY <1>1, <1>2
<1>4. TypeOK'
  <2>1. Append(output[h], Head(delivering[h])) \in Seq(Messages)
    BY <1>2, <1>3
  <2> QED
    BY <1>1, <1>3, <2>1 DEF TypeOK
<1>5. HandedInv'
  BY <1>1 DEF HandedInv, Handed
<1>6. HeldInv'
  BY <1>1 DEF HeldInv, URB!Delivered
<1>7. \A g \in Hosts : Lines(g)' = Lines(g)
  <2> SUFFICES ASSUME NEW g \in Hosts PROVE Lines(g)' = Lines(g)
    OBVIOUS
  <2>1. CASE g # h
    BY <1>1, <2>1 DEF TypeOK, Lines
  <2>2. CASE g = h
    <3>1. output'[h] = Append(output[h], Head(delivering[h]))
          /\ delivering'[h] = Tail(delivering[h])
      BY <1>1 DEF TypeOK
    <3>2. \A a, b \in Seq(Messages) : b # <<>> => Append(a, Head(b)) \o Tail(b) = a \o b
      OBVIOUS
    <3>3. Append(output[h], Head(delivering[h])) \o Tail(delivering[h])
            = output[h] \o delivering[h]
      BY <1>1, <1>2, <3>2
    <3> QED
      BY <2>2, <3>1, <3>3 DEF Lines
  <2> QED
    BY <2>1, <2>2
<1>8. LinesInv'
  BY <1>1, <1>7 DEF LinesInv
<1> QED
  BY <1>4, <1>5, <1>6, <1>8

\* What urbDeliver does, with the numbers it takes out of the buffer: next .. next + k - 1.
LEMMA UrbDeliverIs ==
  ASSUME IndInv, NEW h \in Hosts, NEW bm \in Handed, UrbDeliver(h, bm)
  PROVE  LET s == bm.source
             next == next_seq_nums[h][s]
             held == messages[h][s] \cup {bm.seq_number}
         IN  /\ bm \in Messages /\ s \in Hosts /\ next \in Nat /\ held \in SUBSET Nat
             /\ bm.seq_number \in 0 .. MessageCount[s] - 1
             /\ \A n \in held : n >= next
             /\ delivering[h] = <<>>
             /\ urbLog' = [urbLog EXCEPT ![h] = Append(@, bm)]
             /\ UNCHANGED <<next_id, output, stopped>>
             /\ \E k \in Nat :
                  /\ next .. next + k - 1 \subseteq held
                  /\ next + k \notin held
                  /\ messages' = [messages EXCEPT ![h][s] = held \ (next .. next + k - 1)]
                  /\ next_seq_nums' = [next_seq_nums EXCEPT ![h][s] = @ + k]
                  /\ delivering' = [delivering EXCEPT ![h] =
                       [i \in 1 .. k |-> BroadcastMessage(s, next + i - 1)]]
PROOF
<1> DEFINE s == bm.source
           next == next_seq_nums[h][s]
           held == messages[h][s] \cup {bm.seq_number}
           taken == Taken(held, next)
<1> USE DEF IndInv
<1>1. /\ delivering[h] = <<>>
      /\ UNCHANGED <<next_id, output>>
      /\ URB!Deliver(h, bm)
      /\ messages' = [messages EXCEPT ![h][s] = held \ Range(taken)]
      /\ next_seq_nums' = [next_seq_nums EXCEPT ![h][s] = @ + Len(taken)]
      /\ delivering' = [delivering EXCEPT ![h] =
           [i \in DOMAIN taken |-> BroadcastMessage(s, taken[i])]]
  BY DEF UrbDeliver
<1>2. /\ ~URB!Delivered(h, bm)
      /\ urbLog' = [urbLog EXCEPT ![h] = Append(@, bm)]
      /\ UNCHANGED stopped
  BY <1>1 DEF URB!Deliver
<1>3. /\ bm \in Messages /\ s \in Hosts /\ bm.seq_number \in 0 .. MessageCount[s] - 1
      /\ bm = BroadcastMessage(s, bm.seq_number)
  BY HandedAreMessages, MessageFields
<1>4. next \in Nat /\ messages[h][s] \in SUBSET Nat /\ MessageCount[s] \in Nat
  BY <1>3, FifoAssumption DEF TypeOK
<1>5. /\ \A n \in messages[h][s] : n > next
      /\ messages[h][s] \subseteq 0 .. MessageCount[s] - 1
      /\ bm.seq_number \notin 0 .. next - 1
  BY <1>2, <1>3 DEF HeldInv
<1>6. held \in SUBSET Nat /\ \A n \in held : n >= next /\ ~ (n < next)
  BY <1>3, <1>4, <1>5
<1>7. IsFiniteSet(held)
  <2>1. held \in SUBSET (0 .. MessageCount[s] - 1)
    BY <1>3, <1>5
  <2>2. IsFiniteSet(0 .. MessageCount[s] - 1)
    BY <1>4, FS_Interval
  <2> QED
    BY <2>1, <2>2, FS_Subset
<1> HIDE DEF next, held, s
<1>8. PICK k \in Nat :
        /\ taken = [i \in 1 .. k |-> next + i - 1]
        /\ Len(taken) = k
        /\ Range(taken) = next .. next + k - 1
        /\ next .. next + k - 1 \subseteq held
        /\ next + k \notin held
  BY <1>4, <1>6, <1>7, TakenIs
<1> HIDE DEF taken
<1>9. [i \in DOMAIN taken |-> BroadcastMessage(s, taken[i])] =
        [i \in 1 .. k |-> BroadcastMessage(s, next + i - 1)]
  BY <1>8
<1> QED
  BY <1>1, <1>2, <1>3, <1>4, <1>6, <1>8, <1>9 DEF s, next, held

LEMMA UrbDeliverStep ==
  ASSUME IndInv, NEW h \in Hosts, NEW bm \in Handed, UrbDeliver(h, bm)
  PROVE  IndInv'
PROOF
<1> DEFINE s == bm.source
           next == next_seq_nums[h][s]
           held == messages[h][s] \cup {bm.seq_number}
<1> USE DEF IndInv
<1>1. /\ bm \in Messages /\ s \in Hosts /\ next \in Nat /\ held \in SUBSET Nat
      /\ bm.seq_number \in 0 .. MessageCount[s] - 1
      /\ \A n \in held : n >= next
      /\ delivering[h] = <<>>
      /\ urbLog' = [urbLog EXCEPT ![h] = Append(@, bm)]
      /\ UNCHANGED <<next_id, output, stopped>>
  BY UrbDeliverIs
<1>2. PICK k \in Nat :
        /\ next .. next + k - 1 \subseteq held
        /\ next + k \notin held
        /\ messages' = [messages EXCEPT ![h][s] = held \ (next .. next + k - 1)]
        /\ next_seq_nums' = [next_seq_nums EXCEPT ![h][s] = @ + k]
        /\ delivering' = [delivering EXCEPT ![h] =
             [i \in 1 .. k |-> BroadcastMessage(s, next + i - 1)]]
  BY UrbDeliverIs
<1>3. bm = BroadcastMessage(s, bm.seq_number)
  BY <1>1, MessageFields
<1> DEFINE new == [i \in 1 .. k |-> BroadcastMessage(s, next + i - 1)]
<1>4. held \subseteq 0 .. MessageCount[s] - 1
  BY <1>1 DEF HeldInv
<1>5. \A i \in 1 .. k : next + i - 1 \in next .. next + k - 1
  BY <1>1
<1>6. new \in Seq(Messages) /\ Len(new) = k /\ DOMAIN new = 1 .. k
  <2>1. \A i \in 1 .. k : BroadcastMessage(s, next + i - 1) \in Messages
    BY <1>1, <1>2, <1>4, <1>5, MessagesMember
  <2> QED
    BY <2>1
<1> HIDE DEF held
<1>7. /\ messages'[h][s] = held \ (next .. next + k - 1)
      /\ next_seq_nums'[h][s] = next + k
      /\ \A g, t \in Hosts : g # h \/ t # s =>
           messages'[g][t] = messages[g][t] /\ next_seq_nums'[g][t] = next_seq_nums[g][t]
  BY <1>1, <1>2 DEF TypeOK
<1> HIDE DEF new
<1>8. delivering'[h] = new /\ \A g \in Hosts \ {h} : delivering'[g] = delivering[g]
  BY <1>2 DEF TypeOK, new
<1> HIDE DEF next
<1>9. TypeOK'
  <2>1. next_id' \in [Hosts -> Nat] /\ output' \in [Hosts -> Seq(Messages)] /\ stopped' \subseteq Hosts
    BY <1>1 DEF TypeOK
  <2>2. urbLog' \in [Hosts -> Seq(Messages)]
    BY <1>1 DEF TypeOK
  <2>3. messages' \in [Hosts -> [Hosts -> SUBSET Nat]]
    BY <1>1, <1>2 DEF TypeOK
  <2>4. next_seq_nums' \in [Hosts -> [Hosts -> Nat]]
    <3>1. next_seq_nums[h] \in [Hosts -> Nat] /\ s \in Hosts
      BY <1>1 DEF TypeOK
    <3>2. [next_seq_nums[h] EXCEPT ![s] = @ + k] \in [Hosts -> Nat]
      BY <3>1
    <3>3. next_seq_nums' = [next_seq_nums EXCEPT ![h] = [next_seq_nums[h] EXCEPT ![s] = @ + k]]
      BY <1>2
    <3> QED
      BY <3>2, <3>3 DEF TypeOK
  <2>5. delivering' \in [Hosts -> Seq(Messages)]
    BY <1>2, <1>6 DEF TypeOK, new
  <2> QED
    BY <2>1, <2>2, <2>3, <2>4, <2>5 DEF TypeOK
<1>10. HandedInv'
  <2>1. Handed' = Handed
    BY <1>1 DEF Handed
  <2> SUFFICES ASSUME NEW g \in Hosts, NEW j \in DOMAIN urbLog'[g] PROVE urbLog'[g][j] \in Handed
    BY <1>1, <2>1 DEF HandedInv
  <2>2. CASE g # h
    BY <1>1, <2>2 DEF TypeOK, HandedInv
  <2>3. CASE g = h
    <3>1. urbLog[h] \in Seq(Messages) /\ urbLog'[h] = Append(urbLog[h], bm)
      BY <1>1 DEF TypeOK
    <3>2. j \in 1 .. Len(urbLog[h]) + 1
      BY <2>3, <3>1
    <3> QED
      BY <2>3, <3>1, <3>2 DEF HandedInv
  <2> QED
    BY <2>2, <2>3
<1>11. \A g \in Hosts : \A m : URB!Delivered(g, m)' <=> URB!Delivered(g, m) \/ (g = h /\ m = bm)
  <2> SUFFICES ASSUME NEW g \in Hosts, NEW m
               PROVE  (\E j \in DOMAIN urbLog'[g] : urbLog'[g][j] = m)
                        <=> (\E j \in DOMAIN urbLog[g] : urbLog[g][j] = m) \/ (g = h /\ m = bm)
    BY DEF URB!Delivered
  <2>1. CASE g # h
    BY <1>1, <2>1 DEF TypeOK
  <2>2. CASE g = h
    <3>1. urbLog[h] \in Seq(Messages) /\ urbLog'[h] = Append(urbLog[h], bm)
      BY <1>1 DEF TypeOK
    <3>2. /\ DOMAIN urbLog[h] = 1 .. Len(urbLog[h]) /\ Len(urbLog[h]) \in Nat
          /\ DOMAIN urbLog'[h] = 1 .. Len(urbLog[h]) + 1
          /\ \A j \in 1 .. Len(urbLog[h]) : urbLog'[h][j] = urbLog[h][j]
          /\ urbLog'[h][Len(urbLog[h]) + 1] = bm
      BY <3>1
    <3>3. 1 .. Len(urbLog[h]) + 1 = (1 .. Len(urbLog[h])) \cup {Len(urbLog[h]) + 1}
      BY <3>2
    <3> QED
      BY <2>2, <3>2, <3>3
  <2> QED
    BY <2>1, <2>2
<1>12. HeldInv'
  <2> SUFFICES ASSUME NEW g \in Hosts, NEW t \in Hosts
               PROVE  /\ \A n \in messages'[g][t] : n > next_seq_nums'[g][t]
                      /\ {n \in 0 .. MessageCount[t] - 1 :
                             URB!Delivered(g, BroadcastMessage(t, n))'} =
                           (0 .. next_seq_nums'[g][t] - 1) \cup messages'[g][t]
    BY DEF HeldInv
  <2> DEFINE old == {n \in 0 .. MessageCount[t] - 1 : URB!Delivered(g, BroadcastMessage(t, n))}
  <2>1. /\ \A n \in messages[g][t] : n > next_seq_nums[g][t]
        /\ old = (0 .. next_seq_nums[g][t] - 1) \cup messages[g][t]
    BY DEF HeldInv
  <2>2. CASE g # h \/ t # s
    <3>1. \A n : URB!Delivered(g, BroadcastMessage(t, n))' <=>
                   URB!Delivered(g, BroadcastMessage(t, n))
      BY <1>3, <1>11, <2>2, MessageIsItsFields
    <3> QED
      BY <1>7, <2>1, <2>2, <3>1
  <2>3. CASE g = h /\ t = s
    <3>1. \A n : URB!Delivered(g, BroadcastMessage(t, n))' <=>
                   URB!Delivered(g, BroadcastMessage(t, n)) \/ n = bm.seq_number
      BY <1>3, <1>11, <2>3, MessageIsItsFields
    <3> DEFINE now == {n \in 0 .. MessageCount[t] - 1 :
                         URB!Delivered(g, BroadcastMessage(t, n))'}
    <3>2. now = old \cup {bm.seq_number}
      BY <1>1, <2>3, <3>1
    <3> HIDE DEF old
    <3>3. old \cup {bm.seq_number} = (0 .. next - 1) \cup held
      BY <2>1, <2>3 DEF held, next
    <3>4. (0 .. next + k - 1) = (0 .. next - 1) \cup (next .. next + k - 1)
      BY <1>1
    <3>5. (0 .. next - 1) \cup held = (0 .. next + k - 1) \cup (held \ (next .. next + k - 1))
      BY <1>2, <3>4
    <3>6. \A n \in held \ (next .. next + k - 1) : n > next + k
      <4> SUFFICES ASSUME NEW n \in held, n \notin next .. next + k - 1 PROVE n > next + k
        OBVIOUS
      <4>1. n \in Nat /\ n >= next /\ n # next + k
        BY <1>1, <1>2
      <4> QED
        BY <1>1, <4>1
    <3>7. messages'[g][t] = held \ (next .. next + k - 1) /\ next_seq_nums'[g][t] = next + k
      BY <1>7, <2>3
    <3>8. \A n \in messages'[g][t] : n > next_seq_nums'[g][t]
      BY <3>6, <3>7
    <3> HIDE DEF now
    <3>9. now = (0 .. next_seq_nums'[g][t] - 1) \cup messages'[g][t]
      <4>1. now = (0 .. next - 1) \cup held
        BY <3>2, <3>3
      <4>2. now = (0 .. next + k - 1) \cup (held \ (next .. next + k - 1))
        BY <3>5, <4>1
      <4>3. next_seq_nums'[g][t] - 1 = next + k - 1
        BY <1>1, <3>7
      <4> QED
        BY <3>7, <4>2, <4>3
    <3> QED
      BY <3>8, <3>9 DEF now
  <2> QED
    BY <2>2, <2>3
<1> DEFINE L == Len(output[h])
<1>13. /\ L \in Nat
       /\ DOMAIN Lines(h) = 1 .. L
       /\ DOMAIN Lines(h)' = 1 .. L + k
       /\ \A j \in 1 .. L : Lines(h)'[j] = Lines(h)[j] /\ Lines(h)[j] \in Messages
       /\ \A i \in 1 .. k : Lines(h)'[L + i] = BroadcastMessage(s, next + i - 1)
  <2>1. output[h] \in Seq(Messages) /\ Lines(h) = output[h] \o <<>>
    BY <1>1 DEF TypeOK, Lines
  <2>2. output[h] \o <<>> = output[h]
    BY <2>1
  <2>3. Lines(h)' = output[h] \o new
    BY <1>1, <1>8 DEF Lines
  <2>4. /\ DOMAIN (output[h] \o new) = 1 .. L + k
        /\ \A j \in 1 .. L : (output[h] \o new)[j] = output[h][j]
        /\ \A i \in 1 .. k : (output[h] \o new)[L + i] = new[i]
    BY <1>6, <2>1, LineAt
  <2>5. \A i \in 1 .. k : new[i] = BroadcastMessage(s, next + i - 1)
    BY DEF new
  <2>6. L \in Nat /\ DOMAIN output[h] = 1 .. L /\ \A j \in 1 .. L : output[h][j] \in Messages
    BY <2>1
  <2> QED
    BY <2>1, <2>2, <2>3, <2>4, <2>5, <2>6
<1>14. \A j \in 1 .. L + k : j \in 1 .. L \/ \E i \in 1 .. k : j = L + i
  <2> SUFFICES ASSUME NEW j \in 1 .. L + k, j \notin 1 .. L PROVE \E i \in 1 .. k : j = L + i
    OBVIOUS
  <2>1. j - L \in 1 .. k /\ j = L + (j - L)
    BY <1>13
  <2> QED
    BY <2>1
<1> HIDE DEF L
\* What the old lines satisfy, in terms of the old numbers.
<1>15. /\ \A j \in 1 .. L : /\ Lines(h)[j].source \in Hosts /\ Lines(h)[j].seq_number \in Nat
                            /\ Lines(h)[j].seq_number < next_seq_nums[h][Lines(h)[j].source]
       /\ \A t \in Hosts : next_seq_nums[h][t] \in Nat /\ next_seq_nums'[h][t] \in Nat
                           /\ next_seq_nums[h][t] <= next_seq_nums'[h][t]
  <2>1. \A j \in 1 .. L : Lines(h)[j].source \in Hosts /\ Lines(h)[j].seq_number \in Nat
    BY <1>13, MessageFields
  <2>2. \A t \in Hosts : next_seq_nums[h][t] \in Nat /\ next_seq_nums'[h][t] \in Nat
    BY <1>9 DEF TypeOK
  <2>3. \A t \in Hosts : next_seq_nums[h][t] <= next_seq_nums'[h][t]
    BY <1>7, <2>2 DEF next
  <2> QED
    BY <1>13, <2>1, <2>2, <2>3 DEF LinesInv
<1>16. \A i \in 1 .. k : /\ Lines(h)'[L + i].source = s
                         /\ Lines(h)'[L + i].seq_number = next + i - 1
  BY <1>13, MessageIsItsFields
<1>17. LinesInv'
  <2> SUFFICES ASSUME NEW g \in Hosts
               PROVE  /\ \A j \in DOMAIN Lines(g)' :
                           Lines(g)'[j].seq_number < next_seq_nums'[g][Lines(g)'[j].source]
                      /\ \A t \in Hosts : \A n \in 0 .. next_seq_nums'[g][t] - 1 :
                           \E j \in DOMAIN Lines(g)' : Lines(g)'[j] = BroadcastMessage(t, n)
                      /\ \A j \in DOMAIN Lines(g)' : \A i \in 1 .. j - 1 :
                           Lines(g)'[i].source = Lines(g)'[j].source =>
                             Lines(g)'[i].seq_number < Lines(g)'[j].seq_number
    BY DEF LinesInv
  <2>1. CASE g # h
    <3>1. Lines(g)' = Lines(g)
      BY <1>1, <1>8, <2>1 DEF Lines
    <3>2. \A j \in DOMAIN Lines(g) : Lines(g)[j].source \in Hosts
      BY LinesType, MessageFields
    <3>3. \A t \in Hosts : next_seq_nums'[g][t] = next_seq_nums[g][t]
      BY <1>7, <2>1
    <3>4. \A j \in DOMAIN Lines(g)' :
            Lines(g)'[j].seq_number < next_seq_nums'[g][Lines(g)'[j].source]
      BY <3>1, <3>2, <3>3 DEF LinesInv
    <3>5. \A t \in Hosts : \A n \in 0 .. next_seq_nums'[g][t] - 1 :
            \E j \in DOMAIN Lines(g)' : Lines(g)'[j] = BroadcastMessage(t, n)
      BY <3>1, <3>3 DEF LinesInv
    <3>6. \A j \in DOMAIN Lines(g)' : \A i \in 1 .. j - 1 :
            Lines(g)'[i].source = Lines(g)'[j].source =>
              Lines(g)'[i].seq_number < Lines(g)'[j].seq_number
      BY <3>1 DEF LinesInv
    <3> QED
      BY <3>4, <3>5, <3>6
  <2>2. CASE g = h
    <3>1. \A j \in DOMAIN Lines(h)' :
            Lines(h)'[j].seq_number < next_seq_nums'[h][Lines(h)'[j].source]
      <4> SUFFICES ASSUME NEW j \in 1 .. L + k
                   PROVE  Lines(h)'[j].seq_number < next_seq_nums'[h][Lines(h)'[j].source]
        BY <1>13
      <4>1. ASSUME j \in 1 .. L
            PROVE  Lines(h)'[j].seq_number < next_seq_nums'[h][Lines(h)'[j].source]
        <5>1. Lines(h)'[j] = Lines(h)[j]
          BY <1>13, <4>1
        <5> DEFINE t == Lines(h)[j].source
                   n == Lines(h)[j].seq_number
        <5>2. t \in Hosts /\ n \in Nat /\ n < next_seq_nums[h][t]
          BY <1>15, <4>1
        <5>3. /\ next_seq_nums[h][t] \in Nat /\ next_seq_nums'[h][t] \in Nat
              /\ next_seq_nums[h][t] <= next_seq_nums'[h][t]
          BY <1>15, <5>2
        <5> HIDE DEF t, n
        <5>4. n < next_seq_nums'[h][t]
          BY <5>2, <5>3
        <5> QED
          BY <5>1, <5>4 DEF t, n
      <4>2. ASSUME NEW i \in 1 .. k, j = L + i
            PROVE  Lines(h)'[j].seq_number < next_seq_nums'[h][Lines(h)'[j].source]
        <5>1. Lines(h)'[j].seq_number = next + i - 1 /\ Lines(h)'[j].source = s
          BY <1>16, <4>2
        <5>2. next_seq_nums'[h][s] = next + k
          BY <1>7
        <5> QED
          BY <1>1, <5>1, <5>2
      <4> QED
        BY <1>14, <4>1, <4>2
    <3>2. \A t \in Hosts : \A n \in 0 .. next_seq_nums'[h][t] - 1 :
            \E j \in DOMAIN Lines(h)' : Lines(h)'[j] = BroadcastMessage(t, n)
      <4> SUFFICES ASSUME NEW t \in Hosts, NEW n \in 0 .. next_seq_nums'[h][t] - 1
                   PROVE  \E j \in 1 .. L + k : Lines(h)'[j] = BroadcastMessage(t, n)
        BY <1>13
      <4>1. CASE n \in 0 .. next_seq_nums[h][t] - 1
        <5>1. \E j \in DOMAIN Lines(h) : Lines(h)[j] = BroadcastMessage(t, n)
          BY <4>1 DEF LinesInv
        <5>2. PICK j \in 1 .. L : Lines(h)[j] = BroadcastMessage(t, n)
          BY <1>13, <5>1
        <5>3. j \in 1 .. L + k
          BY <1>1, <1>13
        <5>4. Lines(h)'[j] = Lines(h)[j]
          BY <1>13
        <5> QED
          BY <5>2, <5>3, <5>4
      <4>2. CASE n \notin 0 .. next_seq_nums[h][t] - 1
        <5>1. next_seq_nums'[h][t] = IF t = s THEN next + k ELSE next_seq_nums[h][t]
          BY <1>7
        <5>2. next_seq_nums[h][t] \in Nat
          BY <1>15
        <5>3. n \in 0 .. next_seq_nums'[h][t] - 1
          OBVIOUS
        <5>4. t = s
          BY <4>2, <5>1, <5>3
        <5>5. next_seq_nums[h][t] = next /\ next \in Nat
          BY <5>2, <5>4 DEF next
        <5>6. t = s /\ n >= next /\ n < next + k
          BY <1>1, <4>2, <5>1, <5>3, <5>4, <5>5
        <5>7. n - next + 1 \in 1 .. k /\ next + (n - next + 1) - 1 = n
          BY <1>1, <5>6
        <5>8. L + (n - next + 1) \in 1 .. L + k
          BY <1>13, <5>7
        <5>9. Lines(h)'[L + (n - next + 1)] = BroadcastMessage(t, n)
          BY <1>13, <5>6, <5>7
        <5> QED
          BY <5>8, <5>9
      <4> QED
        BY <4>1, <4>2
    <3>3. \A j \in DOMAIN Lines(h)' : \A i \in 1 .. j - 1 :
            Lines(h)'[i].source = Lines(h)'[j].source =>
              Lines(h)'[i].seq_number < Lines(h)'[j].seq_number
      <4> SUFFICES ASSUME NEW j \in 1 .. L + k, NEW i \in 1 .. j - 1,
                          Lines(h)'[i].source = Lines(h)'[j].source
                   PROVE  Lines(h)'[i].seq_number < Lines(h)'[j].seq_number
        BY <1>13
      <4>1. L \in Nat /\ i \in 1 .. L + k /\ i < j
        BY <1>13
      <4>2. CASE j \in 1 .. L
        <5>1. i \in 1 .. L
          BY <4>1, <4>2
        <5>2. Lines(h)'[i] = Lines(h)[i] /\ Lines(h)'[j] = Lines(h)[j]
          BY <1>13, <4>2, <5>1
        <5>3. j \in DOMAIN Lines(h) /\ i \in 1 .. j - 1
          BY <1>13, <4>2
        <5>4. Lines(h)[i].source = Lines(h)[j].source
          BY <5>2
        <5>5. Lines(h)[i].seq_number < Lines(h)[j].seq_number
          BY <5>3, <5>4 DEF LinesInv
        <5> QED
          BY <5>2, <5>5
      <4>3. ASSUME NEW b \in 1 .. k, j = L + b, i \in 1 .. L
            PROVE  Lines(h)'[i].seq_number < Lines(h)'[j].seq_number
        <5>1. Lines(h)'[j].source = s /\ Lines(h)'[j].seq_number = next + b - 1
          BY <1>16, <4>3
        <5>2. Lines(h)'[i] = Lines(h)[i]
          BY <1>13, <4>3
        <5>3. Lines(h)[i].source = s
          BY <5>1, <5>2
        <5>4. Lines(h)[i].seq_number \in Nat /\ Lines(h)[i].seq_number < next_seq_nums[h][s]
          BY <1>15, <4>3, <5>3
        <5> QED
          BY <1>1, <5>1, <5>2, <5>4 DEF next
      <4>4. ASSUME NEW a \in 1 .. k, NEW b \in 1 .. k, i = L + a, j = L + b
            PROVE  Lines(h)'[i].seq_number < Lines(h)'[j].seq_number
        <5>1. a < b
          BY <4>1, <4>4
        <5> QED
          BY <1>1, <1>16, <4>4, <5>1
      <4> QED
        BY <1>14, <4>1, <4>2, <4>3, <4>4
    <3> QED
      BY <2>2, <3>1, <3>2, <3>3
  <2> QED
    BY <2>1, <2>2
<1> QED
  BY <1>9, <1>10, <1>12, <1>17

LEMMA StepIndInv == IndInv /\ [Next]_vars => IndInv'
PROOF
<1> SUFFICES ASSUME IndInv, [Next]_vars PROVE IndInv'
  OBVIOUS
<1>1. CASE UNCHANGED vars
  <2>1. UNCHANGED <<next_id, urbLog, messages, next_seq_nums, delivering, output, stopped>>
    BY <1>1 DEF vars, buffer
  <2>2. TypeOK' /\ HandedInv'
    BY <2>1 DEF IndInv, TypeOK, HandedInv, Handed
  <2>3. HeldInv'
    BY <2>1 DEF IndInv, HeldInv, URB!Delivered
  <2>4. LinesInv'
    BY <2>1 DEF IndInv, LinesInv, Lines
  <2> QED
    BY <2>2, <2>3, <2>4 DEF IndInv
<1> QED
  BY <1>1, FrbBroadcastStep, FrbDeliverStep, StopStep, UrbDeliverStep DEF Next

-----------------------------------------------------------------------------
\* The inductive invariant, from which the theorems about states follow.
THEOREM IndInvHolds == Spec => []IndInv
PROOF
  BY InitIndInv, StepIndInv, PTL DEF Spec

\* Type correctness.
THEOREM TypeCorrect == Spec => []TypeOK
PROOF
<1>1. IndInv => TypeOK
  BY DEF IndInv
<1> QED
  BY <1>1, IndInvHolds, PTL

(***************************************************************************)
(* The n-th line about a source is its message n: the lines about it that  *)
(* come before are, one for one, its messages 0 to n - 1.                  *)
(***************************************************************************)
LEMMA LinesInOrder == IndInv => FifoOrder
PROOF
<1> SUFFICES ASSUME IndInv, NEW h \in Hosts, NEW k \in DOMAIN output[h]
             PROVE  output[h][k].seq_number =
                      Cardinality({j \in 1 .. k - 1 : output[h][j].source = output[h][k].source})
  BY DEF FifoOrder
<1> USE DEF IndInv
<1> DEFINE s == output[h][k].source
           n == output[h][k].seq_number
           earlier == {j \in 1 .. k - 1 : output[h][j].source = s}
           L == Len(output[h])
           D == Len(delivering[h])
<1>1. /\ L \in Nat /\ DOMAIN output[h] = 1 .. L /\ k \in 1 .. L
      /\ \A j \in 1 .. L : output[h][j] \in Messages /\ Lines(h)[j] = output[h][j]
      /\ D \in Nat
      /\ DOMAIN Lines(h) = 1 .. L + D
  <2>1. /\ L \in Nat /\ DOMAIN output[h] = 1 .. L /\ D \in Nat
        /\ \A j \in 1 .. L : Lines(h)[j] = output[h][j]
        /\ \A j \in DOMAIN Lines(h) : Lines(h)[j] \in Messages
        /\ DOMAIN Lines(h) = 1 .. L + D
    BY LinesType
  <2> HIDE DEF L, D
  <2>2. \A j \in 1 .. L : j \in DOMAIN Lines(h)
    BY <2>1
  <2> QED
    BY <2>1, <2>2
<1> HIDE DEF L, D
<1>2. \A j \in 1 .. L : j \in DOMAIN Lines(h)
  BY <1>1
<1>3. \A j \in 1 .. L : output[h][j].source \in Hosts /\ output[h][j].seq_number \in Nat
  BY <1>1, MessageFields
<1>4. s \in Hosts /\ n \in Nat /\ next_seq_nums[h][s] \in Nat /\ n < next_seq_nums[h][s]
  <2>1. s \in Hosts /\ n \in Nat
    BY <1>1, <1>3
  <2>2. next_seq_nums[h][s] \in Nat
    BY <2>1 DEF TypeOK
  <2>3. \A j \in DOMAIN Lines(h) : Lines(h)[j].seq_number < next_seq_nums[h][Lines(h)[j].source]
    BY DEF LinesInv
  <2>4. k \in DOMAIN Lines(h) /\ Lines(h)[k].source = s /\ Lines(h)[k].seq_number = n
    BY <1>1, <1>2
  <2> QED
    BY <2>1, <2>2, <2>3, <2>4
<1>5. \A i, j \in 1 .. L : i < j /\ output[h][i].source = output[h][j].source =>
        output[h][i].seq_number < output[h][j].seq_number
  <2>1. \A j \in DOMAIN Lines(h) : \A i \in 1 .. j - 1 :
          Lines(h)[i].source = Lines(h)[j].source => Lines(h)[i].seq_number < Lines(h)[j].seq_number
    BY DEF LinesInv
  <2>2. \A i, j \in 1 .. L : i < j => i \in 1 .. j - 1
    BY <1>1
  <2> QED
    BY <1>1, <1>2, <2>1, <2>2
<1> DEFINE seq == [j \in earlier |-> output[h][j].seq_number]
<1>6. seq \in [earlier -> 0 .. n - 1]
  <2> SUFFICES ASSUME NEW j \in earlier PROVE output[h][j].seq_number \in 0 .. n - 1
    OBVIOUS
  <2>1. j \in 1 .. L /\ j < k /\ output[h][j].source = s
    BY <1>1
  <2>2. output[h][j].seq_number < n /\ output[h][j].seq_number \in Nat
    BY <1>1, <1>3, <1>5, <2>1
  <2> QED
    BY <1>4, <2>2
<1>7. \A i, j \in earlier : seq[i] = seq[j] => i = j
  <2> SUFFICES ASSUME NEW i \in earlier, NEW j \in earlier, i < j PROVE seq[i] # seq[j]
    BY <1>1
  <2>1. i \in 1 .. L /\ j \in 1 .. L /\ output[h][i].source = output[h][j].source
    BY <1>1
  <2>2. output[h][i].seq_number < output[h][j].seq_number
    BY <1>5, <2>1
  <2>3. output[h][i].seq_number \in Nat /\ output[h][j].seq_number \in Nat
    BY <1>3, <2>1
  <2> QED
    BY <2>2, <2>3
<1>8. \A m \in 0 .. n - 1 : \E j \in earlier : seq[j] = m
  <2> SUFFICES ASSUME NEW m \in 0 .. n - 1 PROVE \E j \in earlier : seq[j] = m
    OBVIOUS
  <2>1. m \in 0 .. next_seq_nums[h][s] - 1 /\ m < n
    BY <1>4
  <2>2. PICK j \in DOMAIN Lines(h) : Lines(h)[j] = BroadcastMessage(s, m)
    BY <1>4, <2>1 DEF LinesInv
  <2>3. Lines(h)[j].source = s /\ Lines(h)[j].seq_number = m
    BY <2>2, MessageIsItsFields
  <2>4. j \in Nat /\ j # 0 /\ ~ (k < j) /\ j # k
    <3>1. k < j => n < m
      BY <1>1, <2>2, <2>3 DEF LinesInv
    <3> QED
      BY <1>1, <1>4, <2>1, <2>3, <3>1
  <2>5. j \in 1 .. k - 1
    BY <1>1, <2>4
  <2>6. j \in 1 .. L
    BY <1>1, <2>5
  <2>7. j \in earlier
    BY <1>1, <2>3, <2>5, <2>6
  <2> QED
    BY <1>1, <2>3, <2>6, <2>7
<1> HIDE DEF seq
<1>9. ExistsBijection(earlier, 0 .. n - 1)
  <2>1. seq \in Bijection(earlier, 0 .. n - 1)
    BY <1>6, <1>7, <1>8 DEF Bijection, Injection, Surjection, IsInjective
  <2> QED
    BY <2>1 DEF ExistsBijection
<1>10. IsFiniteSet(earlier)
  <2>1. earlier \in SUBSET (1 .. k - 1) /\ k - 1 \in Int /\ 1 \in Int
    BY <1>1
  <2>2. IsFiniteSet(1 .. k - 1)
    BY <2>1, FS_Interval
  <2> QED
    BY <2>1, <2>2, FS_Subset
<1>11. Cardinality(earlier) = Cardinality(0 .. n - 1)
  BY <1>9, <1>10, FS_Bijection
<1>12. Cardinality(0 .. n - 1) = n
  <2>1. n - 1 \in Int /\ 0 \in Int /\ n \in Nat
    BY <1>4
  <2>2. Cardinality(0 .. n - 1) = IF 0 > n - 1 THEN 0 ELSE (n - 1) - 0 + 1
    BY <2>1, FS_Interval
  <2> HIDE DEF n
  <2> QED
    BY <2>1, <2>2
<1> QED
  BY <1>11, <1>12

\* FRB5: what is written of a source counts up from its first message, without a gap.
THEOREM FifoOrderHolds == Spec => []FifoOrder
PROOF
  BY LinesInOrder, IndInvHolds, PTL

\* If all messages up to n have been delivered by urb, the next number is above n.
LEMMA NoneWithheld == IndInv => NothingWithheld
PROOF
<1> SUFFICES ASSUME IndInv, NEW h \in Hosts, NEW s \in Hosts, NEW n \in 0 .. next_id[s] - 1,
                    \A i \in 0 .. n : URB!Delivered(h, BroadcastMessage(s, i))
             PROVE  BroadcastMessage(s, n) \in Range(output[h]) \cup Range(delivering[h])
  BY DEF NothingWithheld
<1> USE DEF IndInv
<1> DEFINE next == next_seq_nums[h][s]
<1>1. next \in Nat /\ MessageCount[s] \in Nat /\ next_id[s] \in Nat /\ next_id[s] <= MessageCount[s]
  BY FifoAssumption DEF TypeOK, HandedInv
<1>2. n < next
  <2> SUFFICES ASSUME next <= n PROVE FALSE
    BY <1>1
  <2>1. next \in 0 .. n /\ next \in 0 .. MessageCount[s] - 1
    BY <1>1
  <2>2. next \in (0 .. next - 1) \cup messages[h][s]
    BY <2>1 DEF HeldInv
  <2>3. next \in messages[h][s]
    BY <1>1, <2>2
  <2>4. next > next
    BY <2>3 DEF HeldInv
  <2> QED
    BY <1>1, <2>4
<1>3. n \in 0 .. next - 1
  BY <1>1, <1>2
<1>4. PICK k \in DOMAIN Lines(h) : Lines(h)[k] = BroadcastMessage(s, n)
  BY <1>3 DEF LinesInv
<1> DEFINE L == Len(output[h])
           D == Len(delivering[h])
<1>5. /\ L \in Nat /\ D \in Nat /\ k \in 1 .. L + D
      /\ DOMAIN output[h] = 1 .. L /\ DOMAIN delivering[h] = 1 .. D
      /\ \A j \in 1 .. L : Lines(h)[j] = output[h][j]
      /\ \A j \in 1 .. D : Lines(h)[L + j] = delivering[h][j]
  BY LinesType
<1> HIDE DEF L, D
<1>6. CASE k \in 1 .. L
  BY <1>4, <1>5, <1>6 DEF Range
<1>7. CASE k \notin 1 .. L
  <2>1. k - L \in 1 .. D /\ L + (k - L) = k
    BY <1>5, <1>7
  <2>2. delivering[h][k - L] = BroadcastMessage(s, n)
    BY <1>4, <1>5, <2>1
  <2> QED
    BY <1>5, <2>1, <2>2 DEF Range
<1> QED
  BY <1>6, <1>7

\* The buffer holds nothing back without need.
THEOREM NothingWithheldHolds == Spec => []NothingWithheld
PROOF
  BY NoneWithheld, IndInvHolds, PTL

\* A line at g is a line at h, if urb has delivered the same to both: all below it was
\* delivered at g, hence at h, where nothing is held back without need.
LEMMA LineThere ==
  ASSUME IndInv, NEW g \in Hosts, NEW h \in Hosts,
         delivering[g] = <<>>, delivering[h] = <<>>, Range(urbLog[g]) = Range(urbLog[h])
  PROVE  Range(output[g]) \subseteq Range(output[h])
PROOF
<1> SUFFICES ASSUME NEW k \in DOMAIN output[g] PROVE output[g][k] \in Range(output[h])
  BY DEF Range
<1> USE DEF IndInv
<1> DEFINE bm == output[g][k]
           s == bm.source
           n == bm.seq_number
           next == next_seq_nums[g][s]
<1>1. output[g] \in Seq(Messages)
  BY DEF TypeOK
<1>2. bm \in Messages
  BY <1>1
<1>3. s \in Hosts /\ n \in 0 .. MessageCount[s] - 1 /\ bm = BroadcastMessage(s, n)
  BY <1>2, MessageFields
<1>4. /\ next \in Nat /\ next_id[s] \in Nat /\ MessageCount[s] \in Nat
      /\ next_id[s] <= MessageCount[s]
  BY <1>3, FifoAssumption DEF TypeOK, HandedInv
<1>5. Lines(g) = output[g]
  BY <1>1 DEF Lines
<1>6. n < next
  BY <1>5 DEF LinesInv
<1> HIDE DEF bm, s, n, next
\* What is below the next number has been delivered at g.
<1>7. ASSUME NEW i \in 0 .. n PROVE URB!Delivered(g, BroadcastMessage(s, i))
  <2>1. i \in 0 .. next - 1
    BY <1>3, <1>4, <1>6
  <2> QED
    BY <1>3, <2>1 DEF HeldInv, next
<1>8. \A i \in 0 .. n : URB!Delivered(h, BroadcastMessage(s, i))
  BY <1>7 DEF URB!Delivered, Range
\* It has been broadcast.
<1>9. n \in 0 .. next_id[s] - 1
  <2>1. URB!Delivered(h, BroadcastMessage(s, n))
    BY <1>3, <1>8
  <2>2. BroadcastMessage(s, n) \in Handed
    BY <2>1 DEF URB!Delivered, HandedInv
  <2> QED
    BY <2>2, HandedMember, MessageIsItsFields
<1>10. bm \in Range(output[h]) \cup Range(delivering[h])
  BY <1>3, <1>8, <1>9, NoneWithheld DEF NothingWithheld
<1>11. Range(delivering[h]) = {}
  BY DEF Range
<1> QED
  BY <1>10, <1>11 DEF bm

\* Hosts to which urb has delivered the same, and that are done writing, have the same lines.
THEOREM LinesAgreeHolds == Spec => []LinesAgree
PROOF
<1>1. IndInv => LinesAgree
  <2> SUFFICES ASSUME IndInv, NEW g \in Hosts, NEW h \in Hosts,
                      delivering[g] = <<>>, delivering[h] = <<>>,
                      Range(urbLog[g]) = Range(urbLog[h])
               PROVE  Range(output[g]) = Range(output[h])
    BY DEF LinesAgree
  <2> QED
    BY LineThere
<1> QED
  BY <1>1, IndInvHolds, PTL

-----------------------------------------------------------------------------
(***************************************************************************)
(* The refinement.                                                         *)
(***************************************************************************)
LEMMA InitUniform == Init => FRB!Init
PROOF
<1> SUFFICES ASSUME Init PROVE FRB!Init
  OBVIOUS
<1>1. Handed = {}
  <2>1. \A h \in Hosts : 0 .. next_id[h] - 1 = {}
    BY DEF Init
  <2> QED
    BY <2>1, HandedMember
<1> QED
  BY <1>1 DEF Init, FRB!Init

LEMMA StepUniform == IndInv /\ [Next]_vars => [FRB!Next]_(FRB!vars)
PROOF
<1> SUFFICES ASSUME IndInv, [Next]_vars PROVE FRB!Next \/ UNCHANGED FRB!vars
  OBVIOUS
<1> USE DEF IndInv, FRB!vars
<1>1. ASSUME NEW h \in Hosts, FrbBroadcast(h) PROVE FRB!Next
  <2> DEFINE new == BroadcastMessage(h, next_id[h])
  <2>1. /\ h \notin stopped
        /\ next_id[h] < MessageCount[h]
        /\ next_id' = [next_id EXCEPT ![h] = @ + 1]
        /\ UNCHANGED <<output, stopped>>
    BY <1>1 DEF FrbBroadcast
  <2>2. next_id[h] \in 0 .. MessageCount[h] - 1
    <3>1. next_id[h] \in Nat /\ MessageCount[h] \in Nat
      BY FifoAssumption DEF TypeOK
    <3> QED
      BY <2>1, <3>1
  <2>3. new \in Messages /\ new.source = h
    BY <2>2, MessagesMember, MessageIsItsFields
  <2>4. new \notin Handed
    BY <2>2, HandedMember, MessageIsItsFields
  <2>5. Handed' = Handed \cup {new}
    BY <2>1, HandedGrows
  <2> HIDE DEF new
  <2>6. FRB!Broadcast(new)
    BY <2>1, <2>3, <2>4, <2>5 DEF FRB!Broadcast
  <2> QED
    BY <2>3, <2>6 DEF FRB!Next
<1>2. ASSUME NEW h \in Hosts, Stop(h) PROVE FRB!Next
  <2>1. FRB!Stop(h)
    BY <1>2 DEF Stop, FRB!Stop, Handed
  <2> QED
    BY <2>1 DEF FRB!Next
<1>3. ASSUME NEW h \in Hosts, NEW bm \in Handed, UrbDeliver(h, bm) PROVE UNCHANGED FRB!vars
  BY <1>3 DEF UrbDeliver, URB!Deliver, Handed
<1>4. ASSUME NEW h \in Hosts, FrbDeliver(h) PROVE FRB!Next
  <2> DEFINE bm == Head(delivering[h])
             L == Len(output[h])
             D == Len(delivering[h])
  <2>1. /\ h \notin stopped /\ delivering[h] # <<>>
        /\ output' = [output EXCEPT ![h] = Append(@, bm)]
        /\ UNCHANGED <<next_id, stopped>>
    BY <1>4 DEF FrbDeliver
  <2>2. /\ L \in Nat /\ D \in Nat
        /\ DOMAIN output[h] = 1 .. L
        /\ DOMAIN Lines(h) = 1 .. L + D
        /\ \A j \in 1 .. L : Lines(h)[j] = output[h][j]
        /\ \A j \in 1 .. D : Lines(h)[L + j] = delivering[h][j]
        /\ delivering[h] \in Seq(Messages)
    BY LinesType
  <2>3. 1 \in 1 .. D /\ bm = delivering[h][1]
    BY <2>1, <2>2
  <2> HIDE DEF L, D
  <2>4. L + 1 \in DOMAIN Lines(h) /\ Lines(h)[L + 1] = bm
    BY <2>2, <2>3
  <2>5. bm \in Handed
    BY <2>4, LineIsDelivered
  <2>6. bm \in Messages
    BY <2>5, HandedAreMessages
  <2>7. ~FRB!Delivered(h, bm)
    <3> SUFFICES ASSUME NEW j \in DOMAIN output[h], output[h][j] = bm PROVE FALSE
      BY DEF FRB!Delivered
    <3>1. j \in 1 .. (L + 1) - 1 /\ Lines(h)[j] = bm
      BY <2>2
    <3>2. bm.seq_number < bm.seq_number
      BY <2>4, <3>1 DEF LinesInv
    <3>3. bm.seq_number \in Int
      BY <2>6, MessageFields
    <3> QED
      BY <3>2, <3>3
  <2> HIDE DEF bm
  <2>8. FRB!Deliver(h, bm)
    BY <2>1, <2>5, <2>7 DEF FRB!Deliver, Handed
  <2> QED
    BY <2>6, <2>8 DEF FRB!Next
<1>5. CASE UNCHANGED vars
  BY <1>5 DEF vars, Handed
<1> QED
  BY <1>1, <1>2, <1>3, <1>4, <1>5 DEF Next

(***************************************************************************)
(* FRB2 and FRB3: the lines written are, step by step, the deliveries of a *)
(* UniformBroadcast.                                                       *)
(***************************************************************************)
THEOREM ImplementsUniformBroadcast == Spec => FRB!SafeSpec
PROOF
  BY InitUniform, StepUniform, IndInvHolds, PTL DEF Spec, FRB!SafeSpec
=============================================================================
