----------------------------- MODULE WireProofs -----------------------------
(***************************************************************************)
(* Every message is read as it was written, for payloads of any length and *)
(* whatever the receive buffer held before.                                *)
(***************************************************************************)
EXTENDS Wire, TLAPS

(***************************************************************************)
(* What is copied from behind a header is what was put there, up to the    *)
(* length that is given, whether anything follows or not.                  *)
(***************************************************************************)
LEMMA CopiedLast ==
  ASSUME NEW S, NEW header \in Seq(S), NEW payload \in Seq(S)
  PROVE  Copied(header \o payload, Len(header), Len(payload)) = payload
PROOF
<1>1. Len(header) \in Nat /\ Len(payload) \in Nat
  OBVIOUS
<1>2. \A i \in 1 .. Len(payload) : (header \o payload)[Len(header) + i] = payload[i]
  BY <1>1
<1>3. payload = [i \in 1 .. Len(payload) |-> payload[i]]
  OBVIOUS
<1> QED
  BY <1>2, <1>3 DEF Copied

LEMMA CopiedMiddle ==
  ASSUME NEW S, NEW header \in Seq(S), NEW payload \in Seq(S), NEW rest \in Seq(S)
  PROVE  Copied(header \o payload \o rest, Len(header), Len(payload)) = payload
PROOF
<1>1. Len(header) \in Nat /\ Len(payload) \in Nat /\ Len(rest) \in Nat
  OBVIOUS
<1>2. \A i \in 1 .. Len(payload) :
        (header \o payload \o rest)[Len(header) + i] = payload[i]
  BY <1>1
<1>3. payload = [i \in 1 .. Len(payload) |-> payload[i]]
  OBVIOUS
<1> QED
  BY <1>2, <1>3 DEF Copied

(***************************************************************************)
(* A datagram read in the receive buffer is the datagram.                  *)
(***************************************************************************)
LEMMA ReceivedCells ==
  ASSUME NEW S, NEW datagram \in Seq(S), NEW T, NEW buffer \in Seq(T),
         Len(datagram) <= Len(buffer)
  PROVE  /\ \A i \in 1 .. Len(datagram) : Received(datagram, buffer)[i] = datagram[i]
         /\ \A offset, length \in Nat : offset + length <= Len(datagram) =>
              Copied(Received(datagram, buffer), offset, length)
                = Copied(datagram, offset, length)
PROOF
<1>1. Len(datagram) \in Nat /\ Len(buffer) \in Nat /\ DOMAIN buffer = 1 .. Len(buffer)
  OBVIOUS
<1>2. \A i \in 1 .. Len(datagram) : Received(datagram, buffer)[i] = datagram[i]
  BY <1>1 DEF Received
<1>3. ASSUME NEW offset \in Nat, NEW length \in Nat, offset + length <= Len(datagram)
      PROVE  Copied(Received(datagram, buffer), offset, length)
               = Copied(datagram, offset, length)
  <2>1. \A i \in 1 .. length : offset + i \in 1 .. Len(datagram)
    BY <1>1, <1>3
  <2> QED
    BY <1>2, <2>1 DEF Copied
<1> QED
  BY <1>2, <1>3

-----------------------------------------------------------------------------
(***************************************************************************)
(* The transport message survives the datagram (perfect_link.hpp relies on *)
(* it), although the buffer is never cleared and the number of bytes       *)
(* received is not used (fair_loss_link.hpp:59).                           *)
(***************************************************************************)
THEOREM TransportRead ==
  ASSUME NEW Cell, NEW tm \in [type : Cell, sender : Cell, receiver : Cell,
                               seq_number : Cell, payload : Seq(Cell)],
         NEW T, NEW buffer \in Seq(T), Len(TransportBytes(tm)) <= Len(buffer)
  PROVE  TransportMessage(Received(TransportBytes(tm), buffer)) = tm
PROOF
<1> DEFINE S == Cell \cup {"Transport"} \cup Nat
           header == <<"Transport", tm.type, tm.sender, tm.receiver, tm.seq_number,
                       Len(tm.payload)>>
           datagram == TransportBytes(tm)
           memory == Received(datagram, buffer)
<1>1. tm.payload \in Seq(S) /\ header \in Seq(S) /\ Len(tm.payload) \in Nat
  OBVIOUS
<1>2. datagram = header \o tm.payload
  BY DEF TransportBytes
<1>3. Len(header) = 6
  OBVIOUS
<1>4. datagram \in Seq(S) /\ Len(datagram) = 6 + Len(tm.payload)
  BY <1>1, <1>2, <1>3
<1>5. \A i \in 1 .. 6 : datagram[i] = header[i]
  BY <1>1, <1>2, <1>3
<1> HIDE DEF S, header, datagram
<1>6. \A i \in 1 .. 6 : memory[i] = header[i]
  <2>1. \A i \in 1 .. Len(datagram) : memory[i] = datagram[i]
    BY <1>4, ReceivedCells DEF datagram
  <2>2. \A i \in 1 .. 6 : i \in 1 .. Len(datagram)
    BY <1>1, <1>4
  <2> HIDE DEF memory
  <2> QED
    BY <1>5, <2>1, <2>2
<1>7. Copied(memory, 6, Len(tm.payload)) = Copied(datagram, 6, Len(tm.payload))
  BY <1>1, <1>4, ReceivedCells DEF datagram
<1>8. Copied(datagram, 6, Len(tm.payload)) = tm.payload
  BY <1>1, <1>2, <1>3, CopiedLast
<1>9. /\ memory[2] = tm.type /\ memory[3] = tm.sender /\ memory[4] = tm.receiver
      /\ memory[5] = tm.seq_number /\ memory[6] = Len(tm.payload)
  BY <1>6 DEF header
<1> HIDE DEF memory
<1>10. TransportMessage(memory) =
         [type |-> tm.type, sender |-> tm.sender, receiver |-> tm.receiver,
          seq_number |-> tm.seq_number, payload |-> tm.payload]
  BY <1>7, <1>8, <1>9 DEF TransportMessage
<1>11. tm = [type |-> tm.type, sender |-> tm.sender, receiver |-> tm.receiver,
             seq_number |-> tm.seq_number, payload |-> tm.payload]
  OBVIOUS
<1> QED
  BY <1>10, <1>11 DEF memory, datagram

(***************************************************************************)
(* The payload of a transport message is the message that was sent: of     *)
(* milestone 1 its text, of milestone 2 the broadcast, of milestone 3 the  *)
(* proposal, without the memory serialize() allocates and never writes.    *)
(***************************************************************************)
THEOREM StringRead ==
  ASSUME NEW Cell, NEW string \in Seq(Cell)
  PROVE  StringMessage(StringBytes(string)) = string
PROOF
<1> DEFINE S == Cell \cup {"String"} \cup Nat
           header == <<"String", Len(string)>>
<1>1. string \in Seq(S) /\ header \in Seq(S) /\ Len(string) \in Nat /\ Len(header) = 2
  OBVIOUS
<1>2. (header \o string)[2] = Len(string)
  BY <1>1
<1> QED
  BY <1>1, <1>2, CopiedLast DEF StringMessage, StringBytes

\* A broadcast message is read from the payload as it was written.
THEOREM BroadcastRead ==
  ASSUME NEW Cell, NEW bm \in [seq_number : Cell, source_id : Cell, payload : Seq(Cell)]
  PROVE  BroadcastMessage(BroadcastBytes(bm)) = bm
PROOF
<1> DEFINE S == Cell \cup {"Broadcast"} \cup Nat
           header == <<"Broadcast", bm.seq_number, bm.source_id, Len(bm.payload)>>
           cells == header \o bm.payload
<1>1. bm.payload \in Seq(S) /\ header \in Seq(S) /\ Len(bm.payload) \in Nat /\ Len(header) = 4
  OBVIOUS
<1>2. cells[2] = bm.seq_number /\ cells[3] = bm.source_id /\ cells[4] = Len(bm.payload)
  BY <1>1
<1>3. Copied(cells, 4, Len(bm.payload)) = bm.payload
  BY <1>1, CopiedLast
<1>4. bm = [seq_number |-> bm.seq_number, source_id |-> bm.source_id, payload |-> bm.payload]
  OBVIOUS
<1> HIDE DEF cells
<1>5. BroadcastMessage(cells) =
        [seq_number |-> bm.seq_number, source_id |-> bm.source_id, payload |-> bm.payload]
  BY <1>2, <1>3 DEF BroadcastMessage
<1> QED
  BY <1>4, <1>5 DEF BroadcastBytes, cells

\* So is a proposal, whatever the order of its values and the unset memory behind them.
THEOREM ProposalRead ==
  ASSUME Excess \in Nat,
         NEW Cell, NEW elements \in Seq(Cell),
         NEW pm \in [type : Cell, round : Cell, proposal_number : Cell, proposal : SUBSET Cell],
         Range(elements) = pm.proposal
  PROVE  ProposalMessage(ProposalBytes(pm, elements)) = pm
PROOF
<1> DEFINE S == Cell \cup {"Proposal", Unset} \cup Nat
           header == <<"Proposal", pm.type, pm.round, pm.proposal_number, Len(elements)>>
           rest == [i \in 1 .. Excess |-> Unset]
           cells == header \o elements \o rest
<1>1. /\ elements \in Seq(S) /\ header \in Seq(S) /\ Len(elements) \in Nat
      /\ Len(header) = 5
  OBVIOUS
<1>2. rest \in Seq(S)
  OBVIOUS
<1> HIDE DEF rest
<1>3. /\ cells[2] = pm.type /\ cells[3] = pm.round /\ cells[4] = pm.proposal_number
      /\ cells[5] = Len(elements)
  BY <1>1, <1>2
<1>4. Copied(cells, 5, Len(elements)) = elements
  <2> HIDE DEF S, header
  <2>1. Copied(cells, Len(header), Len(elements)) = elements
    BY <1>1, <1>2, CopiedMiddle
  <2> QED
    BY <1>1, <2>1
<1>5. pm = [type |-> pm.type, round |-> pm.round, proposal_number |-> pm.proposal_number,
            proposal |-> pm.proposal]
  OBVIOUS
<1> HIDE DEF cells
<1>6. ProposalMessage(cells) =
        [type |-> pm.type, round |-> pm.round, proposal_number |-> pm.proposal_number,
         proposal |-> Range(elements)]
  BY <1>3, <1>4 DEF ProposalMessage
<1> QED
  BY <1>5, <1>6 DEF ProposalBytes, cells, rest
=============================================================================
