--------------------------- MODULE LatticeMessages ---------------------------
(***************************************************************************)
(* The messages of LatticeAgreement as the datagrams they travel in: laid  *)
(* out by serialize(), received into a buffer that is never cleared, and   *)
(* read out of it by the constructors (module Wire).                       *)
(***************************************************************************)
EXTENDS LatticeAgreement, Functions

CONSTANTS
  Unset,       \* what a cell holds that has been allocated and not written
  Excess,      \* how many cells serialize() of a proposal allocates for the set object
  BufferCells  \* the room of the receive buffer

ASSUME MessagesAssumption == Excess \in Nat /\ BufferCells \in Nat

W == INSTANCE Wire

\* The values of a set, in any order its iterator may have.
Orders(P) == Bijection(1 .. Cardinality(P), P)

\* The transport message of pm, numbered 0: what the link does with its number is not looked at.
Transport(pm, elements) ==
  [type |-> "Data", sender |-> pm.sender, receiver |-> pm.receiver, seq_number |-> 0,
   payload |-> W!ProposalBytes(pm, elements)]

Datagrams(pm) == {W!TransportBytes(Transport(pm, elements)) : elements \in Orders(pm.proposal)}

\* The receive buffer, and what a message is that is read out of it.
NewBuffer == [i \in 1 .. BufferCells |-> Unset]

Read(cells) ==
  LET tm == W!TransportMessage(cells)
      read == W!ProposalMessage(tm.payload)
  IN
    ProposalMessage(read.type, read.round, read.proposal_number, read.proposal,
                    tm.sender, tm.receiver)

(***************************************************************************)
(* Every proposal and answer in transit whose datagram fits in the buffer  *)
(* is read as it was sent, though the buffer still holds what it held of   *)
(* another one before, though the bytes received are not counted           *)
(* (fair_loss_link.hpp:59) and serialize() leaves memory behind the values *)
(* unset (message.hpp:109).                                                *)
(***************************************************************************)
MessagesSurvive ==
  \A before, pm \in transit :
    \A first \in Datagrams(before), second \in Datagrams(pm) :
      Len(second) <= BufferCells =>
        Read(W!Received(second, W!Received(first, NewBuffer))) = pm
=============================================================================
