-------------------------------- MODULE Wire --------------------------------
(***************************************************************************)
(* message.hpp and serialize.hpp: how messages are laid out in a datagram  *)
(* and read out of the receive buffer of fair_loss_link.hpp.               *)
(*                                                                         *)
(* Memory is a sequence of cells, one for each field and for each element  *)
(* of a payload; a payload is itself such a sequence.  What the reader has *)
(* to go by are the lengths in the message: recvfrom() leaves behind the   *)
(* datagram whatever the buffer held before, and its result is looked at   *)
(* for errors only.                                                        *)
(***************************************************************************)
EXTENDS Naturals, Sequences, Functions

CONSTANTS
  Unset,   \* what a cell holds that has been allocated and not written
  Excess   \* how many cells serialize() of a proposal allocates for the set object

\* memcpy() of length cells from offset on.
Copied(cells, offset, length) == [i \in 1 .. length |-> cells[offset + i]]

-----------------------------------------------------------------------------
(***************************************************************************)
(* serialize() of the four kinds of messages.  The elements of a set come  *)
(* in the order of its iterator.                                           *)
(***************************************************************************)
StringBytes(string) == <<"String", Len(string)>> \o string

ProposalBytes(pm, elements) ==
  <<"Proposal", pm.type, pm.round, pm.proposal_number, Len(elements)>>
    \o elements \o [i \in 1 .. Excess |-> Unset]

BroadcastBytes(bm) ==
  <<"Broadcast", bm.seq_number, bm.source_id, Len(bm.payload)>> \o bm.payload

TransportBytes(tm) ==
  <<"Transport", tm.type, tm.sender, tm.receiver, tm.seq_number, Len(tm.payload)>> \o tm.payload

-----------------------------------------------------------------------------
\* recvfrom() into a buffer that has room for the datagram.
Received(datagram, buffer) ==
  [i \in DOMAIN buffer |-> IF i <= Len(datagram) THEN datagram[i] ELSE buffer[i]]

(***************************************************************************)
(* The constructors that read a message out of memory.                     *)
(***************************************************************************)
StringMessage(cells) == Copied(cells, 2, cells[2])

MutantToTheEnd(cells) ==       \* the elements read up to the end of the payload
  [type |-> cells[2], round |-> cells[3], proposal_number |-> cells[4],
   proposal |-> Range(Copied(cells, 5, Len(cells) - 5))]

ProposalMessage(cells) ==
  [type |-> cells[2], round |-> cells[3], proposal_number |-> cells[4],
   proposal |-> Range(Copied(cells, 5, cells[5]))]

BroadcastMessage(cells) ==
  [seq_number |-> cells[2], source_id |-> cells[3], payload |-> Copied(cells, 4, cells[4])]

TransportMessage(cells) ==
  [type |-> cells[2], sender |-> cells[3], receiver |-> cells[4], seq_number |-> cells[5],
   payload |-> Copied(cells, 6, cells[6])]
=============================================================================
