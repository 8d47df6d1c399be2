--------------------------- MODULE FifoBroadcast ---------------------------
(***************************************************************************)
(* Milestone 2: FIFOUniformReliableBroadcast and its ReceiveBuffer, driven *)
(* by m2.cpp, on top of uniform reliable broadcast (module                 *)
(* UniformBroadcast, which UniformReliableBroadcast implements).           *)
(*                                                                         *)
(* The main thread of a host broadcasts its messages (FrbBroadcast).  Its  *)
(* receiving thread gets them from urb in any order; urbDeliver puts one   *)
(* into the buffer of its source, takes out all that are in order now      *)
(* (UrbDeliver) and then writes their "d" lines one by one (FrbDeliver),   *)
(* between which the host may stop.  The "b" lines of the main thread are  *)
(* in module Driver.                                                       *)
(***************************************************************************)
EXTENDS Naturals, Sequences, FiniteSets, Functions

CONSTANTS
  Hosts,         \* the host ids of the hosts file
  MessageCount,  \* MessageCount[h]: the number of messages of host h
  MaxStopped     \* at most this many hosts stop

ASSUME FifoAssumption ==
  /\ IsFiniteSet(Hosts)
  /\ MessageCount \in [Hosts -> Nat]
  /\ MaxStopped \in Nat

VARIABLES
  next_id,        \* next_id[h]: BroadcastMessage::next_id of the process
  urbLog,         \* urbLog[h]: what urb has delivered to h, in order
  messages,       \* messages[h][s]: the seq numbers held back for source s
  next_seq_nums,  \* next_seq_nums[h][s]: the next seq number of s to deliver
  delivering,     \* delivering[h]: what the receiving thread has yet to write
  output,         \* output[h]: the "d" lines of host h, in order
  stopped         \* the hosts that have stopped

buffer == <<messages, next_seq_nums>>
vars == <<next_id, urbLog, buffer, delivering, output, stopped>>

-----------------------------------------------------------------------------
\* A definition whose name starts with Mutant is not part of the model (see PerfectLink).

BroadcastMessage(h, n) == [source |-> h, seq_number |-> n]

Messages == UNION {{BroadcastMessage(h, n) : n \in 0 .. MessageCount[h] - 1} : h \in Hosts}

Handed == UNION {{BroadcastMessage(h, n) : n \in 0 .. next_id[h] - 1} : h \in Hosts}

\* The layer below.
URB == INSTANCE UniformBroadcast
         WITH Message <- Messages, handed <- Handed, log <- urbLog

Init ==
  /\ next_id = [h \in Hosts |-> 0]
  /\ urbLog = [h \in Hosts |-> <<>>]
  /\ messages = [h \in Hosts |-> [s \in Hosts |-> {}]]
  /\ next_seq_nums = [h \in Hosts |-> [s \in Hosts |-> 0]]
  /\ delivering = [h \in Hosts |-> <<>>]
  /\ output = [h \in Hosts |-> <<>>]
  /\ stopped = {}

-----------------------------------------------------------------------------
MutantOneTooMany(h) ==         \* the loop of the main thread from 0
  /\ h \notin stopped
  /\ next_id[h] <= MessageCount[h]
  /\ next_id' = [next_id EXCEPT ![h] = @ + 1]
  /\ UNCHANGED <<urbLog, buffer, delivering, output, stopped>>

FrbBroadcast(h) ==
  /\ h \notin stopped
  /\ next_id[h] < MessageCount[h]
  /\ next_id' = [next_id EXCEPT ![h] = @ + 1]
  /\ UNCHANGED <<urbLog, buffer, delivering, output, stopped>>

Stop(h) ==
  /\ h \notin stopped
  /\ Cardinality(stopped) < MaxStopped
  /\ stopped' = stopped \cup {h}
  /\ UNCHANGED <<next_id, urbLog, buffer, delivering, output>>

-----------------------------------------------------------------------------
(***************************************************************************)
(* ReceiveBuffer::deliver.  The heap of a source yields its smallest seq   *)
(* number; it is taken out as long as it is the one that comes next.  A    *)
(* number below the next one would stay at the top for ever.               *)
(***************************************************************************)

MutantTakeOne(held, next) ==   \* if in place of while
  IF next \in held THEN <<next>> ELSE <<>>

MutantTakeAll(held, next) ==   \* the comparison with next_seq_nums forgotten
  [i \in 1 .. Cardinality(held) |->
     CHOOSE n \in held : Cardinality({m \in held : m < n}) = i - 1]

\* How many numbers from next on are held, without a gap.
RunLength(held, next) ==
  CHOOSE k \in 0 .. Cardinality(held) :
    (\A n \in next .. next + k - 1 : n \in held) /\ next + k \notin held

\* What is taken out of the heap, in order.
Taken(held, next) ==
  IF \E n \in held : n < next
  THEN <<>>
  ELSE [i \in 1 .. RunLength(held, next) |-> next + i - 1]

\* urbDeliver, up to the loop over what the buffer returns.
UrbDeliver(h, bm) ==
  LET s == bm.source
      held == messages[h][s] \cup {bm.seq_number}
      taken == Taken(held, next_seq_nums[h][s])
  IN
    /\ delivering[h] = <<>>
    /\ UNCHANGED <<next_id, output>>
    /\ URB!Deliver(h, bm)
    /\ messages' = [messages EXCEPT ![h][s] = held \ Range(taken)]
    /\ next_seq_nums' = [next_seq_nums EXCEPT ![h][s] = @ + Len(taken)]
    /\ delivering' = [delivering EXCEPT ![h] =
                        [i \in DOMAIN taken |-> BroadcastMessage(s, taken[i])]]

\* frbDeliver of the next message: its "d" line is written.
FrbDeliver(h) ==
  /\ h \notin stopped
  /\ delivering[h] # <<>>
  /\ output' = [output EXCEPT ![h] = Append(@, Head(delivering[h]))]
  /\ delivering' = [delivering EXCEPT ![h] = Tail(@)]
  /\ UNCHANGED <<next_id, urbLog, buffer, stopped>>

-----------------------------------------------------------------------------
Next ==
  \/ \E h \in Hosts : FrbBroadcast(h) \/ FrbDeliver(h) \/ Stop(h)
  \/ \E h \in Hosts, bm \in Handed : UrbDeliver(h, bm)

Spec == Init /\ [][Next]_vars

(***************************************************************************)
(* Fairness: the two threads of a running host keep running, and urb keeps *)
(* its promises: a message whose source runs on, or that some host has     *)
(* delivered, is delivered (URB1 and URB4).                                *)
(***************************************************************************)
Promised(bm) == bm.source \notin stopped \/ \E g \in Hosts : URB!Delivered(g, bm)

FairSpec ==
  /\ Spec
  /\ \A h \in Hosts : WF_vars(FrbBroadcast(h)) /\ WF_vars(FrbDeliver(h))
  /\ \A h \in Hosts, bm \in Messages : SF_vars(Promised(bm) /\ UrbDeliver(h, bm))

-----------------------------------------------------------------------------
(***************************************************************************)
(* Properties.                                                             *)
(***************************************************************************)

TypeOK ==
  /\ next_id \in [Hosts -> Nat]
  /\ urbLog \in [Hosts -> Seq(Messages)]
  /\ messages \in [Hosts -> [Hosts -> SUBSET Nat]]
  /\ next_seq_nums \in [Hosts -> [Hosts -> Nat]]
  /\ delivering \in [Hosts -> Seq(Messages)]
  /\ output \in [Hosts -> Seq(Messages)]
  /\ stopped \subseteq Hosts

(***************************************************************************)
(* FRB5, as check_fifo of correctness.py tests it on the log files: the    *)
(* "d" lines about one source count up from the first message, without a   *)
(* gap and without a repetition, however urb orders its deliveries.        *)
(***************************************************************************)
FifoOrder ==
  \A h \in Hosts : \A k \in DOMAIN output[h] :
    output[h][k].seq_number =
      Cardinality({j \in 1 .. k - 1 : output[h][j].source = output[h][k].source})

(***************************************************************************)
(* The buffer holds nothing back without need: a message that urb has      *)
(* delivered, with all those before it, is written or about to be.         *)
(***************************************************************************)
NothingWithheld ==
  \A h \in Hosts : \A s \in Hosts : \A n \in 0 .. next_id[s] - 1 :
    (\A i \in 0 .. n : URB!Delivered(h, BroadcastMessage(s, i))) =>
      BroadcastMessage(s, n) \in Range(output[h]) \cup Range(delivering[h])

(***************************************************************************)
(* Hosts to which urb has delivered the same messages, in whatever orders, *)
(* and which have nothing left to write, have written the same lines; and  *)
(* so the same sequence of lines about each source (FifoOrder).            *)
(***************************************************************************)
LinesAgree ==
  \A g, h \in Hosts :
    /\ delivering[g] = <<>> /\ delivering[h] = <<>>
    /\ Range(urbLog[g]) = Range(urbLog[h])
    => Range(output[g]) = Range(output[h])

(***************************************************************************)
(* FRB1 to FRB4: with the buffer in between, the "d" lines still are the   *)
(* deliveries of a uniform reliable broadcast.                             *)
(***************************************************************************)
FRB == INSTANCE UniformBroadcast
         WITH Message <- Messages, handed <- Handed, log <- output

FifoIsUniform == FRB!Spec
=============================================================================
