------------------------- MODULE LatticeAgreement -------------------------
(***************************************************************************)
(* Milestone 3: LatticeAgreement and its LatticeReceiveBuffer, driven by   *)
(* main.cpp, on top of best-effort broadcast over perfect links.           *)
(*                                                                         *)
(* The main thread proposes in all rounds, one after the other, and waits  *)
(* for none (ProposeRound).  The receiving thread handles one message at   *)
(* a time: as an acceptor it accepts or rejects a proposal (Accept,        *)
(* Reject), as a proposer it counts the answers and proposes again or      *)
(* decides (CountAck, CountNack, Ignore); the decided sets leave in the    *)
(* order of the rounds, one line of output at a time (LaDecide).           *)
(*                                                                         *)
(* A handler is one step.  Its second half, which counts and decides, runs *)
(* without the lock, but it reads and writes only what the receiving       *)
(* thread alone touches: the main thread is in propose(r) once, before     *)
(* anybody can answer its proposal in round r.  (That the two threads may  *)
(* insert into the same std::map at once is a data race no property is     *)
(* about.)  Broadcasting is one step too: a message whose sender stops may *)
(* stay in transit for ever, which covers the half-done broadcast.         *)
(***************************************************************************)
EXTENDS Naturals, Sequences, FiniteSets

CONSTANTS
  Hosts,       \* the host ids of the hosts file
  NumRounds,   \* no config file has more rounds
  Values,      \* the values that occur in proposals
  Proposals,   \* Proposals[h][r + 1]: the line for round r in the config file of h
  MaxStopped   \* at most this many hosts stop

Rounds == 0 .. NumRounds - 1

ASSUME LatticeAssumption ==
  /\ IsFiniteSet(Hosts)
  /\ NumRounds \in Nat
  /\ Proposals \in [Hosts -> Seq(SUBSET Values)]
  /\ \A h \in Hosts : Len(Proposals[h]) <= NumRounds
  /\ MaxStopped \in Nat

VARIABLES
  proposed,                \* proposed[h]: the next round the main thread proposes in
  active,                  \* active[h][r], and so on: the maps of LatticeAgreement
  ack_count,
  nack_count,
  active_proposal_number,
  active_proposal,
  accepted_proposal,
  proposals,               \* proposals[h][r]: the buffer of decided sets, {} for none
  next_round,              \* next_round[h]: the round the buffer waits for
  deciding,                \* deciding[h]: the sets the receiving thread has yet to write
  transit,                 \* the messages sent and not yet delivered
  output,                  \* output[h]: the lines of host h, in order
  stopped,                 \* the hosts that have stopped
  accepts                  \* history: accepts[h][r] is all h has ever accepted in r

proposer == <<active, ack_count, nack_count, active_proposal_number, active_proposal>>
acceptor == <<accepted_proposal, accepts>>
buffer == <<proposals, next_round, deciding>>
vars == <<proposed, proposer, acceptor, buffer, transit, output, stopped>>

-----------------------------------------------------------------------------
\* A definition whose name starts with Mutant is not part of the model (see PerfectLink).

ProposalMessage(type, r, n, P, from, to) ==
  [type |-> type, round |-> r, proposal_number |-> n, proposal |-> P,
   sender |-> from, receiver |-> to]

create_ack(pm) ==
  ProposalMessage("Ack", pm.round, pm.proposal_number, pm.proposal, pm.receiver, pm.sender)

create_nack(pm, P) ==
  ProposalMessage("Nack", pm.round, pm.proposal_number, P, pm.receiver, pm.sender)

MutantHalf == Cardinality(Hosts) \div 2     \* the + 1 forgotten

threshold == Cardinality(Hosts) \div 2 + 1

Init ==
  /\ proposed = [h \in Hosts |-> 0]
  /\ active = [h \in Hosts |-> [r \in Rounds |-> FALSE]]
  /\ ack_count = [h \in Hosts |-> [r \in Rounds |-> 0]]
  /\ nack_count = [h \in Hosts |-> [r \in Rounds |-> 0]]
  /\ active_proposal_number = [h \in Hosts |-> [r \in Rounds |-> 0]]
  /\ active_proposal = [h \in Hosts |-> [r \in Rounds |-> {}]]
  /\ accepted_proposal = [h \in Hosts |-> [r \in Rounds |-> {}]]
  /\ accepts = [h \in Hosts |-> [r \in Rounds |-> {}]]
  /\ proposals = [h \in Hosts |-> [r \in Rounds |-> {}]]
  /\ next_round = [h \in Hosts |-> 0]
  /\ deciding = [h \in Hosts |-> <<>>]
  /\ transit = {}
  /\ output = [h \in Hosts |-> <<>>]
  /\ stopped = {}

-----------------------------------------------------------------------------
(***************************************************************************)
(* Proposing.                                                              *)
(***************************************************************************)

MutantNoReset(h, r, P) ==      \* the counts of the last proposal kept
  LET n == active_proposal_number[h][r] + 1 IN
    /\ active' = [active EXCEPT ![h][r] = TRUE]
    /\ active_proposal_number' = [active_proposal_number EXCEPT ![h][r] = n]
    /\ active_proposal' = [active_proposal EXCEPT ![h][r] = P]
    /\ UNCHANGED <<ack_count, nack_count>>

\* propose(r, P) of host h.
propose(h, r, P) ==
  LET n == active_proposal_number[h][r] + 1 IN
    /\ active' = [active EXCEPT ![h][r] = TRUE]
    /\ ack_count' = [ack_count EXCEPT ![h][r] = 0]
    /\ nack_count' = [nack_count EXCEPT ![h][r] = 0]
    /\ active_proposal_number' = [active_proposal_number EXCEPT ![h][r] = n]
    /\ active_proposal' = [active_proposal EXCEPT ![h][r] = P]

\* The messages propose(r, P) broadcasts, to the host itself as well.
Broadcast(h, r, P) ==
  {ProposalMessage("Propose", r, active_proposal_number[h][r] + 1, P, h, g) : g \in Hosts}

\* The main thread's loop.
ProposeRound(h) ==
  LET r == proposed[h]
      P == Proposals[h][r + 1]
  IN
    /\ h \notin stopped
    /\ r < Len(Proposals[h])
    /\ proposed' = [proposed EXCEPT ![h] = r + 1]
    /\ propose(h, r, P)
    /\ transit' = transit \cup Broadcast(h, r, P)
    /\ UNCHANGED <<acceptor, buffer, output, stopped>>

\* SIGTERM or SIGINT: stop() shuts the link down, flushes the output and exits.
Stop(h) ==
  /\ h \notin stopped
  /\ Cardinality(stopped) < MaxStopped
  /\ stopped' = stopped \cup {h}
  /\ UNCHANGED <<proposed, proposer, acceptor, buffer, transit, output>>

-----------------------------------------------------------------------------
(***************************************************************************)
(* Receiving.                                                              *)
(***************************************************************************)

\* The link delivers pm to h, whose receiving thread is idle.
Receives(h, pm) ==
  /\ h \notin stopped
  /\ deciding[h] = <<>>
  /\ pm \in transit
  /\ pm.receiver = h
  /\ UNCHANGED <<proposed, output, stopped>>

MutantAcceptAny(h, pm) ==      \* the comparison of sizes in place of the sets
  Cardinality(accepted_proposal[h][pm.round]) <= Cardinality(pm.proposal)

Acceptable(h, pm) == accepted_proposal[h][pm.round] \subseteq pm.proposal

Accept(h, pm) ==
  /\ Receives(h, pm)
  /\ pm.type = "Propose"
  /\ Acceptable(h, pm)
  /\ accepted_proposal' = [accepted_proposal EXCEPT ![h][pm.round] = pm.proposal]
  /\ accepts' = [accepts EXCEPT ![h][pm.round] = @ \cup {pm.proposal}]
  /\ transit' = (transit \ {pm}) \cup {create_ack(pm)}
  /\ UNCHANGED <<proposer, buffer>>

Reject(h, pm) ==
  LET P == accepted_proposal[h][pm.round] \cup pm.proposal IN
    /\ Receives(h, pm)
    /\ pm.type = "Propose"
    /\ ~Acceptable(h, pm)
    /\ accepted_proposal' = [accepted_proposal EXCEPT ![h][pm.round] = P]
    /\ transit' = (transit \ {pm}) \cup {create_nack(pm, P)}
    /\ UNCHANGED <<accepts, proposer, buffer>>

-----------------------------------------------------------------------------
(***************************************************************************)
(* LatticeReceiveBuffer::deliver: the decided set of round r is stored and *)
(* every set that is next in order is taken out of the waiting.            *)
(***************************************************************************)

MutantAnyOrder(h, r, D) ==     \* delivered at once, whatever round is next
  /\ proposals' = [proposals EXCEPT ![h][r] = D]
  /\ deciding' = [deciding EXCEPT ![h] = <<D>>]
  /\ UNCHANGED next_round

\* The first round from next on without a set; an empty set counts as none.
FirstMissing(stored, next) ==
  CHOOSE r \in next .. NumRounds :
    /\ \A i \in next .. r - 1 : stored[i] # {}
    /\ r = NumRounds \/ stored[r] = {}

BufferDeliver(h, r, D) ==
  LET stored == [proposals[h] EXCEPT ![r] = D]
      next == next_round[h]
      missing == FirstMissing(stored, next)
  IN
    /\ proposals' = [proposals EXCEPT ![h] = stored]
    /\ next_round' = [next_round EXCEPT ![h] = missing]
    /\ deciding' = [deciding EXCEPT ![h] =
                      [i \in 1 .. missing - next |-> stored[next + i - 1]]]

(***************************************************************************)
(* The part of bebDeliver after the lock, for an answer pm that leaves     *)
(* host h with the counts acks and nacks and the proposal P: it proposes   *)
(* P, or decides the set of the answer, or waits.  A Propose changes none  *)
(* of the three, so that nothing is left to do after it (NothingPending).  *)
(***************************************************************************)
MutantAboveThreshold(h, r, acks, nacks) ==   \* > in place of >=
  active[h][r] /\ nacks > 0 /\ acks + nacks > threshold

ReProposes(h, r, acks, nacks) ==
  active[h][r] /\ nacks > 0 /\ acks + nacks >= threshold

Decides(h, r, acks, nacks) ==
  active[h][r] /\ ~ReProposes(h, r, acks, nacks) /\ acks >= threshold

ProposeAgain(h, pm, acks, nacks, P) ==
  /\ ReProposes(h, pm.round, acks, nacks)
  /\ propose(h, pm.round, P)
  /\ transit' = (transit \ {pm}) \cup Broadcast(h, pm.round, P)
  /\ UNCHANGED buffer

Decide(h, pm, acks, nacks) ==
  /\ Decides(h, pm.round, acks, nacks)
  /\ active' = [active EXCEPT ![h][pm.round] = FALSE]
  /\ BufferDeliver(h, pm.round, pm.proposal)

Wait(h, pm, acks, nacks) ==
  /\ ~ReProposes(h, pm.round, acks, nacks)
  /\ ~Decides(h, pm.round, acks, nacks)
  /\ UNCHANGED <<active, buffer>>

Count(h, pm, acks, nacks, P) ==
  \/ ProposeAgain(h, pm, acks, nacks, P)
  \/ /\ Decide(h, pm, acks, nacks) \/ Wait(h, pm, acks, nacks)
     /\ ack_count' = [ack_count EXCEPT ![h][pm.round] = acks]
     /\ nack_count' = [nack_count EXCEPT ![h][pm.round] = nacks]
     /\ active_proposal' = [active_proposal EXCEPT ![h][pm.round] = P]
     /\ transit' = transit \ {pm}
     /\ UNCHANGED active_proposal_number

MutantAnyNumber(h, pm) == TRUE     \* the proposal number not looked at

\* The answer is to the proposal of h that is current in its round.
IsCurrent(h, pm) == active_proposal_number[h][pm.round] = pm.proposal_number

CountAck(h, pm) ==
  LET r == pm.round IN
    /\ Receives(h, pm)
    /\ pm.type = "Ack"
    /\ IsCurrent(h, pm)
    /\ Count(h, pm, ack_count[h][r] + 1, nack_count[h][r], active_proposal[h][r])
    /\ UNCHANGED acceptor

MutantNackKeepsProposal(h, pm) ==   \* no set_union: the same proposal again
  LET r == pm.round IN
    /\ Receives(h, pm)
    /\ pm.type = "Nack"
    /\ IsCurrent(h, pm)
    /\ Count(h, pm, ack_count[h][r], nack_count[h][r] + 1, active_proposal[h][r])
    /\ UNCHANGED acceptor

CountNack(h, pm) ==
  LET r == pm.round IN
    /\ Receives(h, pm)
    /\ pm.type = "Nack"
    /\ IsCurrent(h, pm)
    /\ Count(h, pm, ack_count[h][r], nack_count[h][r] + 1,
             active_proposal[h][r] \cup pm.proposal)
    /\ UNCHANGED acceptor

\* An answer to a proposal that h has replaced since.
Ignore(h, pm) ==
  /\ Receives(h, pm)
  /\ pm.type \in {"Ack", "Nack"}
  /\ ~IsCurrent(h, pm)
  /\ transit' = transit \ {pm}
  /\ UNCHANGED <<proposer, acceptor, buffer>>

\* laDecide of the next set.
LaDecide(h) ==
  /\ h \notin stopped
  /\ deciding[h] # <<>>
  /\ output' = [output EXCEPT ![h] = Append(@, Head(deciding[h]))]
  /\ deciding' = [deciding EXCEPT ![h] = Tail(@)]
  /\ UNCHANGED <<proposed, proposer, acceptor, proposals, next_round, transit, stopped>>

-----------------------------------------------------------------------------
Deliver(h, pm) ==
  Accept(h, pm) \/ Reject(h, pm) \/ CountAck(h, pm) \/ CountNack(h, pm) \/ Ignore(h, pm)

Next ==
  \E h \in Hosts :
    \/ ProposeRound(h) \/ LaDecide(h) \/ Stop(h)
    \/ \E pm \in transit : Deliver(h, pm)

Spec == Init /\ [][Next]_vars

(***************************************************************************)
(* Fairness: as long as a thread of a running host has something to do, be *)
(* it with a message a running host has sent, some thread does something.  *)
(* That is less than the threads and the link promise (each thread runs,   *)
(* each such message is delivered), and as much as is needed: only         *)
(* finitely many messages are ever sent.                                   *)
(***************************************************************************)
Progress ==
  \E h \in Hosts :
    \/ ProposeRound(h) \/ LaDecide(h)
    \/ \E pm \in transit : pm.sender \notin stopped /\ Deliver(h, pm)

FairSpec == Spec /\ WF_vars(Progress)

-----------------------------------------------------------------------------
(***************************************************************************)
(* Properties.                                                             *)
(***************************************************************************)

Message ==
  [type : {"Propose", "Ack", "Nack"}, round : Rounds, proposal_number : Nat \ {0},
   proposal : SUBSET Values, sender : Hosts, receiver : Hosts]

TypeOK ==
  /\ proposed \in [Hosts -> 0 .. NumRounds]
  /\ active \in [Hosts -> [Rounds -> BOOLEAN]]
  /\ ack_count \in [Hosts -> [Rounds -> Nat]]
  /\ nack_count \in [Hosts -> [Rounds -> Nat]]
  /\ active_proposal_number \in [Hosts -> [Rounds -> Nat]]
  /\ active_proposal \in [Hosts -> [Rounds -> SUBSET Values]]
  /\ accepted_proposal \in [Hosts -> [Rounds -> SUBSET Values]]
  /\ accepts \in [Hosts -> [Rounds -> SUBSET SUBSET Values]]
  /\ proposals \in [Hosts -> [Rounds -> SUBSET Values]]
  /\ next_round \in [Hosts -> 0 .. NumRounds]
  /\ deciding \in [Hosts -> Seq(SUBSET Values)]
  /\ transit \subseteq Message
  /\ output \in [Hosts -> Seq(SUBSET Values)]
  /\ stopped \subseteq Hosts
Proposed(h, r) == active_proposal_number[h][r] > 0

\* The hosts whose answer to the current proposal of h in round r has been counted.
Answered(h, r) ==
  {g \in Hosts : \A pm \in transit :
     ~ /\ pm.round = r
       /\ pm.proposal_number = active_proposal_number[h][r]
       /\ \/ pm.type = "Propose" /\ pm.sender = h /\ pm.receiver = g
          \/ pm.type # "Propose" /\ pm.sender = g /\ pm.receiver = h}

(***************************************************************************)
(* The two counters of a round count hosts, each once, that have answered  *)
(* the proposal which is current now; no answer to an earlier one is among *)
(* them.                                                                   *)
(***************************************************************************)
CountsAreAnswers ==
  \A h \in Hosts : \A r \in Rounds :
    Proposed(h, r) => ack_count[h][r] + nack_count[h][r] = Cardinality(Answered(h, r))

(***************************************************************************)
(* Between two messages a proposer has nothing left to do: the tests after *)
(* the lock, which look at the counters whatever has been received, find   *)
(* them short of a quorum.                                                 *)
(***************************************************************************)
NothingPending ==
  \A h \in Hosts : \A r \in Rounds :
    active[h][r] =>
      /\ ack_count[h][r] < threshold
      /\ nack_count[h][r] > 0 => ack_count[h][r] + nack_count[h][r] < threshold

(***************************************************************************)
(* Every proposal of a host in a round adds a value to the one before: a   *)
(* host proposes a bounded number of times, which is why rounds end.       *)
(***************************************************************************)
EveryProposalGrows ==
  \A h \in Hosts : \A r \in 0 .. proposed[h] - 1 :
    active_proposal_number[h][r] <=
      1 + Cardinality(active_proposal[h][r] \ Proposals[h][r + 1])

(***************************************************************************)
(* A decided set has been accepted as it is by a majority.                 *)
(***************************************************************************)
QuorumAccepted ==
  \A h \in Hosts : \A r \in Rounds :
    proposals[h][r] # {} =>
      2 * Cardinality({g \in Hosts : proposals[h][r] \in accepts[g][r]}) > Cardinality(Hosts)

Comparable(D, E) == D \subseteq E \/ E \subseteq D

(***************************************************************************)
(* What one acceptor ever accepts in a round is a chain: with the majority *)
(* above it is what makes the decided sets comparable.                     *)
(***************************************************************************)
AcceptedIsChain ==
  \A h \in Hosts : \A r \in Rounds : \A D, E \in accepts[h][r] : Comparable(D, E)

(***************************************************************************)
(* Consistency, as check_agreement tests it on the lines of the hosts: the *)
(* sets two hosts write for the same round are comparable.                 *)
(***************************************************************************)
Consistency ==
  \A g, h \in Hosts : \A k \in DOMAIN output[g] \cap DOMAIN output[h] :
    Comparable(output[g][k], output[h][k])

(***************************************************************************)
(* Validity, as check_agreement tests it: what a host writes for a round   *)
(* holds its own proposal and only values that hosts proposed.             *)
(***************************************************************************)
Validity ==
  \A h \in Hosts : \A k \in DOMAIN output[h] :
    /\ Proposals[h][k] \subseteq output[h][k]
    /\ \A v \in output[h][k] : \E g \in Hosts : k <= proposed[g] /\ v \in Proposals[g][k]

(***************************************************************************)
(* An acceptor never goes back behind a set it has acknowledged.           *)
(***************************************************************************)
AcceptedGrows ==
  [][\A h \in Hosts : \A r \in Rounds :
       accepted_proposal[h][r] \subseteq accepted_proposal'[h][r]]_vars

(***************************************************************************)
(* No round gets stuck: while a majority runs, a running host that has     *)
(* proposed in the round of its next line has the set in hand, or is still *)
(* to be answered by a running host, on the proposal that is current,      *)
(* whatever the stopped hosts keep for themselves.  A round in which it    *)
(* proposes the empty set may be decided as a set that the buffer takes    *)
(* for none (receive_buffer.hpp:96).                                       *)
(***************************************************************************)
NoRoundStuck ==
  2 * Cardinality(stopped) < Cardinality(Hosts) =>
    \A h \in Hosts \ stopped :
      LET r == Len(output[h]) IN
        r < proposed[h] /\ Proposals[h][r + 1] # {} =>
          deciding[h] # <<>> \/ \E g \in Hosts \ stopped : g \notin Answered(h, r)

\* The proposals of h in round r, each for each host: those that have been received, and those
\* to which the answer has been received too.
Exchanges(h, r) == (1 .. active_proposal_number[h][r]) \X Hosts

Asking(h, r) ==
  {<<pm.proposal_number, pm.receiver>> :
     pm \in {m \in transit : m.type = "Propose" /\ m.sender = h /\ m.round = r}}

Answering(h, r) ==
  {<<pm.proposal_number, pm.sender>> :
     pm \in {m \in transit : m.type # "Propose" /\ m.receiver = h /\ m.round = r}}

Received(h, r) == Exchanges(h, r) \ Asking(h, r)
Returned(h, r) == Exchanges(h, r) \ (Asking(h, r) \cup Answering(h, r))

(***************************************************************************)
(* No exchange is gone through twice: whatever a step is, it begins a      *)
(* round, receives a proposal or an answer for the first time, writes a    *)
(* line or stops a host, and undoes nothing of that.  Since proposing ends *)
(* (EveryProposalGrows), there are finitely many exchanges, and a run      *)
(* comes to an end.                                                        *)
(***************************************************************************)
EveryStepIsNew ==
  [][/\ stopped \subseteq stopped'
     /\ \A h \in Hosts : /\ proposed[h] <= proposed'[h]
                         /\ Len(output[h]) <= Len(output'[h])
                         /\ \A r \in Rounds : /\ Received(h, r) \subseteq Received(h, r)'
                                              /\ Returned(h, r) \subseteq Returned(h, r)'
     /\ \/ stopped' # stopped
        \/ \E h \in Hosts : \/ proposed'[h] # proposed[h]
                            \/ Len(output'[h]) # Len(output[h])
                            \/ \E r \in Rounds : \/ Received(h, r)' # Received(h, r)
                                                 \/ Returned(h, r)' # Returned(h, r)]_vars

(***************************************************************************)
(* The refinement: the lines are the decisions of LatticeDecisions.        *)
(***************************************************************************)
LD == INSTANCE LatticeDecisions WITH log <- output

LatticeDecisionsSafety == LD!SafeSpec
LatticeDecisionsSpec == LD!Spec

(***************************************************************************)
(* Every running host gets through its rounds; "Did not decide in round"   *)
(* of check_agreement is never raised.                                     *)
(***************************************************************************)
EveryRoundDecided ==
  <>(\A h \in Hosts : h \in stopped \/ Len(output[h]) = Len(Proposals[h]))
=============================================================================
