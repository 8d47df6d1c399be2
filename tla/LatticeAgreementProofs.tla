----------------------- MODULE LatticeAgreementProofs -----------------------
(***************************************************************************)
(* Proofs about LatticeAgreement, for any hosts, rounds and proposals, any *)
(* order of delivery and any number of hosts that stop: type correctness,  *)
(* the safety invariants of the proposers and the acceptors, Consistency,  *)
(* Validity and the safety part of the refinement of LatticeDecisions.     *)
(***************************************************************************)
EXTENDS LatticeAgreement, FiniteSetTheorems, WellFoundedInduction, TLAPS

(***************************************************************************)
(* The inductive invariant.  An exchange is a proposal of one host on its  *)
(* way to another host or the answer on its way back.                      *)
(***************************************************************************)
Proposer(pm) == IF pm.type = "Propose" THEN pm.sender ELSE pm.receiver

Acceptor(pm) == IF pm.type = "Propose" THEN pm.receiver ELSE pm.sender

SameExchange(pm, qm) ==
  /\ Proposer(pm) = Proposer(qm)
  /\ Acceptor(pm) = Acceptor(qm)
  /\ pm.round = qm.round
  /\ pm.proposal_number = qm.proposal_number

\* A host proposes in its rounds in order, and decides only where it has proposed.
RoundInv ==
  /\ \A h \in Hosts : proposed[h] <= Len(Proposals[h])
  /\ \A h \in Hosts : \A r \in Rounds :
       /\ active[h][r] => proposals[h][r] = {}
       /\ r >= proposed[h] =>
            ~active[h][r] /\ proposals[h][r] = {} /\ active_proposal_number[h][r] = 0

\* The buffer has released the sets of the rounds before next_round, in order.
Released(h) ==
  /\ Len(output[h]) + Len(deciding[h]) = next_round[h]
  /\ \A r \in 0 .. next_round[h] - 1 : proposals[h][r] # {}
  /\ \A k \in DOMAIN output[h] : output[h][k] = proposals[h][k - 1]
  /\ \A k \in DOMAIN deciding[h] : deciding[h][k] = proposals[h][Len(output[h]) + k - 1]

BufferInv == \A h \in Hosts : Released(h)

\* An acceptor is never behind a set it has accepted.
AcceptorInv ==
  /\ AcceptedIsChain
  /\ \A h \in Hosts : \A r \in Rounds : \A D \in accepts[h][r] : D \subseteq accepted_proposal[h][r]

\* The proposer of a message has not been asked for more since.
IsFresh(pm) ==
  /\ IsCurrent(Proposer(pm), pm)
  /\ nack_count[Proposer(pm)][pm.round] = 0

\* What a message in transit says about its proposer and its acceptor.
MessageInv ==
  \A pm \in transit :
    /\ pm.proposal_number <= active_proposal_number[Proposer(pm)][pm.round]
    /\ pm.type = "Ack" => pm.proposal \in accepts[pm.sender][pm.round]
    /\ pm.type # "Nack" /\ IsFresh(pm) =>
         pm.proposal = active_proposal[Proposer(pm)][pm.round]

\* At most one message of an exchange is in transit.
ExchangeInv == \A pm, qm \in transit : SameExchange(pm, qm) => pm = qm

\* As long as nobody has rejected it, the current proposal is accepted by all that have answered.
AnswerInv ==
  \A h \in Hosts : \A r \in Rounds :
    Proposed(h, r) /\ nack_count[h][r] = 0 =>
      \A g \in Answered(h, r) : active_proposal[h][r] \in accepts[g][r]

\* The values hosts have proposed in a round.
Offered(r) == UNION {Proposals[g][r + 1] : g \in {k \in Hosts : r < proposed[k]}}

\* Nothing but what has been proposed is sent, accepted or proposed again.
SentValues == \A pm \in transit : pm.proposal \subseteq Offered(pm.round)

HeldValues ==
  \A h \in Hosts : \A r \in Rounds :
    /\ accepted_proposal[h][r] \subseteq Offered(r)
    /\ active_proposal[h][r] \subseteq Offered(r)

\* A host never gives up its own values.
OwnValues ==
  \A h \in Hosts : \A r \in Rounds :
    r < proposed[h] => Proposals[h][r + 1] \subseteq active_proposal[h][r]

\* What is decided lies between the two.
DecidedValues ==
  \A h \in Hosts : \A r \in Rounds :
    proposals[h][r] # {} =>
      /\ Proposals[h][r + 1] \subseteq proposals[h][r]
      /\ proposals[h][r] \subseteq Offered(r)

ValueInv == SentValues /\ HeldValues /\ OwnValues /\ DecidedValues

(***************************************************************************)
(* The strengthening.  What a decided set rests on is spread over the      *)
(* counters of its proposer, the answers in transit and the acceptors'     *)
(* sets; IndInv says that the three agree.                                 *)
(***************************************************************************)
IndInv ==
  /\ TypeOK
  /\ RoundInv
  /\ BufferInv
  /\ AcceptorInv
  /\ MessageInv
  /\ ExchangeInv
  /\ AnswerInv
  /\ CountsAreAnswers
  /\ QuorumAccepted
  /\ ValueInv

-----------------------------------------------------------------------------
(***************************************************************************)
(* What the steps do.                                                      *)
(***************************************************************************)

\* The two ways an answer is counted: with a new proposal, or without.
Settle(h, pm, acks, nacks, P) ==
  /\ Decide(h, pm, acks, nacks) \/ Wait(h, pm, acks, nacks)
  /\ ack_count' = [ack_count EXCEPT ![h][pm.round] = acks]
  /\ nack_count' = [nack_count EXCEPT ![h][pm.round] = nacks]
  /\ active_proposal' = [active_proposal EXCEPT ![h][pm.round] = P]
  /\ transit' = transit \ {pm}
  /\ UNCHANGED active_proposal_number

LEMMA MessageFields ==
  ASSUME TypeOK, NEW pm \in transit
  PROVE  /\ pm \in Message
         /\ pm.type \in {"Propose", "Ack", "Nack"}
         /\ pm.round \in Rounds
         /\ pm.proposal_number \in Nat \ {0}
         /\ pm.proposal \in SUBSET Values
         /\ pm.sender \in Hosts
         /\ pm.receiver \in Hosts
BY DEF TypeOK, Message

LEMMA MessageType ==
  ASSUME NEW type \in {"Propose", "Ack", "Nack"}, NEW r \in Rounds, NEW n \in Nat \ {0},
         NEW P \in SUBSET Values, NEW from \in Hosts, NEW to \in Hosts
  PROVE  ProposalMessage(type, r, n, P, from, to) \in Message
BY DEF ProposalMessage, Message

LEMMA ThresholdType == threshold \in Nat \ {0} /\ 2 * threshold > Cardinality(Hosts)
<1>1. Cardinality(Hosts) \in Nat
  BY LatticeAssumption, FS_CardinalityType
<1> QED
  BY <1>1 DEF threshold

\* An answer is counted: what the two kinds of answers have in common.
LEMMA CountStep ==
  ASSUME TypeOK, NEW h \in Hosts, NEW pm \in transit, CountAck(h, pm) \/ CountNack(h, pm)
  PROVE  \E acks, nacks \in Nat, P \in SUBSET Values :
           /\ acks + nacks = ack_count[h][pm.round] + nack_count[h][pm.round] + 1
           /\ nacks >= nack_count[h][pm.round]
           /\ nacks = 0 => pm.type = "Ack" /\ P = active_proposal[h][pm.round]
           /\ active_proposal[h][pm.round] \subseteq P
           /\ P \subseteq active_proposal[h][pm.round] \cup pm.proposal
           /\ ProposeAgain(h, pm, acks, nacks, P) \/ Settle(h, pm, acks, nacks, P)
<1> DEFINE r == pm.round
<1>1. /\ r \in Rounds
      /\ pm.proposal \in SUBSET Values
      /\ ack_count[h][r] \in Nat
      /\ nack_count[h][r] \in Nat
      /\ active_proposal[h][r] \in SUBSET Values
  <2>1. r \in Rounds /\ pm.proposal \in SUBSET Values
    BY MessageFields
  <2> HIDE DEF r
  <2> QED
    BY <2>1 DEF TypeOK
<1>2. CASE CountAck(h, pm)
  <2> DEFINE acks == ack_count[h][r] + 1
             nacks == nack_count[h][r]
             P == active_proposal[h][r]
  <2>1. pm.type = "Ack" /\ Count(h, pm, acks, nacks, P)
    BY <1>2 DEF CountAck
  <2>2. ProposeAgain(h, pm, acks, nacks, P) \/ Settle(h, pm, acks, nacks, P)
    BY <2>1 DEF Count, Settle
  <2>3. acks \in Nat /\ nacks \in Nat /\ acks + nacks = ack_count[h][r] + nack_count[h][r] + 1
    BY <1>1
  <2> HIDE DEF acks, nacks
  <2> QED
    BY <1>1, <2>1, <2>2, <2>3 DEF nacks
<1>3. CASE CountNack(h, pm)
  <2> DEFINE acks == ack_count[h][r]
             nacks == nack_count[h][r] + 1
             P == active_proposal[h][r] \cup pm.proposal
  <2>1. Count(h, pm, acks, nacks, P)
    BY <1>3 DEF CountNack
  <2>2. ProposeAgain(h, pm, acks, nacks, P) \/ Settle(h, pm, acks, nacks, P)
    BY <2>1 DEF Count, Settle
  <2>3. /\ acks \in Nat /\ nacks \in Nat /\ P \in SUBSET Values
        /\ acks + nacks = ack_count[h][r] + nack_count[h][r] + 1
        /\ nacks >= nack_count[h][r] /\ nacks # 0
    BY <1>1
  <2> HIDE DEF acks, nacks
  <2> QED
    BY <2>2, <2>3
<1> QED
  BY <1>2, <1>3

LEMMA SettleStep ==
  ASSUME NEW h, NEW pm, CountAck(h, pm) \/ CountNack(h, pm)
  PROVE  /\ Receives(h, pm)
         /\ pm.type \in {"Ack", "Nack"}
         /\ IsCurrent(h, pm)
         /\ UNCHANGED acceptor
BY DEF CountAck, CountNack

\* A step decides only the set of an acknowledgement, which completes a quorum without a nack.
LEMMA DecideStep ==
  ASSUME NEW h, NEW pm, NEW acks \in Nat, NEW nacks \in Nat, Decide(h, pm, acks, nacks)
  PROVE  /\ active[h][pm.round]
         /\ nacks = 0
         /\ acks >= threshold
BY ThresholdType DEF Decide, Decides, ReProposes

\* The steps of a host, by what they do to the proposals.
LEMMA StepCases ==
  ASSUME [Next]_vars
  PROVE  \/ \E h \in Hosts : ProposeRound(h) \/ LaDecide(h) \/ Stop(h)
         \/ \E h \in Hosts : \E pm \in transit : Accept(h, pm) \/ Reject(h, pm)
         \/ \E h \in Hosts : \E pm \in transit : CountAck(h, pm) \/ CountNack(h, pm)
         \/ \E h \in Hosts : \E pm \in transit : Ignore(h, pm)
         \/ UNCHANGED vars
BY DEF Next, Deliver

-----------------------------------------------------------------------------
(***************************************************************************)
(* The buffer.                                                             *)
(***************************************************************************)

\* The round FirstMissing chooses exists.
LEMMA FirstMissingFound ==
  ASSUME NEW stored, NEW next \in 0 .. NumRounds
  PROVE  /\ FirstMissing(stored, next) \in next .. NumRounds
         /\ \A i \in next .. FirstMissing(stored, next) - 1 : stored[i] # {}
         /\ \/ FirstMissing(stored, next) = NumRounds
            \/ stored[FirstMissing(stored, next)] = {}
<1> DEFINE Missing == {r \in next .. NumRounds : r = NumRounds \/ stored[r] = {}}
<1>1. Missing \subseteq Nat /\ NumRounds \in Missing
  BY LatticeAssumption
<1>2. PICK m \in Missing : \A r \in Missing : <<r, m>> \notin OpToRel(<, Nat)
  BY <1>1, WFMin, NatLessThanWellFounded, Zenon
<1>3. \A r \in Missing : ~(r < m)
  BY <1>1, <1>2, Zenon DEF OpToRel
<1>4. \A i \in next .. m - 1 : stored[i] # {}
  <2> SUFFICES ASSUME NEW i \in next .. m - 1, stored[i] = {} PROVE FALSE
    OBVIOUS
  <2>1. i \in next .. NumRounds /\ i < m
    BY LatticeAssumption
  <2> QED
    BY <1>3, <2>1
<1>5. /\ m \in next .. NumRounds
      /\ m = NumRounds \/ stored[m] = {}
  OBVIOUS
<1> HIDE DEF Missing
<1> QED
  BY <1>4, <1>5 DEF FirstMissing

\* What the buffer releases: the sets from next_round on, up to the new next_round.
LEMMA BufferStep ==
  ASSUME TypeOK, NEW h \in Hosts, NEW r \in Rounds, NEW D \in SUBSET Values,
         BufferDeliver(h, r, D)
  PROVE  /\ proposals' = [proposals EXCEPT ![h][r] = D]
         /\ \E m \in next_round[h] .. NumRounds :
              /\ next_round' = [next_round EXCEPT ![h] = m]
              /\ \A i \in next_round[h] .. m - 1 : proposals'[h][i] # {}
              /\ m = NumRounds \/ proposals'[h][m] = {}
              /\ deciding' = [deciding EXCEPT ![h] =
                   [i \in 1 .. m - next_round[h] |-> proposals'[h][next_round[h] + i - 1]]]
<1> DEFINE stored == [proposals[h] EXCEPT ![r] = D]
           next == next_round[h]
           m == FirstMissing(stored, next)
<1>1. /\ next \in 0 .. NumRounds
      /\ proposals \in [Hosts -> [Rounds -> SUBSET Values]]
  BY DEF TypeOK
<1>2. /\ proposals' = [proposals EXCEPT ![h] = stored]
      /\ next_round' = [next_round EXCEPT ![h] = m]
      /\ deciding' = [deciding EXCEPT ![h] = [i \in 1 .. m - next |-> stored[next + i - 1]]]
  BY DEF BufferDeliver
<1>3. proposals'[h] = stored
  BY <1>1, <1>2
<1>4. /\ m \in next .. NumRounds
      /\ \A i \in next .. m - 1 : stored[i] # {}
      /\ m = NumRounds \/ stored[m] = {}
  BY <1>1, FirstMissingFound
<1>5. proposals' = [proposals EXCEPT ![h][r] = D]
  BY <1>2
<1>6. [i \in 1 .. m - next |-> stored[next + i - 1]]
        = [i \in 1 .. m - next |-> proposals'[h][next + i - 1]]
  BY <1>3
<1> HIDE DEF stored, m
<1> QED
  BY <1>2, <1>3, <1>4, <1>5, <1>6

\* The released sets are a sequence.
LEMMA BufferType ==
  ASSUME TypeOK, NEW h \in Hosts, NEW r \in Rounds, NEW D \in SUBSET Values,
         BufferDeliver(h, r, D)
  PROVE  /\ proposals' \in [Hosts -> [Rounds -> SUBSET Values]]
         /\ next_round' \in [Hosts -> 0 .. NumRounds]
         /\ deciding' \in [Hosts -> Seq(SUBSET Values)]
<1>1. PICK m \in next_round[h] .. NumRounds :
        /\ next_round' = [next_round EXCEPT ![h] = m]
        /\ deciding' = [deciding EXCEPT ![h] =
             [i \in 1 .. m - next_round[h] |-> proposals'[h][next_round[h] + i - 1]]]
  BY BufferStep
<1>2. proposals' = [proposals EXCEPT ![h][r] = D]
  BY BufferStep
<1>3. proposals' \in [Hosts -> [Rounds -> SUBSET Values]]
  BY <1>2 DEF TypeOK
<1>4. m \in 0 .. NumRounds /\ next_round[h] \in 0 .. NumRounds
  BY LatticeAssumption DEF TypeOK
<1>5. [i \in 1 .. m - next_round[h] |-> proposals'[h][next_round[h] + i - 1]] \in Seq(SUBSET Values)
  <2>1. m - next_round[h] \in Nat
    BY <1>4
  <2>2. \A i \in 1 .. m - next_round[h] : next_round[h] + i - 1 \in Rounds
    <3>1. NumRounds \in Nat
      BY LatticeAssumption
    <3> HIDE <1>1, <1>2
    <3> QED
      BY <1>4, <3>1 DEF Rounds
  <2>3. \A i \in 1 .. m - next_round[h] : proposals'[h][next_round[h] + i - 1] \in SUBSET Values
    BY <1>3, <2>2
  <2> QED
    BY <2>1, <2>3
<1> QED
  BY <1>1, <1>3, <1>4, <1>5 DEF TypeOK

-----------------------------------------------------------------------------
(***************************************************************************)
(* Types.                                                                  *)
(***************************************************************************)

LEMMA TypeInit == Init => TypeOK
BY LatticeAssumption DEF Init, TypeOK

\* The messages of a proposal.
LEMMA BroadcastType ==
  ASSUME TypeOK, NEW h \in Hosts, NEW r \in Rounds, NEW P \in SUBSET Values
  PROVE  Broadcast(h, r, P) \subseteq Message
<1>1. active_proposal_number[h][r] + 1 \in Nat \ {0}
  BY DEF TypeOK
<1> HIDE DEF TypeOK
<1> QED
  BY <1>1, MessageType DEF Broadcast

LEMMA ProposeType ==
  ASSUME TypeOK, NEW h \in Hosts, NEW r \in Rounds, NEW P \in SUBSET Values, propose(h, r, P)
  PROVE  /\ active' \in [Hosts -> [Rounds -> BOOLEAN]]
         /\ ack_count' \in [Hosts -> [Rounds -> Nat]]
         /\ nack_count' \in [Hosts -> [Rounds -> Nat]]
         /\ active_proposal_number' \in [Hosts -> [Rounds -> Nat]]
         /\ active_proposal' \in [Hosts -> [Rounds -> SUBSET Values]]
<1>1. /\ active' \in [Hosts -> [Rounds -> BOOLEAN]]
      /\ active_proposal' \in [Hosts -> [Rounds -> SUBSET Values]]
  BY DEF TypeOK, propose
<1>2. /\ ack_count' \in [Hosts -> [Rounds -> Nat]]
      /\ nack_count' \in [Hosts -> [Rounds -> Nat]]
  BY DEF TypeOK, propose
<1>3. active_proposal_number' \in [Hosts -> [Rounds -> Nat]]
  BY DEF TypeOK, propose
<1> QED
  BY <1>1, <1>2, <1>3

\* The round and the set of a proposal of the main thread.
LEMMA ProposalType ==
  ASSUME TypeOK, NEW h \in Hosts, proposed[h] < Len(Proposals[h])
  PROVE  /\ proposed[h] \in Rounds /\ proposed[h] \in Nat /\ Len(Proposals[h]) \in Nat
         /\ proposed[h] + 1 \in DOMAIN Proposals[h]
         /\ Proposals[h][proposed[h] + 1] \in SUBSET Values
<1>1. /\ proposed[h] \in Nat
      /\ Proposals[h] \in Seq(SUBSET Values)
      /\ Len(Proposals[h]) \in Nat
      /\ Len(Proposals[h]) <= NumRounds
      /\ NumRounds \in Nat
  BY LatticeAssumption DEF TypeOK
<1>2. proposed[h] \in Rounds /\ proposed[h] + 1 \in 1 .. Len(Proposals[h])
  BY <1>1 DEF Rounds
<1> QED
  BY <1>1, <1>2

LEMMA TypeStep == TypeOK /\ [Next]_vars => TypeOK'
<1> SUFFICES ASSUME TypeOK, [Next]_vars PROVE TypeOK'
  OBVIOUS
<1>1. ASSUME NEW h \in Hosts, ProposeRound(h) PROVE TypeOK'
  <2> DEFINE r == proposed[h]
             P == Proposals[h][r + 1]
  <2>1. /\ r \in Rounds /\ P \in SUBSET Values
        /\ r + 1 \in 0 .. NumRounds
    BY <1>1, ProposalType, LatticeAssumption DEF ProposeRound, Rounds
  <2>2. /\ propose(h, r, P)
        /\ proposed' = [proposed EXCEPT ![h] = r + 1]
        /\ transit' = transit \cup Broadcast(h, r, P)
        /\ UNCHANGED <<acceptor, buffer, output, stopped>>
    BY <1>1 DEF ProposeRound
  <2>3. transit' \subseteq Message
    BY <2>1, <2>2, BroadcastType DEF TypeOK
  <2>4. proposed' \in [Hosts -> 0 .. NumRounds]
    BY <2>1, <2>2 DEF TypeOK
  <2> HIDE DEF r, P
  <2> QED
    BY <2>1, <2>2, <2>3, <2>4, ProposeType DEF TypeOK, acceptor, buffer
<1>2. ASSUME NEW h \in Hosts, LaDecide(h) PROVE TypeOK'
  <2>1. /\ deciding[h] \in Seq(SUBSET Values) /\ deciding[h] # <<>>
        /\ output[h] \in Seq(SUBSET Values)
    BY <1>2 DEF TypeOK, LaDecide
  <2>2. Head(deciding[h]) \in SUBSET Values /\ Tail(deciding[h]) \in Seq(SUBSET Values)
    BY <2>1
  <2>3. Append(output[h], Head(deciding[h])) \in Seq(SUBSET Values)
    BY <2>1, <2>2
  <2> QED
    BY <1>2, <2>2, <2>3 DEF TypeOK, LaDecide, proposer, acceptor
<1>3. ASSUME NEW h \in Hosts, Stop(h) PROVE TypeOK'
  BY <1>3 DEF TypeOK, Stop, proposer, acceptor, buffer
<1>4. ASSUME NEW h \in Hosts, NEW pm \in transit, Accept(h, pm) PROVE TypeOK'
  <2>1. create_ack(pm) \in Message
    BY MessageFields, MessageType DEF create_ack
  <2>2. transit' \subseteq Message
    BY <1>4, <2>1 DEF TypeOK, Accept
  <2>3. pm.round \in Rounds /\ pm.proposal \in SUBSET Values
    BY MessageFields
  <2>4. accepted_proposal' \in [Hosts -> [Rounds -> SUBSET Values]]
    BY <1>4, <2>3 DEF TypeOK, Accept
  <2>5. accepts' \in [Hosts -> [Rounds -> SUBSET SUBSET Values]]
    BY <1>4, <2>3 DEF TypeOK, Accept
  <2>6. UNCHANGED <<proposed, proposer, buffer, output, stopped>>
    BY <1>4 DEF Accept, Receives
  <2> QED
    BY <2>2, <2>4, <2>5, <2>6 DEF TypeOK, proposer, buffer
<1>5. ASSUME NEW h \in Hosts, NEW pm \in transit, Reject(h, pm) PROVE TypeOK'
  <2> DEFINE P == accepted_proposal[h][pm.round] \cup pm.proposal
  <2>1. pm.round \in Rounds /\ P \in SUBSET Values
    BY MessageFields DEF TypeOK
  <2>2. create_nack(pm, P) \in Message
    BY <2>1, MessageFields, MessageType DEF create_nack
  <2>3. transit' \subseteq Message
    BY <1>5, <2>2 DEF TypeOK, Reject
  <2>4. accepted_proposal' = [accepted_proposal EXCEPT ![h][pm.round] = P]
    BY <1>5 DEF Reject
  <2> HIDE DEF P
  <2>5. accepted_proposal' \in [Hosts -> [Rounds -> SUBSET Values]]
    BY <2>1, <2>4 DEF TypeOK
  <2>6. UNCHANGED <<proposed, accepts, proposer, buffer, output, stopped>>
    BY <1>5 DEF Reject, Receives
  <2> QED
    BY <2>3, <2>5, <2>6 DEF TypeOK, proposer, buffer
<1>6. ASSUME NEW h \in Hosts, NEW pm \in transit, CountAck(h, pm) \/ CountNack(h, pm) PROVE TypeOK'
  <2>1. PICK acks \in Nat, nacks \in Nat, P \in SUBSET Values :
          ProposeAgain(h, pm, acks, nacks, P) \/ Settle(h, pm, acks, nacks, P)
    BY <1>6, CountStep
  <2>2. /\ UNCHANGED <<proposed, output, stopped>>
        /\ UNCHANGED acceptor
    BY <1>6, SettleStep DEF Receives
  <2>3. pm.round \in Rounds /\ pm.proposal \in SUBSET Values
    BY MessageFields
  <2>4. CASE ProposeAgain(h, pm, acks, nacks, P)
    <3>1. propose(h, pm.round, P) /\ UNCHANGED buffer
      BY <2>4 DEF ProposeAgain
    <3>2. transit' \subseteq Message
      BY <2>3, <2>4, BroadcastType DEF TypeOK, ProposeAgain
    <3> QED
      BY <2>2, <2>3, <3>1, <3>2, ProposeType DEF TypeOK, acceptor, buffer
  <2>5. CASE Settle(h, pm, acks, nacks, P)
    <3>1. /\ transit' \subseteq Message
          /\ ack_count' \in [Hosts -> [Rounds -> Nat]]
          /\ nack_count' \in [Hosts -> [Rounds -> Nat]]
          /\ active_proposal' \in [Hosts -> [Rounds -> SUBSET Values]]
          /\ active_proposal_number' \in [Hosts -> [Rounds -> Nat]]
      BY <2>3, <2>5 DEF TypeOK, Settle
    <3>2. /\ active' \in [Hosts -> [Rounds -> BOOLEAN]]
          /\ proposals' \in [Hosts -> [Rounds -> SUBSET Values]]
          /\ next_round' \in [Hosts -> 0 .. NumRounds]
          /\ deciding' \in [Hosts -> Seq(SUBSET Values)]
      <4>1. CASE Decide(h, pm, acks, nacks)
        BY <2>3, <4>1, BufferType DEF Decide, TypeOK
      <4>2. CASE Wait(h, pm, acks, nacks)
        BY <4>2 DEF Wait, TypeOK, buffer
      <4> QED
        BY <2>5, <4>1, <4>2 DEF Settle
    <3> QED
      BY <2>2, <3>1, <3>2 DEF TypeOK, acceptor
  <2> QED
    BY <2>1, <2>4, <2>5
<1>7. ASSUME NEW h \in Hosts, NEW pm \in transit, Ignore(h, pm) PROVE TypeOK'
  BY <1>7 DEF TypeOK, Ignore, Receives, proposer, acceptor, buffer
<1>8. CASE UNCHANGED vars
  BY <1>8 DEF TypeOK, vars, proposer, acceptor, buffer
<1> QED
  BY <1>1, <1>2, <1>3, <1>4, <1>5, <1>6, <1>7, <1>8, StepCases

-----------------------------------------------------------------------------
(***************************************************************************)
(* Rounds, buffer and acceptor.                                            *)
(***************************************************************************)

LEMMA RoundInit == Init => RoundInv
BY LatticeAssumption DEF Init, RoundInv

\* The variables of a round are those of one round of one host.
Elsewhere(h, r, f, old) ==
  \A g \in Hosts : \A k \in Rounds : g # h \/ k # r => f[g][k] = old[g][k]

LEMMA ExceptRound ==
  ASSUME NEW S, NEW old \in [Hosts -> [Rounds -> S]], NEW h \in Hosts, NEW r \in Rounds, NEW v,
         NEW f, f = [old EXCEPT ![h][r] = v]
  PROVE  f[h][r] = v /\ Elsewhere(h, r, f, old)
BY DEF Elsewhere

LEMMA RoundStep == TypeOK /\ RoundInv /\ [Next]_vars => RoundInv'
<1> SUFFICES ASSUME TypeOK, RoundInv, [Next]_vars PROVE RoundInv'
  OBVIOUS
<1>0. /\ active \in [Hosts -> [Rounds -> BOOLEAN]]
      /\ proposals \in [Hosts -> [Rounds -> SUBSET Values]]
      /\ active_proposal_number \in [Hosts -> [Rounds -> Nat]]
      /\ proposed \in [Hosts -> 0 .. NumRounds]
      /\ Rounds \subseteq Nat
  BY DEF TypeOK, Rounds
<1> HIDE DEF TypeOK
<1>1. ASSUME NEW h \in Hosts, ProposeRound(h) PROVE RoundInv'
  <2> DEFINE r == proposed[h]
             n == active_proposal_number[h][r] + 1
  <2>1. /\ r \in Rounds
        /\ r < Len(Proposals[h])
        /\ r \in Nat /\ Len(Proposals[h]) \in Nat
    BY <1>1, ProposalType DEF ProposeRound
  <2>2. /\ proposed' = [proposed EXCEPT ![h] = r + 1]
        /\ active' = [active EXCEPT ![h][r] = TRUE]
        /\ active_proposal_number' = [active_proposal_number EXCEPT ![h][r] = n]
        /\ UNCHANGED proposals
    BY <1>1 DEF ProposeRound, propose, buffer
  <2>3. proposals[h][r] = {}
    BY <2>1 DEF RoundInv
  <2> HIDE DEF r, n
  <2>4. /\ Elsewhere(h, r, active', active)
        /\ Elsewhere(h, r, active_proposal_number', active_proposal_number)
    BY <1>0, <2>1, <2>2, ExceptRound
  <2>5. ASSUME NEW g \in Hosts
        PROVE  proposed'[g] = IF g = h THEN r + 1 ELSE proposed[g]
    BY <1>0, <2>2
  <2>6. ASSUME NEW g \in Hosts PROVE proposed'[g] <= Len(Proposals[g])
    BY <2>1, <2>5 DEF RoundInv
  <2>7. ASSUME NEW g \in Hosts, NEW k \in Rounds, g # h \/ k # r
        PROVE  /\ active'[g][k] => proposals'[g][k] = {}
               /\ k >= proposed'[g] =>
                    ~active'[g][k] /\ proposals'[g][k] = {} /\ active_proposal_number'[g][k] = 0
    BY <1>0, <2>1, <2>2, <2>4, <2>5, <2>7 DEF RoundInv, Elsewhere, r
  <2>8. /\ active'[h][r] => proposals'[h][r] = {}
        /\ ~(r >= proposed'[h])
    BY <2>1, <2>2, <2>3, <2>5
  <2> QED
    BY <2>6, <2>7, <2>8 DEF RoundInv
<1>2. ASSUME NEW h \in Hosts, NEW pm \in transit, CountAck(h, pm) \/ CountNack(h, pm) PROVE RoundInv'
  <2> DEFINE r == pm.round
  <2>1. PICK acks \in Nat, nacks \in Nat, P \in SUBSET Values :
          ProposeAgain(h, pm, acks, nacks, P) \/ Settle(h, pm, acks, nacks, P)
    BY <1>2, CountStep
  <2>2. UNCHANGED proposed /\ r \in Rounds /\ pm.proposal \in SUBSET Values
    BY <1>2, SettleStep, MessageFields DEF Receives
  <2>3. CASE ProposeAgain(h, pm, acks, nacks, P)
    <3>1. /\ active[h][r]
          /\ active' = [active EXCEPT ![h][r] = TRUE]
          /\ active_proposal_number' =
               [active_proposal_number EXCEPT ![h][r] = active_proposal_number[h][r] + 1]
          /\ UNCHANGED proposals
      BY <2>3 DEF ProposeAgain, ReProposes, propose, buffer
    <3> HIDE DEF r
    <3>2. Elsewhere(h, r, active', active)
      BY <1>0, <2>2, <3>1, ExceptRound
    <3>3. Elsewhere(h, r, active_proposal_number', active_proposal_number)
      BY <1>0, <2>2, <3>1, ExceptRound
    <3> QED
      BY <2>2, <3>1, <3>2, <3>3 DEF RoundInv, Elsewhere
  <2>4. CASE Settle(h, pm, acks, nacks, P) /\ Decide(h, pm, acks, nacks)
    <3>1. /\ active[h][r]
          /\ active' = [active EXCEPT ![h][r] = FALSE]
          /\ proposals' = [proposals EXCEPT ![h][r] = pm.proposal]
          /\ UNCHANGED active_proposal_number
      BY <2>2, <2>4, BufferStep DEF Decide, Decides, Settle
    <3>2. active'[h][r] = FALSE /\ Elsewhere(h, r, active', active)
      BY <1>0, <2>2, <3>1, ExceptRound
    <3>3. Elsewhere(h, r, proposals', proposals)
      BY <1>0, <2>2, <3>1, ExceptRound
    <3> HIDE DEF r
    <3> QED
      BY <2>2, <3>1, <3>2, <3>3 DEF RoundInv, Elsewhere
  <2>5. CASE Settle(h, pm, acks, nacks, P) /\ Wait(h, pm, acks, nacks)
    BY <2>2, <2>5 DEF RoundInv, Settle, Wait, buffer
  <2> QED
    BY <2>1, <2>3, <2>4, <2>5 DEF Settle
<1>3. CASE UNCHANGED <<proposed, active, proposals, active_proposal_number>>
  BY <1>3 DEF RoundInv
<1>4. ASSUME NEW h \in Hosts, LaDecide(h) \/ Stop(h)
      PROVE  UNCHANGED <<proposed, active, proposals, active_proposal_number>>
  BY <1>4 DEF LaDecide, Stop, proposer, buffer
<1>5. ASSUME NEW h \in Hosts, NEW pm \in transit, Accept(h, pm) \/ Reject(h, pm) \/ Ignore(h, pm)
      PROVE  UNCHANGED <<proposed, active, proposals, active_proposal_number>>
  BY <1>5 DEF Accept, Reject, Ignore, Receives, proposer, buffer
<1> QED
  BY <1>1, <1>2, <1>3, <1>4, <1>5, StepCases DEF vars, proposer, buffer

LEMMA BufferInit == Init => BufferInv
BY LatticeAssumption DEF Init, BufferInv, Released

\* The buffer takes a set for a round it has not released yet.
LEMMA BufferInvDeliver ==
  ASSUME TypeOK, RoundInv, BufferInv, NEW h \in Hosts, NEW r \in Rounds, NEW D \in SUBSET Values,
         active[h][r], deciding[h] = <<>>, BufferDeliver(h, r, D), UNCHANGED output
  PROVE  BufferInv'
<1> DEFINE next == next_round[h]
           released == output[h]
<1>1. PICK m \in next .. NumRounds :
        /\ next_round' = [next_round EXCEPT ![h] = m]
        /\ \A i \in next .. m - 1 : proposals'[h][i] # {}
        /\ deciding' = [deciding EXCEPT ![h] =
             [i \in 1 .. m - next |-> proposals'[h][next + i - 1]]]
  BY BufferStep
<1>2. proposals' = [proposals EXCEPT ![h][r] = D]
  BY BufferStep
<1>3. /\ next \in 0 .. NumRounds /\ NumRounds \in Nat /\ r \in Nat
      /\ 0 .. next - 1 \subseteq Rounds
  BY LatticeAssumption DEF TypeOK, Rounds
<1>4. /\ released \in Seq(SUBSET Values)
      /\ proposals \in [Hosts -> [Rounds -> SUBSET Values]]
  BY DEF TypeOK
<1>5. /\ Len(released) = next
      /\ \A i \in 0 .. next - 1 : proposals[h][i] # {}
      /\ \A k \in DOMAIN released : released[k] = proposals[h][k - 1]
  <2>1. Released(h)
    BY DEF BufferInv
  <2>2. Len(deciding[h]) = 0 /\ Len(released) \in Nat
    BY <1>4
  <2> QED
    BY <1>3, <2>1, <2>2 DEF Released
<1>6. proposals[h][r] = {}
  BY DEF RoundInv
<1>7. /\ \A i \in 0 .. next - 1 : proposals'[h][i] = proposals[h][i]
      /\ \A g \in Hosts : g # h => proposals'[g] = proposals[g]
  BY <1>2, <1>3, <1>4, <1>5, <1>6
<1>8. Released(h)'
  <2> DEFINE new == deciding'[h]
  <2>1. /\ next_round'[h] = m
        /\ new = [i \in 1 .. m - next |-> proposals'[h][next + i - 1]]
        /\ output'[h] = released
    BY <1>1 DEF TypeOK
  <2>2. m - next \in Nat /\ m \in Nat
    BY <1>3
  <2>3. /\ Len(new) = m - next /\ DOMAIN new = 1 .. m - next
        /\ \A k \in DOMAIN new : new[k] = proposals'[h][next + k - 1]
    BY <2>1, <2>2
  <2>4. \A i \in 0 .. m - 1 : proposals'[h][i] # {}
    <3> SUFFICES ASSUME NEW i \in 0 .. m - 1 PROVE proposals'[h][i] # {}
      OBVIOUS
    <3>1. i \in 0 .. next - 1 \/ i \in next .. m - 1
      BY <1>3, <2>2
    <3> QED
      BY <1>1, <1>5, <1>7, <3>1
  <2>5. \A k \in DOMAIN released : k - 1 \in 0 .. next - 1
    BY <1>3, <1>4, <1>5
  <2>6. \A k \in DOMAIN released : released[k] = proposals'[h][k - 1]
    BY <1>5, <1>7, <2>5
  <2>7. Len(released) + Len(new) = m
    BY <1>3, <1>5, <2>2, <2>3
  <2>8. \A k \in DOMAIN new : new[k] = proposals'[h][Len(released) + k - 1]
    BY <1>5, <2>3
  <2> HIDE DEF new, released
  <2> QED
    BY <2>1, <2>4, <2>6, <2>7, <2>8 DEF Released, new
<1>9. ASSUME NEW g \in Hosts, g # h PROVE Released(g)'
  <2>1. next_round'[g] = next_round[g] /\ deciding'[g] = deciding[g]
    BY <1>1, <1>9 DEF TypeOK
  <2>2. proposals'[g] = proposals[g] /\ output'[g] = output[g]
    BY <1>7, <1>9
  <2>3. Released(g)
    BY DEF BufferInv
  <2> QED
    BY <2>1, <2>2, <2>3 DEF Released
<1> QED
  BY <1>8, <1>9 DEF BufferInv

LEMMA BufferInvStep == TypeOK /\ RoundInv /\ BufferInv /\ [Next]_vars => BufferInv'
<1> SUFFICES ASSUME TypeOK, RoundInv, BufferInv, [Next]_vars PROVE BufferInv'
  OBVIOUS
<1>1. ASSUME NEW h \in Hosts, LaDecide(h) PROVE BufferInv'
  <2> DEFINE lines == output[h]
             waiting == deciding[h]
             D == Head(waiting)
  <2>1. /\ lines \in Seq(SUBSET Values)
        /\ waiting \in Seq(SUBSET Values)
        /\ waiting # <<>>
    BY <1>1 DEF TypeOK, LaDecide
  <2>2. /\ output' = [output EXCEPT ![h] = Append(lines, D)]
        /\ deciding' = [deciding EXCEPT ![h] = Tail(waiting)]
        /\ UNCHANGED <<proposals, next_round>>
    BY <1>1 DEF LaDecide
  <2>3. /\ output'[h] = Append(lines, D)
        /\ deciding'[h] = Tail(waiting)
        /\ \A g \in Hosts : g # h => output'[g] = output[g] /\ deciding'[g] = deciding[g]
    BY <2>2 DEF TypeOK
  <2>4. /\ Len(lines) + Len(waiting) = next_round[h]
        /\ \A k \in DOMAIN lines : lines[k] = proposals[h][k - 1]
        /\ \A k \in DOMAIN waiting : waiting[k] = proposals[h][Len(lines) + k - 1]
    BY DEF BufferInv, Released
  <2> DEFINE more == Append(lines, D)
             rest == Tail(waiting)
  <2>5. /\ Len(more) = Len(lines) + 1
        /\ DOMAIN more = 1 .. Len(lines) + 1
        /\ \A k \in 1 .. Len(lines) : more[k] = lines[k]
        /\ more[Len(lines) + 1] = D
    BY <2>1
  <2>6. /\ Len(rest) = Len(waiting) - 1
        /\ DOMAIN rest = 1 .. Len(waiting) - 1
        /\ \A k \in 1 .. Len(waiting) - 1 : rest[k] = waiting[k + 1]
        /\ D = waiting[1]
    BY <2>1
  <2>7. /\ Len(lines) \in Nat /\ DOMAIN lines = 1 .. Len(lines)
        /\ Len(waiting) \in Nat \ {0} /\ DOMAIN waiting = 1 .. Len(waiting)
    BY <2>1
  <2> HIDE DEF more, rest, D, lines, waiting
  <2>8. \A k \in DOMAIN more : more[k] = proposals[h][k - 1]
    <3>1. D = proposals[h][Len(lines) + 1 - 1]
      BY <2>4, <2>6, <2>7
    <3>2. ASSUME NEW k \in 1 .. Len(lines) PROVE more[k] = proposals[h][k - 1]
      BY <2>4, <2>5, <2>7
    <3>3. \A k \in DOMAIN more : k \in 1 .. Len(lines) \/ k = Len(lines) + 1
      BY <2>5, <2>7
    <3>4. ASSUME NEW k, k = Len(lines) + 1 PROVE more[k] = proposals[h][k - 1]
      BY <2>5, <3>1, <3>4
    <3> QED
      BY <3>2, <3>3, <3>4
  <2>9. \A k \in DOMAIN rest : rest[k] = proposals[h][Len(more) + k - 1]
    <3> SUFFICES ASSUME NEW k \in DOMAIN rest PROVE rest[k] = proposals[h][Len(more) + k - 1]
      OBVIOUS
    <3>1. rest[k] = waiting[k + 1] /\ k + 1 \in DOMAIN waiting
      BY <2>6, <2>7
    <3>2. waiting[k + 1] = proposals[h][Len(lines) + (k + 1) - 1]
      BY <2>4, <3>1
    <3>3. Len(lines) + (k + 1) - 1 = Len(more) + k - 1
      BY <2>5, <2>6, <2>7
    <3> QED
      BY <3>1, <3>2, <3>3
  <2>10. Len(more) + Len(rest) = next_round[h]
    BY <2>4, <2>5, <2>6, <2>7
  <2>11. Released(h)'
    <3>1. /\ output'[h] = more /\ deciding'[h] = rest
          /\ next_round'[h] = next_round[h] /\ proposals'[h] = proposals[h]
      BY <2>2, <2>3 DEF more, rest
    <3>2. \A r \in 0 .. next_round[h] - 1 : proposals[h][r] # {}
      BY DEF BufferInv, Released
    <3> QED
      BY <2>8, <2>9, <2>10, <3>1, <3>2 DEF Released
  <2>12. ASSUME NEW g \in Hosts, g # h PROVE Released(g)'
    <3>1. /\ output'[g] = output[g] /\ deciding'[g] = deciding[g]
          /\ proposals'[g] = proposals[g] /\ next_round'[g] = next_round[g]
      BY <2>2, <2>3, <2>12
    <3>2. Released(g)
      BY DEF BufferInv
    <3> QED
      BY <3>1, <3>2 DEF Released
  <2> QED
    BY <2>11, <2>12 DEF BufferInv
<1>2. ASSUME NEW h \in Hosts, NEW pm \in transit, CountAck(h, pm) \/ CountNack(h, pm) PROVE BufferInv'
  <2>1. PICK acks \in Nat, nacks \in Nat, P \in SUBSET Values :
          ProposeAgain(h, pm, acks, nacks, P) \/ Settle(h, pm, acks, nacks, P)
    BY <1>2, CountStep
  <2>2. /\ UNCHANGED output /\ deciding[h] = <<>>
        /\ pm.round \in Rounds /\ pm.proposal \in SUBSET Values
    BY <1>2, SettleStep, MessageFields DEF Receives
  <2>3. CASE Decide(h, pm, acks, nacks)
    BY <2>2, <2>3, BufferInvDeliver DEF Decide, Decides
  <2>4. CASE UNCHANGED buffer
    BY <2>2, <2>4 DEF BufferInv, Released, buffer
  <2> QED
    BY <2>1, <2>3, <2>4 DEF ProposeAgain, Settle, Wait
<1>3. CASE UNCHANGED <<buffer, output>>
  BY <1>3 DEF BufferInv, Released, buffer
<1>4. ASSUME NEW h \in Hosts, ProposeRound(h) \/ Stop(h) PROVE UNCHANGED <<buffer, output>>
  BY <1>4 DEF ProposeRound, Stop
<1>5. ASSUME NEW h \in Hosts, NEW pm \in transit, Accept(h, pm) \/ Reject(h, pm) \/ Ignore(h, pm)
      PROVE  UNCHANGED <<buffer, output>>
  BY <1>5 DEF Accept, Reject, Ignore, Receives
<1> QED
  BY <1>1, <1>2, <1>3, <1>4, <1>5, StepCases DEF vars

LEMMA AcceptorInit == Init => AcceptorInv
BY DEF Init, AcceptorInv, AcceptedIsChain

\* The set an acceptor accepts is above all it has accepted before.
LEMMA AcceptStep ==
  ASSUME TypeOK, NEW h \in Hosts, NEW pm \in transit, Accept(h, pm)
  PROVE  /\ pm.round \in Rounds
         /\ accepted_proposal[h][pm.round] \subseteq pm.proposal
         /\ accepted_proposal'[h][pm.round] = pm.proposal
         /\ accepts'[h][pm.round] = accepts[h][pm.round] \cup {pm.proposal}
         /\ Elsewhere(h, pm.round, accepted_proposal', accepted_proposal)
         /\ Elsewhere(h, pm.round, accepts', accepts)
<1> DEFINE r == pm.round
           Ds == accepts[h][r] \cup {pm.proposal}
<1>1. r \in Rounds
  BY MessageFields
<1>2. /\ accepted_proposal \in [Hosts -> [Rounds -> SUBSET Values]]
      /\ accepts \in [Hosts -> [Rounds -> SUBSET SUBSET Values]]
  BY DEF TypeOK
<1>3. /\ accepted_proposal[h][r] \subseteq pm.proposal
      /\ accepted_proposal' = [accepted_proposal EXCEPT ![h][r] = pm.proposal]
      /\ accepts' = [accepts EXCEPT ![h][r] = Ds]
  BY DEF Accept, Acceptable
<1> HIDE DEF r, Ds
<1>4. accepted_proposal'[h][r] = pm.proposal /\ Elsewhere(h, r, accepted_proposal', accepted_proposal)
  BY <1>1, <1>2, <1>3, ExceptRound
<1>5. accepts'[h][r] = Ds /\ Elsewhere(h, r, accepts', accepts)
  BY <1>1, <1>2, <1>3, ExceptRound
<1> QED
  BY <1>1, <1>3, <1>4, <1>5 DEF r, Ds

LEMMA RejectStep ==
  ASSUME TypeOK, NEW h \in Hosts, NEW pm \in transit, Reject(h, pm)
  PROVE  /\ pm.round \in Rounds
         /\ accepted_proposal[h][pm.round] \subseteq accepted_proposal'[h][pm.round]
         /\ Elsewhere(h, pm.round, accepted_proposal', accepted_proposal)
         /\ UNCHANGED accepts
<1> DEFINE r == pm.round
           P == accepted_proposal[h][r] \cup pm.proposal
<1>1. r \in Rounds /\ accepted_proposal[h][r] \subseteq P
  BY MessageFields
<1>2. accepted_proposal \in [Hosts -> [Rounds -> SUBSET Values]]
  BY DEF TypeOK
<1>3. /\ accepted_proposal' = [accepted_proposal EXCEPT ![h][r] = P]
      /\ UNCHANGED accepts
  BY DEF Reject
<1> HIDE DEF r, P
<1>4. accepted_proposal'[h][r] = P /\ Elsewhere(h, r, accepted_proposal', accepted_proposal)
  BY <1>1, <1>2, <1>3, ExceptRound
<1> QED
  BY <1>1, <1>3, <1>4 DEF r, P

\* No other step touches the acceptor.
LEMMA AcceptorSteps ==
  ASSUME [Next]_vars
  PROVE  \/ \E h \in Hosts : \E pm \in transit : Accept(h, pm) \/ Reject(h, pm)
         \/ UNCHANGED <<accepted_proposal, accepts>>
<1>1. ASSUME NEW h \in Hosts, ProposeRound(h) \/ LaDecide(h) \/ Stop(h) PROVE UNCHANGED acceptor
  BY <1>1 DEF ProposeRound, LaDecide, Stop
<1>2. ASSUME NEW h \in Hosts, NEW pm \in transit, CountAck(h, pm) \/ CountNack(h, pm) \/ Ignore(h, pm)
      PROVE  UNCHANGED acceptor
  BY <1>2 DEF CountAck, CountNack, Ignore
<1> QED
  BY <1>1, <1>2, StepCases DEF acceptor, vars

LEMMA AcceptorStep == TypeOK /\ AcceptorInv /\ [Next]_vars => AcceptorInv'
<1> SUFFICES ASSUME TypeOK, AcceptorInv, [Next]_vars PROVE AcceptorInv'
  OBVIOUS
<1>1. ASSUME NEW h \in Hosts, NEW pm \in transit, Accept(h, pm) PROVE AcceptorInv'
  <2> DEFINE r == pm.round
  <2>1. /\ r \in Rounds
        /\ accepted_proposal[h][r] \subseteq pm.proposal
        /\ accepted_proposal'[h][r] = pm.proposal
        /\ accepts'[h][r] = accepts[h][r] \cup {pm.proposal}
        /\ Elsewhere(h, r, accepted_proposal', accepted_proposal)
        /\ Elsewhere(h, r, accepts', accepts)
    BY <1>1, AcceptStep
  <2>2. \A D \in accepts[h][r] : D \subseteq pm.proposal
    BY <2>1 DEF AcceptorInv
  <2> HIDE DEF r
  <2>3. \A D, E \in accepts'[h][r] : Comparable(D, E)
    BY <2>1, <2>2 DEF AcceptorInv, AcceptedIsChain, Comparable
  <2>4. \A D \in accepts'[h][r] : D \subseteq accepted_proposal'[h][r]
    BY <2>1, <2>2
  <2>5. ASSUME NEW g \in Hosts, NEW k \in Rounds, g # h \/ k # r
        PROVE  /\ \A D, E \in accepts'[g][k] : Comparable(D, E)
               /\ \A D \in accepts'[g][k] : D \subseteq accepted_proposal'[g][k]
    BY <2>1, <2>5 DEF AcceptorInv, AcceptedIsChain, Elsewhere
  <2> QED
    BY <2>3, <2>4, <2>5 DEF AcceptorInv, AcceptedIsChain
<1>2. ASSUME NEW h \in Hosts, NEW pm \in transit, Reject(h, pm) PROVE AcceptorInv'
  <2>1. ASSUME NEW g \in Hosts, NEW k \in Rounds
        PROVE  /\ accepted_proposal[g][k] \subseteq accepted_proposal'[g][k]
               /\ accepts'[g][k] = accepts[g][k]
    BY <1>2, RejectStep DEF Elsewhere
  <2> QED
    BY <2>1 DEF AcceptorInv, AcceptedIsChain
<1>3. CASE UNCHANGED <<accepted_proposal, accepts>>
  BY <1>3 DEF AcceptorInv, AcceptedIsChain
<1> QED
  BY <1>1, <1>2, <1>3, AcceptorSteps

\* What has been accepted stays accepted.
LEMMA AcceptsGrow ==
  ASSUME TypeOK, [Next]_vars, NEW h \in Hosts, NEW r \in Rounds
  PROVE  /\ accepts[h][r] \subseteq accepts'[h][r]
         /\ accepted_proposal[h][r] \subseteq accepted_proposal'[h][r]
<1>1. ASSUME NEW g \in Hosts, NEW pm \in transit, Accept(g, pm)
      PROVE  /\ accepts[h][r] \subseteq accepts'[h][r]
             /\ accepted_proposal[h][r] \subseteq accepted_proposal'[h][r]
  BY <1>1, AcceptStep DEF Elsewhere
<1>2. ASSUME NEW g \in Hosts, NEW pm \in transit, Reject(g, pm)
      PROVE  /\ accepts[h][r] \subseteq accepts'[h][r]
             /\ accepted_proposal[h][r] \subseteq accepted_proposal'[h][r]
  BY <1>2, RejectStep DEF Elsewhere
<1> QED
  BY <1>1, <1>2, AcceptorSteps

-----------------------------------------------------------------------------
(***************************************************************************)
(* The steps, by what they do to the exchanges: a host asks for more and   *)
(* drops the answer that made it do so, an acceptor answers, an answer is  *)
(* counted, an answer is dropped, or nothing happens.                      *)
(***************************************************************************)
Asks(h, r, P, old) ==
  /\ propose(h, r, P)
  /\ transit' = (transit \ old) \cup Broadcast(h, r, P)
  /\ \A pm \in old : Proposer(pm) = h /\ pm.round = r
  /\ UNCHANGED acceptor

Answers(h, pm, am) ==
  /\ am \in Message
  /\ SameExchange(am, pm)
  /\ am.type # "Propose"
  /\ am.type = "Ack" => am.proposal \in accepts'[h][pm.round]
  /\ am.type = "Ack" => am.sender = h /\ am.proposal = pm.proposal /\ pm.type = "Propose"
  /\ transit' = (transit \ {pm}) \cup {am}
  /\ UNCHANGED proposer

Counts(h, pm, acks, nacks, P) ==
  /\ pm.type # "Propose"
  /\ pm.receiver = h
  /\ IsCurrent(h, pm)
  /\ acks + nacks = ack_count[h][pm.round] + nack_count[h][pm.round] + 1
  /\ nacks >= nack_count[h][pm.round]
  /\ nacks = 0 => pm.type = "Ack" /\ P = active_proposal[h][pm.round]
  /\ Settle(h, pm, acks, nacks, P)
  /\ UNCHANGED acceptor

Drops(h, pm) ==
  /\ pm.type # "Propose"
  /\ pm.receiver = h
  /\ ~IsCurrent(h, pm)
  /\ transit' = transit \ {pm}
  /\ UNCHANGED <<proposer, acceptor>>

LEMMA StepKinds ==
  ASSUME TypeOK, [Next]_vars
  PROVE  \/ \E h \in Hosts, r \in Rounds, P \in SUBSET Values, old \in SUBSET transit :
              Asks(h, r, P, old)
         \/ \E h \in Hosts, pm \in transit : \E am : Answers(h, pm, am)
         \/ \E h \in Hosts, pm \in transit, acks, nacks \in Nat, P \in SUBSET Values :
              Counts(h, pm, acks, nacks, P)
         \/ \E h \in Hosts, pm \in transit : Drops(h, pm)
         \/ UNCHANGED <<transit, proposer, acceptor>>
<1>1. ASSUME NEW h \in Hosts, ProposeRound(h)
      PROVE  \E r \in Rounds, P \in SUBSET Values, old \in SUBSET transit : Asks(h, r, P, old)
  <2> DEFINE r == proposed[h]
             P == Proposals[h][r + 1]
  <2>1. r \in Rounds /\ P \in SUBSET Values
    BY <1>1, ProposalType DEF ProposeRound
  <2>2. /\ propose(h, r, P)
        /\ transit' = (transit \ {}) \cup Broadcast(h, r, P)
        /\ UNCHANGED acceptor
    BY <1>1 DEF ProposeRound
  <2> HIDE DEF r, P
  <2>3. Asks(h, r, P, {})
    BY <2>2 DEF Asks
  <2> QED
    BY <2>1, <2>3
<1>2. ASSUME NEW h \in Hosts, LaDecide(h) \/ Stop(h)
      PROVE  UNCHANGED <<transit, proposer, acceptor>>
  BY <1>2 DEF LaDecide, Stop
<1>3. ASSUME NEW h \in Hosts, NEW pm \in transit, Accept(h, pm)
      PROVE  \E am : Answers(h, pm, am)
  <2> DEFINE am == create_ack(pm)
  <2>1. /\ pm.type = "Propose" /\ pm.receiver = h
        /\ transit' = (transit \ {pm}) \cup {am}
        /\ UNCHANGED proposer
    BY <1>3 DEF Accept, Receives
  <2>2. /\ am.type = "Ack" /\ am.sender = h /\ am.receiver = pm.sender /\ am.round = pm.round
        /\ am.proposal = pm.proposal /\ am.proposal_number = pm.proposal_number
    BY <2>1 DEF create_ack, ProposalMessage
  <2>3. SameExchange(am, pm)
    BY <2>1, <2>2 DEF SameExchange, Proposer, Acceptor
  <2>4. pm.proposal \in accepts'[h][pm.round]
    BY <1>3, AcceptStep
  <2>5. am \in Message
    BY MessageFields, MessageType DEF create_ack
  <2> HIDE DEF am
  <2>6. Answers(h, pm, am)
    BY <2>1, <2>2, <2>3, <2>4, <2>5 DEF Answers
  <2> QED
    BY <2>6
<1>4. ASSUME NEW h \in Hosts, NEW pm \in transit, Reject(h, pm)
      PROVE  \E am : Answers(h, pm, am)
  <2> DEFINE P == accepted_proposal[h][pm.round] \cup pm.proposal
             am == create_nack(pm, P)
  <2>1. /\ pm.type = "Propose" /\ pm.receiver = h
        /\ transit' = (transit \ {pm}) \cup {am}
        /\ UNCHANGED proposer
    BY <1>4 DEF Reject, Receives
  <2>2. /\ am.type = "Nack" /\ am.sender = h /\ am.receiver = pm.sender /\ am.round = pm.round
        /\ am.proposal_number = pm.proposal_number
    BY <2>1 DEF create_nack, ProposalMessage
  <2>3. SameExchange(am, pm)
    BY <2>1, <2>2 DEF SameExchange, Proposer, Acceptor
  <2>4. P \in SUBSET Values
    BY MessageFields DEF TypeOK
  <2>5. am \in Message
    BY <2>4, MessageFields, MessageType DEF create_nack
  <2> HIDE DEF am
  <2>6. Answers(h, pm, am)
    BY <2>1, <2>2, <2>3, <2>5 DEF Answers
  <2> QED
    BY <2>6
<1>5. ASSUME NEW h \in Hosts, NEW pm \in transit, CountAck(h, pm) \/ CountNack(h, pm)
      PROVE  \/ \E r \in Rounds, P \in SUBSET Values, old \in SUBSET transit : Asks(h, r, P, old)
             \/ \E acks, nacks \in Nat, P \in SUBSET Values : Counts(h, pm, acks, nacks, P)
  <2>1. PICK acks \in Nat, nacks \in Nat, P \in SUBSET Values :
           /\ acks + nacks = ack_count[h][pm.round] + nack_count[h][pm.round] + 1
           /\ nacks >= nack_count[h][pm.round]
           /\ nacks = 0 => pm.type = "Ack" /\ P = active_proposal[h][pm.round]
           /\ ProposeAgain(h, pm, acks, nacks, P) \/ Settle(h, pm, acks, nacks, P)
    BY <1>5, CountStep
  <2>2. /\ pm.type # "Propose" /\ pm.receiver = h /\ pm.round \in Rounds
        /\ IsCurrent(h, pm)
        /\ UNCHANGED acceptor
    BY <1>5, SettleStep, MessageFields DEF Receives
  <2>3. CASE ProposeAgain(h, pm, acks, nacks, P)
    <3>1. Asks(h, pm.round, P, {pm})
      BY <2>2, <2>3 DEF ProposeAgain, Asks, Proposer
    <3> QED
      BY <2>2, <3>1
  <2>4. CASE Settle(h, pm, acks, nacks, P)
    <3>1. Counts(h, pm, acks, nacks, P)
      BY <2>1, <2>2, <2>4 DEF Counts
    <3> QED
      BY <3>1
  <2> QED
    BY <2>1, <2>3, <2>4
<1>6. ASSUME NEW h \in Hosts, NEW pm \in transit, Ignore(h, pm) PROVE Drops(h, pm)
  BY <1>6 DEF Ignore, Drops, Receives
<1>7. CASE UNCHANGED vars
  BY <1>7 DEF vars
<1>8. CASE \E h \in Hosts : ProposeRound(h) \/ LaDecide(h) \/ Stop(h)
  BY <1>1, <1>2, <1>8
<1>9. CASE \E h \in Hosts : \E pm \in transit : Accept(h, pm) \/ Reject(h, pm)
  BY <1>3, <1>4, <1>9
<1>10. CASE \E h \in Hosts : \E pm \in transit : CountAck(h, pm) \/ CountNack(h, pm)
  BY <1>5, <1>10
<1>11. CASE \E h \in Hosts : \E pm \in transit : Ignore(h, pm)
  BY <1>6, <1>11
<1> QED
  BY <1>7, <1>8, <1>9, <1>10, <1>11, StepCases

\* What propose(h, r, P) does to the variables of the rounds.
LEMMA AskStep ==
  ASSUME TypeOK, NEW h \in Hosts, NEW r \in Rounds, NEW P \in SUBSET Values, propose(h, r, P)
  PROVE  /\ active_proposal_number'[h][r] = active_proposal_number[h][r] + 1
         /\ active_proposal'[h][r] = P
         /\ ack_count'[h][r] = 0 /\ nack_count'[h][r] = 0
         /\ Elsewhere(h, r, active_proposal_number', active_proposal_number)
         /\ Elsewhere(h, r, active_proposal', active_proposal)
         /\ Elsewhere(h, r, ack_count', ack_count)
         /\ Elsewhere(h, r, nack_count', nack_count)
<1> DEFINE n == active_proposal_number[h][r] + 1
<1>1. /\ ack_count \in [Hosts -> [Rounds -> Nat]]
      /\ nack_count \in [Hosts -> [Rounds -> Nat]]
      /\ active_proposal_number \in [Hosts -> [Rounds -> Nat]]
      /\ active_proposal \in [Hosts -> [Rounds -> SUBSET Values]]
  BY DEF TypeOK
<1>2. /\ ack_count' = [ack_count EXCEPT ![h][r] = 0]
      /\ nack_count' = [nack_count EXCEPT ![h][r] = 0]
      /\ active_proposal_number' = [active_proposal_number EXCEPT ![h][r] = n]
      /\ active_proposal' = [active_proposal EXCEPT ![h][r] = P]
  BY DEF propose
<1> HIDE DEF n
<1>3. ack_count'[h][r] = 0 /\ Elsewhere(h, r, ack_count', ack_count)
  BY <1>1, <1>2, ExceptRound
<1>4. nack_count'[h][r] = 0 /\ Elsewhere(h, r, nack_count', nack_count)
  BY <1>1, <1>2, ExceptRound
<1>5. /\ active_proposal_number'[h][r] = n
      /\ Elsewhere(h, r, active_proposal_number', active_proposal_number)
  BY <1>1, <1>2, ExceptRound
<1>6. active_proposal'[h][r] = P /\ Elsewhere(h, r, active_proposal', active_proposal)
  BY <1>1, <1>2, ExceptRound
<1> QED
  BY <1>3, <1>4, <1>5, <1>6 DEF n

\* What counting an answer does to them.
LEMMA CountsStep ==
  ASSUME TypeOK, NEW h \in Hosts, NEW pm \in transit, NEW acks, NEW nacks, NEW P,
         Settle(h, pm, acks, nacks, P)
  PROVE  /\ active_proposal'[h][pm.round] = P
         /\ ack_count'[h][pm.round] = acks /\ nack_count'[h][pm.round] = nacks
         /\ Elsewhere(h, pm.round, active_proposal', active_proposal)
         /\ Elsewhere(h, pm.round, ack_count', ack_count)
         /\ Elsewhere(h, pm.round, nack_count', nack_count)
<1> DEFINE r == pm.round
<1>1. /\ ack_count \in [Hosts -> [Rounds -> Nat]]
      /\ nack_count \in [Hosts -> [Rounds -> Nat]]
      /\ active_proposal \in [Hosts -> [Rounds -> SUBSET Values]]
  BY DEF TypeOK
<1>2. /\ ack_count' = [ack_count EXCEPT ![h][r] = acks]
      /\ nack_count' = [nack_count EXCEPT ![h][r] = nacks]
      /\ active_proposal' = [active_proposal EXCEPT ![h][r] = P]
      /\ r \in Rounds
  BY MessageFields DEF Settle
<1> HIDE DEF r
<1>3. ack_count'[h][r] = acks /\ Elsewhere(h, r, ack_count', ack_count)
  BY <1>1, <1>2, ExceptRound
<1>4. nack_count'[h][r] = nacks /\ Elsewhere(h, r, nack_count', nack_count)
  BY <1>1, <1>2, ExceptRound
<1>5. active_proposal'[h][r] = P /\ Elsewhere(h, r, active_proposal', active_proposal)
  BY <1>1, <1>2, ExceptRound
<1> QED
  BY <1>3, <1>4, <1>5 DEF r

-----------------------------------------------------------------------------
(***************************************************************************)
(* Exchanges.                                                              *)
(***************************************************************************)
LEMMA BroadcastFields ==
  ASSUME NEW h, NEW r, NEW P, NEW pm \in Broadcast(h, r, P)
  PROVE  /\ pm.type = "Propose"
         /\ pm.round = r
         /\ pm.proposal_number = active_proposal_number[h][r] + 1
         /\ pm.proposal = P
         /\ Proposer(pm) = h
         /\ Acceptor(pm) \in Hosts
         /\ pm = ProposalMessage("Propose", r, active_proposal_number[h][r] + 1, P, h, Acceptor(pm))
<1>1. PICK g \in Hosts :
        pm = ProposalMessage("Propose", r, active_proposal_number[h][r] + 1, P, h, g)
  BY DEF Broadcast
<1>2. pm.type = "Propose" /\ pm.sender = h /\ pm.receiver = g
  BY <1>1 DEF ProposalMessage
<1> QED
  BY <1>1, <1>2 DEF ProposalMessage, Proposer, Acceptor

LEMMA BroadcastCovers ==
  ASSUME NEW h, NEW r, NEW P, NEW g \in Hosts
  PROVE  \E pm \in Broadcast(h, r, P) : Acceptor(pm) = g
<1> DEFINE pm == ProposalMessage("Propose", r, active_proposal_number[h][r] + 1, P, h, g)
<1>1. pm \in Broadcast(h, r, P)
  BY DEF Broadcast
<1>2. Acceptor(pm) = g
  BY DEF ProposalMessage, Acceptor
<1> QED
  BY <1>1, <1>2

LEMMA ExchangeFields ==
  ASSUME TypeOK, NEW pm \in transit
  PROVE  /\ Proposer(pm) \in Hosts /\ Acceptor(pm) \in Hosts /\ pm.round \in Rounds
         /\ active_proposal_number[Proposer(pm)][pm.round] \in Nat
         /\ pm.proposal_number \in Nat \ {0}
<1>1. Proposer(pm) \in Hosts /\ Acceptor(pm) \in Hosts /\ pm.round \in Rounds
  BY MessageFields DEF Proposer, Acceptor
<1>2. active_proposal_number \in [Hosts -> [Rounds -> Nat]]
  BY DEF TypeOK
<1> QED
  BY <1>1, <1>2, MessageFields

LEMMA ExchangeInit == Init => ExchangeInv /\ MessageInv
BY DEF Init, ExchangeInv, MessageInv

LEMMA ExchangeStep == TypeOK /\ MessageInv /\ ExchangeInv /\ [Next]_vars => ExchangeInv'
<1> SUFFICES ASSUME TypeOK, MessageInv, ExchangeInv, [Next]_vars PROVE ExchangeInv'
  OBVIOUS
<1>1. ASSUME NEW h \in Hosts, NEW r \in Rounds, NEW P \in SUBSET Values, NEW old, Asks(h, r, P, old)
      PROVE  ExchangeInv'
  <2> DEFINE n == active_proposal_number[h][r]
  <2>1. transit' \subseteq transit \cup Broadcast(h, r, P)
    BY <1>1 DEF Asks
  <2>2. \A pm, qm \in Broadcast(h, r, P) : SameExchange(pm, qm) => pm = qm
    BY BroadcastFields DEF SameExchange
  <2>3. ASSUME NEW pm \in transit, NEW qm \in Broadcast(h, r, P)
        PROVE  ~SameExchange(pm, qm) /\ ~SameExchange(qm, pm)
    <3>1. Proposer(pm) = h /\ pm.round = r => pm.proposal_number <= n
      BY DEF MessageInv
    <3>2. Proposer(qm) = h /\ qm.round = r /\ qm.proposal_number = n + 1
      BY BroadcastFields
    <3>3. active_proposal_number \in [Hosts -> [Rounds -> Nat]]
      BY DEF TypeOK
    <3>4. n \in Nat /\ pm.proposal_number \in Nat
      BY <3>3, ExchangeFields
    <3> HIDE DEF n
    <3> QED
      BY <3>1, <3>2, <3>4 DEF SameExchange
  <2> QED
    BY <2>1, <2>2, <2>3 DEF ExchangeInv
<1>2. ASSUME NEW h \in Hosts, NEW pm \in transit, NEW am, Answers(h, pm, am) PROVE ExchangeInv'
  <2>1. /\ transit' = (transit \ {pm}) \cup {am}
        /\ SameExchange(am, pm)
    BY <1>2 DEF Answers
  <2>2. ASSUME NEW qm \in transit, qm # pm PROVE ~SameExchange(qm, am) /\ ~SameExchange(am, qm)
    BY <2>1, <2>2 DEF ExchangeInv, SameExchange
  <2> QED
    BY <2>1, <2>2 DEF ExchangeInv
<1>3. CASE transit' \subseteq transit
  BY <1>3 DEF ExchangeInv
<1>4. ASSUME NEW h, NEW pm, NEW acks, NEW nacks, NEW P, Counts(h, pm, acks, nacks, P) \/ Drops(h, pm)
      PROVE  transit' \subseteq transit
  BY <1>4 DEF Counts, Settle, Drops
<1> QED
  BY <1>1, <1>2, <1>3, <1>4, StepKinds

LEMMA MessageStep == TypeOK /\ MessageInv /\ [Next]_vars => MessageInv'
<1> SUFFICES ASSUME TypeOK, MessageInv, [Next]_vars, NEW qm \in transit'
             PROVE  /\ qm.proposal_number <= active_proposal_number'[Proposer(qm)][qm.round]
                    /\ qm.type = "Ack" => qm.proposal \in accepts'[qm.sender][qm.round]
                    /\ qm.type # "Nack" /\ IsFresh(qm)' =>
                         qm.proposal = active_proposal'[Proposer(qm)][qm.round]
  BY DEF MessageInv
<1>0. /\ active_proposal_number \in [Hosts -> [Rounds -> Nat]]
      /\ nack_count \in [Hosts -> [Rounds -> Nat]]
  BY DEF TypeOK
<1>1. ASSUME qm \in transit
      PROVE  /\ Proposer(qm) \in Hosts /\ qm.sender \in Hosts
             /\ qm.round \in Rounds /\ qm.proposal_number \in Nat
             /\ qm.proposal_number <= active_proposal_number[Proposer(qm)][qm.round]
             /\ qm.type = "Ack" => qm.proposal \in accepts'[qm.sender][qm.round]
             /\ qm.type # "Nack" /\ IsFresh(qm) =>
                  qm.proposal = active_proposal[Proposer(qm)][qm.round]
  BY <1>1, ExchangeFields, MessageFields, AcceptsGrow DEF MessageInv
<1>2. ASSUME NEW h \in Hosts, NEW r \in Rounds, NEW P \in SUBSET Values, NEW old, Asks(h, r, P, old)
      PROVE  /\ qm.proposal_number <= active_proposal_number'[Proposer(qm)][qm.round]
             /\ qm.type = "Ack" => qm.proposal \in accepts'[qm.sender][qm.round]
             /\ qm.type # "Nack" /\ IsFresh(qm)' =>
                  qm.proposal = active_proposal'[Proposer(qm)][qm.round]
  <2> DEFINE n == active_proposal_number[h][r]
  <2>1. /\ active_proposal_number'[h][r] = n + 1 /\ n \in Nat
        /\ active_proposal'[h][r] = P
        /\ Elsewhere(h, r, active_proposal_number', active_proposal_number)
        /\ Elsewhere(h, r, active_proposal', active_proposal)
        /\ Elsewhere(h, r, nack_count', nack_count)
    BY <1>0, <1>2, AskStep DEF Asks
  <2>2. CASE qm \in Broadcast(h, r, P)
    <3>1. /\ qm.type = "Propose" /\ qm.round = r /\ qm.proposal_number = n + 1
          /\ qm.proposal = P /\ Proposer(qm) = h
      BY <2>2, BroadcastFields
    <3> HIDE DEF n
    <3> QED
      BY <2>1, <3>1
  <2>3. CASE qm \in transit /\ Proposer(qm) = h /\ qm.round = r
    <3>1. qm.proposal_number <= n
      BY <1>1, <2>3
    <3>2. ~IsFresh(qm)' /\ qm.proposal_number <= active_proposal_number'[h][r]
      BY <1>1, <2>1, <2>3, <3>1 DEF IsFresh, IsCurrent
    <3> QED
      BY <1>1, <2>3, <3>2
  <2>4. CASE qm \in transit /\ ~(Proposer(qm) = h /\ qm.round = r)
    <3> HIDE DEF n
    <3>1. /\ active_proposal_number'[Proposer(qm)][qm.round]
               = active_proposal_number[Proposer(qm)][qm.round]
          /\ active_proposal'[Proposer(qm)][qm.round] = active_proposal[Proposer(qm)][qm.round]
          /\ nack_count'[Proposer(qm)][qm.round] = nack_count[Proposer(qm)][qm.round]
      BY <1>1, <2>1, <2>4 DEF Elsewhere
    <3> QED
      BY <1>1, <2>4, <3>1 DEF IsFresh, IsCurrent
  <2> QED
    BY <1>2, <2>2, <2>3, <2>4 DEF Asks
<1>3. ASSUME NEW h \in Hosts, NEW pm \in transit, NEW am, Answers(h, pm, am)
      PROVE  /\ qm.proposal_number <= active_proposal_number'[Proposer(qm)][qm.round]
             /\ qm.type = "Ack" => qm.proposal \in accepts'[qm.sender][qm.round]
             /\ qm.type # "Nack" /\ IsFresh(qm)' =>
                  qm.proposal = active_proposal'[Proposer(qm)][qm.round]
  <2>1. UNCHANGED <<active_proposal_number, active_proposal, nack_count>>
    BY <1>3 DEF Answers, proposer
  <2>2. IsFresh(qm)' = IsFresh(qm)
    BY <2>1 DEF IsFresh, IsCurrent
  <2>3. CASE qm \in transit
    BY <1>1, <2>1, <2>2, <2>3
  <2>4. CASE qm = am
    <3>1. /\ Proposer(am) = Proposer(pm) /\ am.round = pm.round
          /\ am.proposal_number = pm.proposal_number
          /\ am.type # "Propose"
          /\ am.type = "Ack" =>
               /\ am.sender = h /\ am.proposal = pm.proposal /\ pm.type = "Propose"
               /\ am.proposal \in accepts'[h][pm.round]
      BY <1>3 DEF Answers, SameExchange
    <3>2. am.type = "Nack" \/ am.type = "Ack"
      BY <1>3, <3>1 DEF Answers, Message
    <3>3. IsFresh(am) = IsFresh(pm)
      BY <3>1 DEF IsFresh, IsCurrent
    <3>4. /\ pm.proposal_number <= active_proposal_number[Proposer(pm)][pm.round]
          /\ pm.type # "Nack" /\ IsFresh(pm) =>
               pm.proposal = active_proposal[Proposer(pm)][pm.round]
      BY DEF MessageInv
    <3> QED
      BY <2>1, <2>2, <2>4, <3>1, <3>2, <3>3, <3>4
  <2> QED
    BY <1>3, <2>3, <2>4 DEF Answers
<1>4. ASSUME NEW h \in Hosts, NEW pm \in transit, NEW acks \in Nat, NEW nacks \in Nat,
             NEW P \in SUBSET Values, Counts(h, pm, acks, nacks, P)
      PROVE  /\ qm.proposal_number <= active_proposal_number'[Proposer(qm)][qm.round]
             /\ qm.type = "Ack" => qm.proposal \in accepts'[qm.sender][qm.round]
             /\ qm.type # "Nack" /\ IsFresh(qm)' =>
                  qm.proposal = active_proposal'[Proposer(qm)][qm.round]
  <2> DEFINE r == pm.round
  <2>1. /\ qm \in transit
        /\ UNCHANGED active_proposal_number
        /\ nacks >= nack_count[h][r]
        /\ nacks = 0 => P = active_proposal[h][r]
    BY <1>4 DEF Counts, Settle
  <2>2. /\ active_proposal'[h][r] = P
        /\ nack_count'[h][r] = nacks
        /\ Elsewhere(h, r, active_proposal', active_proposal)
        /\ Elsewhere(h, r, nack_count', nack_count)
    BY <1>4, CountsStep DEF Counts
  <2>3. r \in Rounds /\ nack_count[h][r] \in Nat
    BY <1>0, MessageFields
  <2> HIDE DEF r
  <2>4. CASE Proposer(qm) = h /\ qm.round = r
    <3>1. IsFresh(qm)' => IsFresh(qm) /\ active_proposal'[h][r] = active_proposal[h][r]
      BY <2>1, <2>2, <2>3, <2>4 DEF IsFresh, IsCurrent
    <3> QED
      BY <1>1, <2>1, <2>4, <3>1
  <2>5. CASE ~(Proposer(qm) = h /\ qm.round = r)
    <3>1. /\ active_proposal'[Proposer(qm)][qm.round] = active_proposal[Proposer(qm)][qm.round]
          /\ nack_count'[Proposer(qm)][qm.round] = nack_count[Proposer(qm)][qm.round]
      BY <1>1, <2>1, <2>2, <2>5 DEF Elsewhere
    <3> QED
      BY <1>1, <2>1, <3>1 DEF IsFresh, IsCurrent
  <2> QED
    BY <2>4, <2>5
<1>5. CASE transit' \subseteq transit /\ UNCHANGED proposer
  <2>1. IsFresh(qm)' = IsFresh(qm) /\ UNCHANGED <<active_proposal_number, active_proposal>>
    BY <1>5 DEF IsFresh, IsCurrent, proposer
  <2> QED
    BY <1>1, <1>5, <2>1
<1>6. ASSUME NEW h, NEW pm, Drops(h, pm) PROVE transit' \subseteq transit /\ UNCHANGED proposer
  BY <1>6 DEF Drops
<1> QED
  BY <1>2, <1>3, <1>4, <1>5, <1>6, StepKinds

-----------------------------------------------------------------------------
(***************************************************************************)
(* Answers.                                                                *)
(***************************************************************************)

\* pm belongs to the exchange of the current proposal of h in round r with host g.
Current(pm, h, g, r) ==
  /\ Proposer(pm) = h
  /\ Acceptor(pm) = g
  /\ pm.round = r
  /\ IsCurrent(h, pm)

LEMMA AnsweredIff ==
  ASSUME NEW h, NEW r, NEW g
  PROVE  /\ g \in Answered(h, r) <=>
              g \in Hosts /\ \A pm \in transit : ~Current(pm, h, g, r)
         /\ g \in Answered(h, r)' <=>
              g \in Hosts /\ \A pm \in transit' : ~Current(pm, h, g, r)'
BY DEF Answered, Current, Proposer, Acceptor, IsCurrent

LEMMA AnsweredFinite ==
  ASSUME NEW h \in Hosts, NEW r \in Rounds
  PROVE  /\ Answered(h, r) \subseteq Hosts
         /\ IsFiniteSet(Answered(h, r))
         /\ Cardinality(Answered(h, r)) \in Nat
<1>1. Answered(h, r) \in SUBSET Hosts
  BY DEF Answered
<1>2. IsFiniteSet(Answered(h, r))
  BY <1>1, LatticeAssumption, FS_Subset
<1> QED
  BY <1>1, <1>2, FS_CardinalityType

\* A new proposal has been answered by nobody.
LEMMA AskAnswered ==
  ASSUME TypeOK, NEW h \in Hosts, NEW r \in Rounds, NEW P \in SUBSET Values, NEW old,
         Asks(h, r, P, old)
  PROVE  /\ Answered(h, r)' = {}
         /\ \A g \in Hosts : \A k \in Rounds :
              g # h \/ k # r => Answered(g, k)' = Answered(g, k)
<1>1. /\ active_proposal_number'[h][r] = active_proposal_number[h][r] + 1
      /\ Elsewhere(h, r, active_proposal_number', active_proposal_number)
  BY AskStep DEF Asks
<1>2. /\ transit' = (transit \ old) \cup Broadcast(h, r, P)
      /\ \A pm \in old : Proposer(pm) = h /\ pm.round = r
  BY DEF Asks
<1>3. ASSUME NEW g PROVE g \notin Answered(h, r)'
  <2>1. CASE g \in Hosts
    <3>1. PICK pm \in Broadcast(h, r, P) : Acceptor(pm) = g
      BY <2>1, BroadcastCovers
    <3>2. /\ Proposer(pm) = h /\ pm.round = r
          /\ pm.proposal_number = active_proposal_number[h][r] + 1
      BY BroadcastFields
    <3>3. Current(pm, h, g, r)' /\ pm \in transit'
      BY <1>1, <1>2, <3>1, <3>2 DEF Current, IsCurrent, Proposer, Acceptor
    <3> QED
      BY <3>3, AnsweredIff
  <2> QED
    BY <2>1, AnsweredIff
<1>4. ASSUME NEW g \in Hosts, NEW k \in Rounds, g # h \/ k # r, NEW x
      PROVE  x \in Answered(g, k)' <=> x \in Answered(g, k)
  <2>1. active_proposal_number'[g][k] = active_proposal_number[g][k]
    BY <1>1, <1>4 DEF Elsewhere
  <2>2. \A pm : Current(pm, g, x, k)' <=> Current(pm, g, x, k)
    BY <2>1 DEF Current, IsCurrent, Proposer, Acceptor
  <2>3. \A pm \in Broadcast(h, r, P) \cup old : ~Current(pm, g, x, k)
    BY <1>2, <1>4, BroadcastFields DEF Current
  <2> QED
    BY <1>2, <2>2, <2>3, AnsweredIff
<1> QED
  BY <1>3, <1>4

\* An acceptor's answer takes the place of the proposal.
LEMMA AnswerAnswered ==
  ASSUME TypeOK, NEW h \in Hosts, NEW pm \in transit, NEW am, Answers(h, pm, am),
         NEW g \in Hosts, NEW k \in Rounds
  PROVE  Answered(g, k)' = Answered(g, k)
<1>1. /\ UNCHANGED active_proposal_number
      /\ transit' = (transit \ {pm}) \cup {am}
      /\ SameExchange(am, pm)
  BY DEF Answers, proposer
<1> SUFFICES ASSUME NEW x PROVE x \in Answered(g, k)' <=> x \in Answered(g, k)
  OBVIOUS
<1>2. \A qm : Current(qm, g, x, k)' <=> Current(qm, g, x, k)
  BY <1>1 DEF Current, IsCurrent, Proposer, Acceptor
<1>3. Current(am, g, x, k) <=> Current(pm, g, x, k)
  BY <1>1 DEF SameExchange, Current, IsCurrent
<1> QED
  BY <1>1, <1>2, <1>3, AnsweredIff

\* A counted answer is the only message of its exchange, so that it adds its sender.
LEMMA CountAnswered ==
  ASSUME TypeOK, ExchangeInv, NEW h \in Hosts, NEW pm \in transit,
         NEW acks, NEW nacks, NEW P, Counts(h, pm, acks, nacks, P)
  PROVE  /\ pm.sender \notin Answered(h, pm.round)
         /\ Answered(h, pm.round)' = Answered(h, pm.round) \cup {pm.sender}
         /\ \A g \in Hosts : \A k \in Rounds :
              g # h \/ k # pm.round => Answered(g, k)' = Answered(g, k)
<1> DEFINE r == pm.round
<1>1. /\ UNCHANGED active_proposal_number
      /\ transit' = transit \ {pm}
      /\ Proposer(pm) = h /\ Acceptor(pm) = pm.sender
      /\ IsCurrent(h, pm)
  BY DEF Counts, Settle, Proposer, Acceptor
<1>2. r \in Rounds /\ pm.sender \in Hosts
  BY MessageFields
<1>3. ASSUME NEW g, NEW k, NEW x, NEW qm PROVE Current(qm, g, x, k)' <=> Current(qm, g, x, k)
  BY <1>1 DEF Current, IsCurrent, Proposer, Acceptor
<1>4. Current(pm, h, pm.sender, r)
  BY <1>1 DEF Current
<1>5. ASSUME NEW qm \in transit, Current(qm, h, pm.sender, r) PROVE qm = pm
  BY <1>4, <1>5 DEF ExchangeInv, SameExchange, Current, IsCurrent
<1>6. \A x : x \in Answered(h, r)' <=> x \in Answered(h, r) \/ x = pm.sender
  <2>1. ASSUME NEW x PROVE x # pm.sender => ~Current(pm, h, x, r)
    BY <1>1 DEF Current
  <2> HIDE DEF r
  <2> QED
    BY <1>1, <1>2, <1>3, <1>5, <2>1, AnsweredIff
<1>7. pm.sender \notin Answered(h, r)
  BY <1>2, <1>4, AnsweredIff
<1>8. ASSUME NEW g \in Hosts, NEW k \in Rounds, g # h \/ k # r, NEW x
      PROVE  x \in Answered(g, k)' <=> x \in Answered(g, k)
  <2>1. ~Current(pm, g, x, k)
    BY <1>1, <1>8 DEF Current
  <2> QED
    BY <1>1, <1>3, <2>1, AnsweredIff
<1> QED
  BY <1>6, <1>7, <1>8

\* A dropped answer is not the answer to a current proposal.
LEMMA DropAnswered ==
  ASSUME TypeOK, NEW h \in Hosts, NEW pm \in transit, Drops(h, pm),
         NEW g \in Hosts, NEW k \in Rounds
  PROVE  Answered(g, k)' = Answered(g, k)
<1>1. /\ UNCHANGED active_proposal_number
      /\ transit' = transit \ {pm}
      /\ Proposer(pm) = h
      /\ ~IsCurrent(h, pm)
  BY DEF Drops, proposer, Proposer
<1> SUFFICES ASSUME NEW x PROVE x \in Answered(g, k)' <=> x \in Answered(g, k)
  OBVIOUS
<1>2. \A qm : Current(qm, g, x, k)' <=> Current(qm, g, x, k)
  BY <1>1 DEF Current, IsCurrent, Proposer, Acceptor
<1>3. ~Current(pm, g, x, k)
  BY <1>1 DEF Current
<1> QED
  BY <1>1, <1>2, <1>3, AnsweredIff

LEMMA AnswerInit == Init => AnswerInv /\ CountsAreAnswers /\ QuorumAccepted
BY DEF Init, AnswerInv, CountsAreAnswers, QuorumAccepted, Proposed

LEMMA AnswerStep ==
  TypeOK /\ MessageInv /\ ExchangeInv /\ AnswerInv /\ [Next]_vars => AnswerInv'
<1> SUFFICES ASSUME TypeOK, MessageInv, ExchangeInv, AnswerInv, [Next]_vars,
                    NEW h \in Hosts, NEW r \in Rounds,
                    Proposed(h, r)', nack_count'[h][r] = 0,
                    NEW g \in Answered(h, r)'
             PROVE  active_proposal'[h][r] \in accepts'[g][r]
  BY DEF AnswerInv
<1>0. ASSUME g \in Answered(h, r), Proposed(h, r), nack_count[h][r] = 0
      PROVE  active_proposal[h][r] \in accepts'[g][r]
  <2>1. g \in Hosts /\ active_proposal[h][r] \in accepts[g][r]
    BY <1>0, AnsweredFinite DEF AnswerInv
  <2> QED
    BY <2>1, AcceptsGrow
<1>1. CASE /\ Answered(h, r)' = Answered(h, r)
           /\ active_proposal_number'[h][r] = active_proposal_number[h][r]
           /\ active_proposal'[h][r] = active_proposal[h][r]
           /\ nack_count'[h][r] = nack_count[h][r]
  BY <1>0, <1>1 DEF Proposed
<1>2. ASSUME NEW k \in Hosts, NEW q \in Rounds, NEW P \in SUBSET Values, NEW old, Asks(k, q, P, old)
      PROVE  active_proposal'[h][r] \in accepts'[g][r]
  <2>1. k # h \/ q # r
    BY <1>2, AskAnswered
  <2>2. Answered(h, r)' = Answered(h, r)
    BY <1>2, <2>1, AskAnswered
  <2>3. propose(k, q, P)
    BY <1>2 DEF Asks
  <2> QED
    BY <1>1, <2>1, <2>2, <2>3, AskStep DEF Elsewhere
<1>3. ASSUME NEW k \in Hosts, NEW pm \in transit, NEW am, Answers(k, pm, am)
      PROVE  active_proposal'[h][r] \in accepts'[g][r]
  BY <1>1, <1>3, AnswerAnswered DEF Answers, proposer
<1>4. ASSUME NEW k \in Hosts, NEW pm \in transit, NEW acks \in Nat, NEW nacks \in Nat,
             NEW P \in SUBSET Values, Counts(k, pm, acks, nacks, P)
      PROVE  active_proposal'[h][r] \in accepts'[g][r]
  <2>1. UNCHANGED active_proposal_number
    BY <1>4 DEF Counts, Settle
  <2>2. CASE k = h /\ pm.round = r
    <3>1. /\ nacks = 0
          /\ active_proposal'[h][r] = P
      BY <1>4, <2>2, CountsStep DEF Counts
    <3>2. /\ pm.type = "Ack" /\ pm.receiver = h
          /\ P = active_proposal[h][r]
          /\ nacks >= nack_count[h][r]
          /\ IsCurrent(h, pm)
      BY <1>4, <2>2, <3>1 DEF Counts
    <3>3. nack_count \in [Hosts -> [Rounds -> Nat]]
      BY DEF TypeOK
    <3>4. nack_count[h][r] = 0
      BY <3>1, <3>2, <3>3
    <3>5. Proposed(h, r)
      BY <2>1 DEF Proposed
    <3>6. CASE g = pm.sender
      <4>1. IsFresh(pm) /\ Proposer(pm) = h
        BY <2>2, <3>2, <3>4 DEF IsFresh, Proposer
      <4>2. pm.proposal = active_proposal[h][r] /\ pm.proposal \in accepts[g][r]
        BY <2>2, <3>2, <3>6, <4>1 DEF MessageInv
      <4>3. g \in Hosts
        BY <3>6, MessageFields
      <4> QED
        BY <3>1, <3>2, <4>2, <4>3, AcceptsGrow
    <3>7. CASE g \in Answered(h, r)
      BY <1>0, <3>1, <3>2, <3>4, <3>5, <3>7
    <3> QED
      BY <1>4, <2>2, <3>6, <3>7, CountAnswered
  <2>3. CASE ~(k = h /\ pm.round = r)
    BY <1>1, <1>4, <2>1, <2>3, CountAnswered, CountsStep DEF Counts, Elsewhere
  <2> QED
    BY <2>2, <2>3
<1>5. ASSUME NEW k \in Hosts, NEW pm \in transit, Drops(k, pm)
      PROVE  active_proposal'[h][r] \in accepts'[g][r]
  BY <1>1, <1>5, DropAnswered DEF Drops, proposer
<1>6. CASE UNCHANGED <<transit, proposer, acceptor>>
  <2>1. Answered(h, r)' = Answered(h, r)
    BY <1>6 DEF Answered, proposer
  <2> QED
    BY <1>1, <1>6, <2>1 DEF proposer
<1> QED
  BY <1>2, <1>3, <1>4, <1>5, <1>6, StepKinds

LEMMA CountsAnswersStep ==
  TypeOK /\ ExchangeInv /\ CountsAreAnswers /\ [Next]_vars => CountsAreAnswers'
<1> SUFFICES ASSUME TypeOK, ExchangeInv, CountsAreAnswers, [Next]_vars,
                    NEW h \in Hosts, NEW r \in Rounds, Proposed(h, r)'
             PROVE  ack_count'[h][r] + nack_count'[h][r] = Cardinality(Answered(h, r)')
  BY DEF CountsAreAnswers
<1>1. CASE /\ Answered(h, r)' = Answered(h, r)
           /\ active_proposal_number'[h][r] = active_proposal_number[h][r]
           /\ ack_count'[h][r] = ack_count[h][r]
           /\ nack_count'[h][r] = nack_count[h][r]
  BY <1>1 DEF CountsAreAnswers, Proposed
<1>2. ASSUME NEW k \in Hosts, NEW q \in Rounds, NEW P \in SUBSET Values, NEW old, Asks(k, q, P, old)
      PROVE  ack_count'[h][r] + nack_count'[h][r] = Cardinality(Answered(h, r)')
  <2>1. CASE k = h /\ q = r
    <3>1. Answered(h, r)' = {} /\ ack_count'[h][r] = 0 /\ nack_count'[h][r] = 0
      BY <1>2, <2>1, AskAnswered, AskStep DEF Asks
    <3>2. Cardinality({}) = 0
      BY FS_EmptySet
    <3> QED
      BY <3>1, <3>2
  <2>2. CASE k # h \/ q # r
    <3>1. Answered(h, r)' = Answered(h, r)
      BY <1>2, <2>2, AskAnswered
    <3>2. propose(k, q, P)
      BY <1>2 DEF Asks
    <3> QED
      BY <1>1, <2>2, <3>1, <3>2, AskStep DEF Elsewhere
  <2> QED
    BY <2>1, <2>2
<1>3. ASSUME NEW k \in Hosts, NEW pm \in transit, NEW am, Answers(k, pm, am)
      PROVE  ack_count'[h][r] + nack_count'[h][r] = Cardinality(Answered(h, r)')
  BY <1>1, <1>3, AnswerAnswered DEF Answers, proposer
<1>4. ASSUME NEW k \in Hosts, NEW pm \in transit, NEW acks \in Nat, NEW nacks \in Nat,
             NEW P \in SUBSET Values, Counts(k, pm, acks, nacks, P)
      PROVE  ack_count'[h][r] + nack_count'[h][r] = Cardinality(Answered(h, r)')
  <2>1. UNCHANGED active_proposal_number
    BY <1>4 DEF Counts, Settle
  <2>2. CASE k = h /\ pm.round = r
    <3>1. /\ ack_count'[h][r] = acks /\ nack_count'[h][r] = nacks
          /\ acks + nacks = ack_count[h][r] + nack_count[h][r] + 1
      BY <1>4, <2>2, CountsStep DEF Counts
    <3>2. /\ pm.sender \notin Answered(h, r)
          /\ Answered(h, r)' = Answered(h, r) \cup {pm.sender}
      BY <1>4, <2>2, CountAnswered
    <3>3. Cardinality(Answered(h, r) \cup {pm.sender}) = Cardinality(Answered(h, r)) + 1
      BY <3>2, AnsweredFinite, FS_AddElement
    <3>4. ack_count[h][r] + nack_count[h][r] = Cardinality(Answered(h, r))
      BY <2>1 DEF CountsAreAnswers, Proposed
    <3> QED
      BY <3>1, <3>2, <3>3, <3>4
  <2>3. CASE ~(k = h /\ pm.round = r)
    BY <1>1, <1>4, <2>1, <2>3, CountAnswered, CountsStep DEF Counts, Elsewhere
  <2> QED
    BY <2>2, <2>3
<1>5. ASSUME NEW k \in Hosts, NEW pm \in transit, Drops(k, pm)
      PROVE  ack_count'[h][r] + nack_count'[h][r] = Cardinality(Answered(h, r)')
  BY <1>1, <1>5, DropAnswered DEF Drops, proposer
<1>6. CASE UNCHANGED <<transit, proposer, acceptor>>
  <2>1. Answered(h, r)' = Answered(h, r)
    BY <1>6 DEF Answered, proposer
  <2> QED
    BY <1>1, <1>6, <2>1 DEF proposer
<1> QED
  BY <1>2, <1>3, <1>4, <1>5, <1>6, StepKinds

\* A majority of hosts is as many as threshold says.
LEMMA Majority ==
  ASSUME NEW Q \in SUBSET Hosts, Cardinality(Q) >= threshold
  PROVE  2 * Cardinality(Q) > Cardinality(Hosts)
<1>1. /\ Cardinality(Hosts) \in Nat
      /\ Cardinality(Q) \in Nat
  BY LatticeAssumption, FS_CardinalityType, FS_Subset
<1> QED
  BY <1>1, ThresholdType

LEMMA MoreAccept ==
  ASSUME NEW Q \in SUBSET Hosts, NEW R \in SUBSET Hosts, Q \subseteq R,
         2 * Cardinality(Q) > Cardinality(Hosts)
  PROVE  2 * Cardinality(R) > Cardinality(Hosts)
<1>1. IsFiniteSet(R) /\ IsFiniteSet(Q) /\ Cardinality(Q) <= Cardinality(R)
  BY LatticeAssumption, FS_Subset
<1>2. Cardinality(Q) \in Nat /\ Cardinality(R) \in Nat /\ Cardinality(Hosts) \in Nat
  BY <1>1, LatticeAssumption, FS_CardinalityType
<1> QED
  BY <1>1, <1>2

\* The buffer gets a set only when a host decides.
LEMMA ProposalsStep ==
  ASSUME TypeOK, [Next]_vars
  PROVE  \/ UNCHANGED proposals
         \/ \E h \in Hosts, pm \in transit, acks, nacks \in Nat, P \in SUBSET Values :
              /\ CountAck(h, pm) \/ CountNack(h, pm)
              /\ Counts(h, pm, acks, nacks, P)
              /\ Decide(h, pm, acks, nacks)
<1>1. ASSUME NEW h \in Hosts, ProposeRound(h) \/ LaDecide(h) \/ Stop(h) PROVE UNCHANGED proposals
  BY <1>1 DEF ProposeRound, LaDecide, Stop, buffer
<1>2. ASSUME NEW h \in Hosts, NEW pm \in transit, Accept(h, pm) \/ Reject(h, pm) \/ Ignore(h, pm)
      PROVE  UNCHANGED proposals
  BY <1>2 DEF Accept, Reject, Ignore, buffer
<1>3. ASSUME NEW h \in Hosts, NEW pm \in transit, CountAck(h, pm) \/ CountNack(h, pm)
      PROVE  \/ UNCHANGED proposals
             \/ \E acks, nacks \in Nat, P \in SUBSET Values :
                  /\ CountAck(h, pm) \/ CountNack(h, pm)
                  /\ Counts(h, pm, acks, nacks, P)
                  /\ Decide(h, pm, acks, nacks)
  <2>1. PICK acks \in Nat, nacks \in Nat, P \in SUBSET Values :
           /\ acks + nacks = ack_count[h][pm.round] + nack_count[h][pm.round] + 1
           /\ nacks >= nack_count[h][pm.round]
           /\ nacks = 0 => pm.type = "Ack" /\ P = active_proposal[h][pm.round]
           /\ ProposeAgain(h, pm, acks, nacks, P) \/ Settle(h, pm, acks, nacks, P)
    BY <1>3, CountStep
  <2>2. /\ pm.type # "Propose" /\ pm.receiver = h
        /\ IsCurrent(h, pm)
        /\ UNCHANGED acceptor
    BY <1>3, SettleStep DEF Receives
  <2>3. CASE ProposeAgain(h, pm, acks, nacks, P) \/ Wait(h, pm, acks, nacks)
    BY <2>3 DEF ProposeAgain, Wait, buffer
  <2>4. CASE Settle(h, pm, acks, nacks, P) /\ Decide(h, pm, acks, nacks)
    <3>1. Counts(h, pm, acks, nacks, P)
      BY <2>1, <2>2, <2>4 DEF Counts
    <3> QED
      BY <1>3, <2>4, <3>1
  <2> QED
    BY <2>1, <2>3, <2>4 DEF Settle
<1> QED
  BY <1>1, <1>2, <1>3, StepCases DEF vars, buffer

\* What is decided: the current proposal, which a quorum has accepted and nobody has rejected.
LEMMA DecidedSet ==
  ASSUME TypeOK, MessageInv, NEW h \in Hosts, NEW pm \in transit, NEW acks \in Nat, NEW nacks \in Nat,
         NEW P \in SUBSET Values, Counts(h, pm, acks, nacks, P), Decide(h, pm, acks, nacks)
  PROVE  /\ pm.round \in Rounds
         /\ nacks = 0 /\ acks >= threshold
         /\ nack_count[h][pm.round] = 0
         /\ pm.proposal = active_proposal[h][pm.round]
         /\ active_proposal'[h][pm.round] = pm.proposal
         /\ proposals' = [proposals EXCEPT ![h][pm.round] = pm.proposal]
         /\ proposals'[h][pm.round] = pm.proposal
         /\ Elsewhere(h, pm.round, proposals', proposals)
         /\ active[h][pm.round]
<1> DEFINE r == pm.round
           D == pm.proposal
<1>1. /\ r \in Rounds /\ D \in SUBSET Values
      /\ nack_count \in [Hosts -> [Rounds -> Nat]]
      /\ proposals \in [Hosts -> [Rounds -> SUBSET Values]]
  BY MessageFields DEF TypeOK
<1>2. active[h][r] /\ nacks = 0 /\ acks >= threshold
  BY DecideStep
<1>3. /\ pm.type = "Ack" /\ pm.receiver = h
      /\ P = active_proposal[h][r]
      /\ nacks >= nack_count[h][r]
      /\ IsCurrent(h, pm)
  BY <1>2 DEF Counts
<1>4. nack_count[h][r] = 0
  BY <1>1, <1>2, <1>3
<1>5. IsFresh(pm) /\ Proposer(pm) = h
  BY <1>3, <1>4 DEF IsFresh, Proposer
<1>6. D = active_proposal[h][r]
  BY <1>3, <1>5 DEF MessageInv
<1>7. active_proposal'[h][r] = P
  BY CountsStep DEF Counts
<1>8. proposals' = [proposals EXCEPT ![h][r] = D]
  BY <1>1, BufferStep DEF Decide
<1> HIDE DEF r, D
<1>9. proposals'[h][r] = D /\ Elsewhere(h, r, proposals', proposals)
  BY <1>1, <1>8, ExceptRound
<1> QED
  BY <1>1, <1>2, <1>3, <1>4, <1>6, <1>7, <1>8, <1>9 DEF r, D

LEMMA QuorumStep ==
  /\ TypeOK /\ MessageInv /\ QuorumAccepted
  /\ AnswerInv' /\ CountsAreAnswers'
  /\ [Next]_vars
  => QuorumAccepted'
<1> SUFFICES ASSUME TypeOK, MessageInv, QuorumAccepted, AnswerInv', CountsAreAnswers', [Next]_vars,
                    NEW h \in Hosts, NEW r \in Rounds, proposals'[h][r] # {}
             PROVE  2 * Cardinality({g \in Hosts : proposals'[h][r] \in accepts'[g][r]})
                      > Cardinality(Hosts)
  BY DEF QuorumAccepted
<1> DEFINE D == proposals'[h][r]
           R == {g \in Hosts : D \in accepts'[g][r]}
<1>1. CASE proposals'[h][r] = proposals[h][r]
  <2> DEFINE Q == {g \in Hosts : D \in accepts[g][r]}
  <2>1. 2 * Cardinality(Q) > Cardinality(Hosts)
    BY <1>1 DEF QuorumAccepted
  <2>2. Q \subseteq R
    BY AcceptsGrow
  <2>3. Q \in SUBSET Hosts /\ R \in SUBSET Hosts
    OBVIOUS
  <2> HIDE DEF Q, R
  <2>4. 2 * Cardinality(R) > Cardinality(Hosts)
    BY <2>1, <2>2, <2>3, MoreAccept
  <2> QED
    BY <2>4 DEF R
<1>2. ASSUME NEW k \in Hosts, NEW pm \in transit, NEW acks \in Nat, NEW nacks \in Nat,
             NEW P \in SUBSET Values, Counts(k, pm, acks, nacks, P), Decide(k, pm, acks, nacks)
      PROVE  2 * Cardinality({g \in Hosts : proposals'[h][r] \in accepts'[g][r]})
               > Cardinality(Hosts)
  <2>1. CASE k = h /\ pm.round = r
    <3> DEFINE Q == Answered(h, r)'
    <3>1. /\ active_proposal'[h][r] = D
          /\ nack_count'[h][r] = 0 /\ ack_count'[h][r] = acks
          /\ acks >= threshold
      BY <1>2, <2>1, DecidedSet, CountsStep DEF Counts
    <3>2. Proposed(h, r)'
      <4>1. /\ active_proposal_number'[h][r] = pm.proposal_number
            /\ pm.proposal_number \in Nat \ {0}
        BY <1>2, <2>1, MessageFields DEF Counts, Settle, IsCurrent
      <4> QED
        BY <4>1 DEF Proposed
    <3>3. \A g \in Q : active_proposal'[h][r] \in accepts'[g][r]
      BY <3>1, <3>2 DEF AnswerInv
    <3>4. Q \in SUBSET Hosts
      BY DEF Answered
    <3>5. Q \subseteq R /\ R \in SUBSET Hosts
      BY <3>1, <3>3, <3>4
    <3>6. Cardinality(Q) = acks
      BY <3>1, <3>2 DEF CountsAreAnswers
    <3> HIDE DEF Q, R
    <3>7. 2 * Cardinality(Q) > Cardinality(Hosts)
      BY <3>1, <3>4, <3>6, Majority
    <3>8. 2 * Cardinality(R) > Cardinality(Hosts)
      BY <3>4, <3>5, <3>7, MoreAccept
    <3> QED
      BY <3>8 DEF R
  <2>2. CASE k # h \/ pm.round # r
    BY <1>1, <1>2, <2>2, DecidedSet DEF Elsewhere
  <2> QED
    BY <2>1, <2>2
<1> QED
  BY <1>1, <1>2, ProposalsStep

-----------------------------------------------------------------------------
(***************************************************************************)
(* Values.                                                                 *)
(***************************************************************************)

LEMMA ValueInit == Init => ValueInv
<1> SUFFICES ASSUME Init PROVE ValueInv
  OBVIOUS
<1>1. SentValues /\ HeldValues /\ DecidedValues
  BY DEF Init, SentValues, HeldValues, DecidedValues
<1>2. OwnValues
  BY DEF Init, OwnValues, Rounds
<1> QED
  BY <1>1, <1>2 DEF ValueInv

\* The main thread only goes on to further rounds.
LEMMA ProposedStep ==
  ASSUME TypeOK, [Next]_vars
  PROVE  (\E h \in Hosts : ProposeRound(h)) \/ UNCHANGED proposed
<1>1. ASSUME NEW h \in Hosts, LaDecide(h) \/ Stop(h) PROVE UNCHANGED proposed
  BY <1>1 DEF LaDecide, Stop
<1>2. ASSUME NEW h \in Hosts, NEW pm \in transit,
             \/ Accept(h, pm) \/ Reject(h, pm) \/ Ignore(h, pm)
             \/ CountAck(h, pm) \/ CountNack(h, pm)
      PROVE  UNCHANGED proposed
  BY <1>2 DEF Accept, Reject, Ignore, CountAck, CountNack, Receives
<1> QED
  BY <1>1, <1>2, StepCases DEF vars

LEMMA OfferedGrows ==
  ASSUME TypeOK, [Next]_vars, NEW r \in Rounds
  PROVE  Offered(r) \subseteq Offered(r)'
<1>1. ASSUME NEW h \in Hosts, ProposeRound(h), NEW g \in Hosts PROVE proposed[g] <= proposed'[g]
  <2>1. /\ proposed \in [Hosts -> 0 .. NumRounds]
        /\ proposed' = [proposed EXCEPT ![h] = proposed[h] + 1]
    BY <1>1 DEF TypeOK, ProposeRound
  <2>2. \A k \in Hosts : proposed[k] \in Nat
    BY <2>1
  <2> QED
    BY <2>1, <2>2
<1>2. \A g \in Hosts : r < proposed[g] => r < proposed'[g]
  <2>1. proposed \in [Hosts -> 0 .. NumRounds] /\ proposed' \in [Hosts -> 0 .. NumRounds]
    BY TypeStep DEF TypeOK
  <2>2. \A g \in Hosts : proposed[g] <= proposed'[g]
    BY <1>1, <2>1, ProposedStep
  <2>3. r \in Nat
    BY DEF Rounds
  <2> QED
    BY <2>1, <2>2, <2>3
<1> QED
  BY <1>2 DEF Offered

\* What the main thread proposes is offered from then on.
LEMMA ProposeRoundStep ==
  ASSUME TypeOK, [Next]_vars, NEW h \in Hosts, ProposeRound(h)
  PROVE  \E r \in Rounds, P \in SUBSET Values :
           /\ P = Proposals[h][r + 1]
           /\ P \subseteq Offered(r)'
           /\ proposed' = [proposed EXCEPT ![h] = r + 1]
           /\ r = proposed[h]
           /\ propose(h, r, P)
           /\ transit' = transit \cup Broadcast(h, r, P)
<1>1. PICK r \in Rounds : r = proposed[h]
  BY ProposalType DEF ProposeRound
<1>2. PICK P \in SUBSET Values : P = Proposals[h][r + 1]
  BY <1>1, ProposalType DEF ProposeRound
<1>3. /\ propose(h, r, P)
      /\ transit' = transit \cup Broadcast(h, r, P)
      /\ proposed' = [proposed EXCEPT ![h] = r + 1]
  BY <1>1, <1>2 DEF ProposeRound
<1>4. r < proposed'[h]
  <2>1. proposed \in [Hosts -> 0 .. NumRounds] /\ r \in Nat
    BY DEF TypeOK, Rounds
  <2> QED
    BY <1>3, <2>1
<1>5. P \subseteq Offered(r)'
  BY <1>2, <1>4 DEF Offered
<1> QED
  BY <1>1, <1>2, <1>3, <1>5

\* The proposal after an answer has been counted.
LEMMA CountedProposal ==
  ASSUME TypeOK, NEW h \in Hosts, NEW pm \in transit, CountAck(h, pm) \/ CountNack(h, pm)
  PROVE  \E P \in SUBSET Values :
           /\ active_proposal[h][pm.round] \subseteq P
           /\ P \subseteq active_proposal[h][pm.round] \cup pm.proposal
           /\ active_proposal'[h][pm.round] = P
           /\ Elsewhere(h, pm.round, active_proposal', active_proposal)
           /\ transit' \subseteq transit \cup Broadcast(h, pm.round, P)
<1>1. PICK acks \in Nat, nacks \in Nat, P \in SUBSET Values :
        /\ active_proposal[h][pm.round] \subseteq P
        /\ P \subseteq active_proposal[h][pm.round] \cup pm.proposal
        /\ ProposeAgain(h, pm, acks, nacks, P) \/ Settle(h, pm, acks, nacks, P)
  BY CountStep
<1>2. pm.round \in Rounds
  BY MessageFields
<1>3. CASE ProposeAgain(h, pm, acks, nacks, P)
  BY <1>1, <1>2, <1>3, AskStep DEF ProposeAgain
<1>4. CASE Settle(h, pm, acks, nacks, P)
  <2>1. transit' \subseteq transit
    BY <1>4 DEF Settle
  <2> QED
    BY <1>1, <1>4, <2>1, CountsStep
<1> QED
  BY <1>1, <1>3, <1>4

LEMMA SentStep == TypeOK /\ SentValues /\ HeldValues /\ [Next]_vars => SentValues'
<1> SUFFICES ASSUME TypeOK, SentValues, HeldValues, [Next]_vars, NEW qm \in transit'
             PROVE  qm.proposal \subseteq Offered(qm.round)'
  BY DEF SentValues
<1>1. ASSUME NEW pm \in transit PROVE pm.round \in Rounds /\ pm.proposal \subseteq Offered(pm.round)'
  BY MessageFields, OfferedGrows DEF SentValues
<1>2. ASSUME NEW h \in Hosts, ProposeRound(h) PROVE qm.proposal \subseteq Offered(qm.round)'
  <2>1. PICK r \in Rounds, P \in SUBSET Values :
          transit' = transit \cup Broadcast(h, r, P) /\ P \subseteq Offered(r)'
    BY <1>2, ProposeRoundStep
  <2>2. CASE qm \in Broadcast(h, r, P)
    <3>1. qm.proposal = P /\ qm.round = r
      BY <2>2, BroadcastFields
    <3> QED
      BY <2>1, <3>1
  <2> QED
    BY <1>1, <2>1, <2>2
<1>3. ASSUME NEW h \in Hosts, NEW pm \in transit, Accept(h, pm)
      PROVE  qm.proposal \subseteq Offered(qm.round)'
  <2>1. CASE qm = create_ack(pm)
    <3>1. qm.proposal = pm.proposal /\ qm.round = pm.round
      BY <2>1 DEF create_ack, ProposalMessage
    <3> QED
      BY <1>1, <3>1
  <2> QED
    BY <1>1, <1>3, <2>1 DEF Accept
<1>4. ASSUME NEW h \in Hosts, NEW pm \in transit, Reject(h, pm)
      PROVE  qm.proposal \subseteq Offered(qm.round)'
  <2> DEFINE P == accepted_proposal[h][pm.round] \cup pm.proposal
  <2>1. CASE qm = create_nack(pm, P)
    <3>1. qm.proposal = P /\ qm.round = pm.round
      BY <2>1 DEF create_nack, ProposalMessage
    <3>2. accepted_proposal[h][pm.round] \subseteq Offered(pm.round)'
      BY <1>1, OfferedGrows DEF HeldValues
    <3> QED
      BY <1>1, <3>1, <3>2
  <2> QED
    BY <1>1, <1>4, <2>1 DEF Reject
<1>5. ASSUME NEW h \in Hosts, NEW pm \in transit, CountAck(h, pm) \/ CountNack(h, pm)
      PROVE  qm.proposal \subseteq Offered(qm.round)'
  <2>1. PICK P \in SUBSET Values :
          /\ P \subseteq active_proposal[h][pm.round] \cup pm.proposal
          /\ transit' \subseteq transit \cup Broadcast(h, pm.round, P)
    BY <1>5, CountedProposal
  <2>2. P \subseteq Offered(pm.round)'
    BY <1>1, <2>1, OfferedGrows DEF HeldValues
  <2>3. CASE qm \in Broadcast(h, pm.round, P)
    <3>1. qm.proposal = P /\ qm.round = pm.round
      BY <2>3, BroadcastFields
    <3> QED
      BY <2>2, <3>1
  <2> QED
    BY <1>1, <2>1, <2>3
<1>6. ASSUME NEW h \in Hosts, LaDecide(h) \/ Stop(h) PROVE UNCHANGED transit
  BY <1>6 DEF LaDecide, Stop
<1>7. ASSUME NEW h \in Hosts, NEW pm \in transit, Ignore(h, pm) PROVE transit' \subseteq transit
  BY <1>7 DEF Ignore
<1>8. CASE transit' \subseteq transit
  BY <1>1, <1>8
<1> QED
  BY <1>2, <1>3, <1>4, <1>5, <1>6, <1>7, <1>8, StepCases DEF vars

LEMMA HeldStep ==
  TypeOK /\ RoundInv /\ SentValues /\ HeldValues /\ OwnValues /\ [Next]_vars
  => HeldValues' /\ OwnValues'
<1> SUFFICES ASSUME TypeOK, RoundInv, SentValues, HeldValues, OwnValues, [Next]_vars,
                    NEW k \in Hosts, NEW q \in Rounds
             PROVE  /\ accepted_proposal'[k][q] \subseteq Offered(q)'
                    /\ active_proposal'[k][q] \subseteq Offered(q)'
                    /\ q < proposed'[k] => Proposals[k][q + 1] \subseteq active_proposal'[k][q]
  BY DEF HeldValues, OwnValues
<1>1. /\ accepted_proposal[k][q] \subseteq Offered(q)'
      /\ active_proposal[k][q] \subseteq Offered(q)'
      /\ q < proposed[k] => Proposals[k][q + 1] \subseteq active_proposal[k][q]
  BY OfferedGrows DEF HeldValues, OwnValues
<1>2. ASSUME NEW pm \in transit PROVE pm.round \in Rounds /\ pm.proposal \subseteq Offered(pm.round)'
  BY MessageFields, OfferedGrows DEF SentValues
<1>3. accepted_proposal'[k][q] \subseteq Offered(q)'
  <2>1. ASSUME NEW h \in Hosts, NEW pm \in transit, Accept(h, pm)
        PROVE  accepted_proposal'[k][q] \subseteq Offered(q)'
    BY <1>1, <1>2, <2>1, AcceptStep DEF Elsewhere
  <2>2. ASSUME NEW h \in Hosts, NEW pm \in transit, Reject(h, pm)
        PROVE  accepted_proposal'[k][q] \subseteq Offered(q)'
    <3>1. /\ pm.round \in Rounds
          /\ Elsewhere(h, pm.round, accepted_proposal', accepted_proposal)
      BY <2>2, RejectStep
    <3>2. accepted_proposal \in [Hosts -> [Rounds -> SUBSET Values]]
      BY DEF TypeOK
    <3>3. accepted_proposal'[h][pm.round] = accepted_proposal[h][pm.round] \cup pm.proposal
      BY <2>2, <3>1, <3>2 DEF Reject
    <3>4. CASE k = h /\ q = pm.round
      BY <1>1, <1>2, <3>3, <3>4
    <3>5. CASE k # h \/ q # pm.round
      BY <1>1, <3>1, <3>5 DEF Elsewhere
    <3> QED
      BY <3>4, <3>5
  <2> QED
    BY <1>1, <2>1, <2>2, AcceptorSteps
<1>4. /\ active_proposal'[k][q] \subseteq Offered(q)'
      /\ q < proposed'[k] => Proposals[k][q + 1] \subseteq active_proposal'[k][q]
  <2>1. ASSUME NEW h \in Hosts, ProposeRound(h)
        PROVE  /\ active_proposal'[k][q] \subseteq Offered(q)'
               /\ q < proposed'[k] => Proposals[k][q + 1] \subseteq active_proposal'[k][q]
    <3>1. PICK r \in Rounds, P \in SUBSET Values :
            /\ P = Proposals[h][r + 1]
            /\ P \subseteq Offered(r)'
            /\ proposed' = [proposed EXCEPT ![h] = r + 1]
            /\ r = proposed[h]
            /\ propose(h, r, P)
      BY <2>1, ProposeRoundStep
    <3>2. proposed \in [Hosts -> 0 .. NumRounds] /\ q \in Nat
      BY DEF TypeOK, Rounds
    <3>3. active_proposal'[h][r] = P /\ Elsewhere(h, r, active_proposal', active_proposal)
      BY <3>1, AskStep
    <3>4. CASE k = h /\ q = r
      BY <3>1, <3>3, <3>4
    <3>5. CASE k # h \/ q # r
      <4>1. active_proposal'[k][q] = active_proposal[k][q]
        BY <3>1, <3>3, <3>5 DEF Elsewhere
      <4>2. q < proposed'[k] => q < proposed[k]
        BY <3>1, <3>2, <3>5
      <4> QED
        BY <1>1, <4>1, <4>2
    <3> QED
      BY <3>4, <3>5
  <2>2. CASE UNCHANGED <<proposed, active_proposal>>
    BY <1>1, <2>2
  <2>3. ASSUME NEW h \in Hosts, NEW pm \in transit, CountAck(h, pm) \/ CountNack(h, pm)
        PROVE  /\ active_proposal'[k][q] \subseteq Offered(q)'
               /\ q < proposed'[k] => Proposals[k][q + 1] \subseteq active_proposal'[k][q]
    <3>1. PICK P \in SUBSET Values :
            /\ active_proposal[h][pm.round] \subseteq P
            /\ P \subseteq active_proposal[h][pm.round] \cup pm.proposal
            /\ active_proposal'[h][pm.round] = P
            /\ Elsewhere(h, pm.round, active_proposal', active_proposal)
      BY <2>3, CountedProposal
    <3>2. UNCHANGED proposed
      BY <2>3, SettleStep DEF Receives
    <3>3. CASE k = h /\ q = pm.round
      BY <1>1, <1>2, <3>1, <3>2, <3>3
    <3>4. CASE k # h \/ q # pm.round
      BY <1>1, <3>1, <3>2, <3>4 DEF Elsewhere
    <3> QED
      BY <3>3, <3>4
  <2>4. ASSUME NEW h \in Hosts, LaDecide(h) \/ Stop(h) PROVE UNCHANGED <<proposed, active_proposal>>
    BY <2>4 DEF LaDecide, Stop, proposer
  <2>5. ASSUME NEW h \in Hosts, NEW pm \in transit, Accept(h, pm) \/ Reject(h, pm) \/ Ignore(h, pm)
        PROVE  UNCHANGED <<proposed, active_proposal>>
    BY <2>5 DEF Accept, Reject, Ignore, Receives, proposer
  <2> QED
    BY <2>1, <2>2, <2>3, <2>4, <2>5, StepCases DEF vars, proposer
<1> QED
  BY <1>3, <1>4

LEMMA DecidedStep ==
  TypeOK /\ RoundInv /\ MessageInv /\ ValueInv /\ [Next]_vars => DecidedValues'
<1> SUFFICES ASSUME TypeOK, RoundInv, MessageInv, ValueInv, [Next]_vars,
                    NEW k \in Hosts, NEW q \in Rounds, proposals'[k][q] # {}
             PROVE  /\ Proposals[k][q + 1] \subseteq proposals'[k][q]
                    /\ proposals'[k][q] \subseteq Offered(q)'
  BY DEF DecidedValues
<1>1. CASE proposals'[k][q] = proposals[k][q]
  BY <1>1, OfferedGrows DEF ValueInv, DecidedValues
<1>2. ASSUME NEW h \in Hosts, NEW pm \in transit, NEW acks \in Nat, NEW nacks \in Nat,
             NEW P \in SUBSET Values, Counts(h, pm, acks, nacks, P), Decide(h, pm, acks, nacks)
      PROVE  /\ Proposals[k][q + 1] \subseteq proposals'[k][q]
             /\ proposals'[k][q] \subseteq Offered(q)'
  <2>1. CASE k = h /\ q = pm.round
    <3>1. proposals'[k][q] = active_proposal[k][q] /\ active[k][q]
      BY <1>2, <2>1, DecidedSet
    <3>2. q < proposed[k]
      <4>1. proposed[k] \in Nat /\ q \in Nat
        BY DEF TypeOK, Rounds
      <4> QED
        BY <3>1, <4>1 DEF RoundInv
    <3> QED
      BY <3>1, <3>2, OfferedGrows DEF ValueInv, HeldValues, OwnValues
  <2>2. CASE k # h \/ q # pm.round
    BY <1>1, <1>2, <2>2, DecidedSet DEF Elsewhere
  <2> QED
    BY <2>1, <2>2
<1> QED
  BY <1>1, <1>2, ProposalsStep

LEMMA ValueStep ==
  TypeOK /\ RoundInv /\ MessageInv /\ ValueInv /\ [Next]_vars => ValueInv'
BY SentStep, HeldStep, DecidedStep DEF ValueInv

-----------------------------------------------------------------------------
(***************************************************************************)
(* Between two messages.                                                   *)
(***************************************************************************)

\* The host has nothing to do in round r.
Idle(h, r) ==
  active[h][r] =>
    /\ ack_count[h][r] < threshold
    /\ nack_count[h][r] > 0 => ack_count[h][r] + nack_count[h][r] < threshold

LEMMA PendingInit == Init => NothingPending
BY ThresholdType DEF Init, NothingPending

LEMMA AskIdle ==
  ASSUME TypeOK, NothingPending, NEW h \in Hosts, NEW r \in Rounds, NEW P \in SUBSET Values,
         propose(h, r, P), NEW g \in Hosts, NEW k \in Rounds
  PROVE  Idle(g, k)'
<1>1. active \in [Hosts -> [Rounds -> BOOLEAN]]
  BY DEF TypeOK
<1>2. active' = [active EXCEPT ![h][r] = TRUE]
  BY DEF propose
<1>3. Elsewhere(h, r, active', active)
  BY <1>1, <1>2, ExceptRound
<1>4. CASE g = h /\ k = r
  BY <1>4, AskStep, ThresholdType DEF Idle, threshold
<1>5. CASE g # h \/ k # r
  BY <1>3, <1>5, AskStep DEF NothingPending, Idle, Elsewhere, threshold
<1> QED
  BY <1>4, <1>5

LEMMA SettleIdle ==
  ASSUME TypeOK, NothingPending, NEW h \in Hosts, NEW pm \in transit, NEW acks \in Nat,
         NEW nacks \in Nat, NEW P, Settle(h, pm, acks, nacks, P), NEW g \in Hosts, NEW k \in Rounds
  PROVE  Idle(g, k)'
<1> DEFINE r == pm.round
<1>1. active \in [Hosts -> [Rounds -> BOOLEAN]] /\ r \in Rounds
  BY MessageFields DEF TypeOK
<1>2. \/ Decide(h, pm, acks, nacks) /\ active' = [active EXCEPT ![h][r] = FALSE]
      \/ Wait(h, pm, acks, nacks) /\ active' = active
  BY DEF Settle, Decide, Wait
<1> HIDE DEF r
<1>3. Elsewhere(h, r, active', active)
  BY <1>1, <1>2, ExceptRound DEF Elsewhere
<1>4. CASE g = h /\ k = r
  <2>1. ack_count'[h][r] = acks /\ nack_count'[h][r] = nacks
    BY CountsStep DEF r
  <2>2. CASE Decide(h, pm, acks, nacks) /\ active' = [active EXCEPT ![h][r] = FALSE]
    BY <1>1, <1>4, <2>2 DEF Idle
  <2>3. CASE Wait(h, pm, acks, nacks) /\ active' = active
    <3>1. /\ ~ReProposes(h, r, acks, nacks)
          /\ ~Decides(h, r, acks, nacks)
      BY <2>3 DEF Wait, r
    <3>2. active[h][r] => acks < threshold /\ (nacks > 0 => acks + nacks < threshold)
      BY <3>1, ThresholdType DEF ReProposes, Decides
    <3> QED
      BY <1>4, <2>1, <2>3, <3>2 DEF Idle, threshold
  <2> QED
    BY <1>2, <2>2, <2>3
<1>5. CASE g # h \/ k # r
  BY <1>3, <1>5, CountsStep DEF NothingPending, Idle, Elsewhere, threshold, r
<1> QED
  BY <1>4, <1>5

LEMMA PendingStep == TypeOK /\ NothingPending /\ [Next]_vars => NothingPending'
<1> SUFFICES ASSUME TypeOK, NothingPending, [Next]_vars, NEW g \in Hosts, NEW k \in Rounds
             PROVE  Idle(g, k)'
  BY DEF NothingPending, Idle
<1>1. ASSUME NEW h \in Hosts, NEW r \in Rounds, NEW P \in SUBSET Values, NEW old, Asks(h, r, P, old)
      PROVE  Idle(g, k)'
  BY <1>1, AskIdle DEF Asks
<1>2. ASSUME NEW h \in Hosts, NEW pm \in transit, NEW acks \in Nat, NEW nacks \in Nat,
             NEW P \in SUBSET Values, Counts(h, pm, acks, nacks, P)
      PROVE  Idle(g, k)'
  BY <1>2, SettleIdle DEF Counts
<1>3. CASE UNCHANGED proposer
  BY <1>3 DEF NothingPending, Idle, proposer, threshold
<1>4. ASSUME NEW h, NEW pm, NEW am, Answers(h, pm, am) \/ Drops(h, pm) PROVE UNCHANGED proposer
  BY <1>4 DEF Answers, Drops
<1> QED
  BY <1>1, <1>2, <1>3, <1>4, StepKinds

-----------------------------------------------------------------------------
(***************************************************************************)
(* The theorems.                                                           *)
(***************************************************************************)

\* The strengthening is an invariant.
THEOREM IndInvHolds == Spec => []IndInv
<1>1. Init => IndInv
  BY TypeInit, RoundInit, BufferInit, AcceptorInit, ExchangeInit, AnswerInit, ValueInit DEF IndInv
<1>2. IndInv /\ [Next]_vars => IndInv'
  <2> SUFFICES ASSUME IndInv, [Next]_vars PROVE IndInv'
    OBVIOUS
  <2>1. TypeOK' /\ RoundInv' /\ BufferInv' /\ AcceptorInv' /\ MessageInv' /\ ExchangeInv'
    BY TypeStep, RoundStep, BufferInvStep, AcceptorStep, MessageStep, ExchangeStep DEF IndInv
  <2>2. AnswerInv' /\ CountsAreAnswers'
    BY AnswerStep, CountsAnswersStep DEF IndInv
  <2>3. QuorumAccepted' /\ ValueInv'
    BY <2>2, QuorumStep, ValueStep DEF IndInv
  <2> QED
    BY <2>1, <2>2, <2>3 DEF IndInv
<1> QED
  BY <1>1, <1>2, PTL DEF Spec

(***************************************************************************)
(* Type correctness; next_round stays within the rounds, the values of a   *)
(* message or a proposal are values of the config files.                   *)
(***************************************************************************)
THEOREM TypeCorrect == Spec => []TypeOK
<1>1. IndInv => TypeOK
  BY DEF IndInv
<1> QED
  BY <1>1, IndInvHolds, PTL

(***************************************************************************)
(* The counters of a round count the hosts that have answered the current  *)
(* proposal: propose() resets them, and an answer to an earlier proposal   *)
(* is recognized by its number.                                            *)
(***************************************************************************)
THEOREM CountsAreAnswersHolds == Spec => []CountsAreAnswers
<1>1. IndInv => CountsAreAnswers
  BY DEF IndInv
<1> QED
  BY <1>1, IndInvHolds, PTL

(***************************************************************************)
(* Between two messages nothing is left to do: the tests after the lock of *)
(* bebDeliver, made whatever has been received, are only ever met by the   *)
(* answer that was just counted.                                           *)
(***************************************************************************)
THEOREM NothingPendingHolds == Spec => []NothingPending
BY PendingInit, PendingStep, TypeCorrect, PTL DEF Spec

\* What one acceptor accepts in a round is a chain.
THEOREM AcceptedIsChainHolds == Spec => []AcceptedIsChain
<1>1. IndInv => AcceptedIsChain
  BY DEF IndInv, AcceptorInv
<1> QED
  BY <1>1, IndInvHolds, PTL

\* A decided set has been accepted as it is by a majority.
THEOREM QuorumAcceptedHolds == Spec => []QuorumAccepted
<1>1. IndInv => QuorumAccepted
  BY DEF IndInv
<1> QED
  BY <1>1, IndInvHolds, PTL

\* An acceptor never goes back behind a set it has acknowledged.
THEOREM AcceptedGrowsHolds == Spec => AcceptedGrows
<1>1. TypeOK /\ [Next]_vars =>
        [\A h \in Hosts : \A r \in Rounds :
           accepted_proposal[h][r] \subseteq accepted_proposal'[h][r]]_vars
  BY AcceptsGrow
<1> QED
  BY <1>1, TypeCorrect, PTL DEF Spec, AcceptedGrows

(***************************************************************************)
(* Two decided sets of a round: a majority has accepted each, so that some *)
(* host has accepted both, and what a host accepts is a chain.             *)
(***************************************************************************)
LEMMA DecidedComparable ==
  ASSUME AcceptorInv, QuorumAccepted,
         NEW g \in Hosts, NEW h \in Hosts, NEW r \in Rounds,
         proposals[g][r] # {}, proposals[h][r] # {}
  PROVE  Comparable(proposals[g][r], proposals[h][r])
<1> DEFINE Q == {k \in Hosts : proposals[g][r] \in accepts[k][r]}
           R == {k \in Hosts : proposals[h][r] \in accepts[k][r]}
<1>1. /\ 2 * Cardinality(Q) > Cardinality(Hosts)
      /\ 2 * Cardinality(R) > Cardinality(Hosts)
  BY DEF QuorumAccepted
<1>2. Q \subseteq Hosts /\ R \subseteq Hosts
  OBVIOUS
<1>3. PICK k \in Q : k \in R
  <2> HIDE DEF Q, R
  <2>1. IsFiniteSet(Q) /\ IsFiniteSet(R)
    BY <1>2, LatticeAssumption, FS_Subset
  <2>2. Cardinality(Q) \in Nat /\ Cardinality(R) \in Nat /\ Cardinality(Hosts) \in Nat
    BY <2>1, LatticeAssumption, FS_CardinalityType
  <2>3. Cardinality(Q) + Cardinality(R) > Cardinality(Hosts)
    BY <1>1, <2>2
  <2>4. Q \cap R # {}
    BY <1>2, <2>3, LatticeAssumption, FS_MajoritiesIntersect
  <2> QED
    BY <2>4
<1> QED
  BY <1>3 DEF AcceptorInv, AcceptedIsChain

\* A line is the decided set of its round.
LEMMA LinesAreDecided ==
  ASSUME TypeOK, BufferInv, NEW h \in Hosts, NEW k \in DOMAIN output[h]
  PROVE  /\ k \in Nat \ {0}
         /\ k - 1 \in Rounds
         /\ output[h][k] = proposals[h][k - 1]
         /\ proposals[h][k - 1] # {}
<1>1. /\ output[h] \in Seq(SUBSET Values)
      /\ deciding[h] \in Seq(SUBSET Values)
      /\ next_round[h] \in 0 .. NumRounds
  BY DEF TypeOK
<1>2. k \in 1 .. Len(output[h]) /\ Len(output[h]) \in Nat /\ Len(deciding[h]) \in Nat
  BY <1>1
<1>3. /\ Len(output[h]) + Len(deciding[h]) = next_round[h]
      /\ \A r \in 0 .. next_round[h] - 1 : proposals[h][r] # {}
      /\ output[h][k] = proposals[h][k - 1]
  BY DEF BufferInv, Released
<1>4. k \in Nat \ {0} /\ k <= next_round[h]
  <2> DEFINE lines == Len(output[h])
             waiting == Len(deciding[h])
  <2>1. lines + waiting = next_round[h]
    BY <1>3
  <2>2. k \in 1 .. lines /\ lines \in Nat /\ waiting \in Nat
    BY <1>2
  <2> HIDE DEF lines, waiting
  <2> QED
    BY <2>1, <2>2
<1>5. k - 1 \in 0 .. next_round[h] - 1 /\ k - 1 \in Rounds
  BY <1>1, <1>4, LatticeAssumption DEF Rounds
<1> QED
  BY <1>3, <1>4, <1>5

(***************************************************************************)
(* Consistency: the sets two hosts write for a round are comparable,       *)
(* whatever is proposed, however many hosts stop.                          *)
(***************************************************************************)
THEOREM ConsistencyHolds == Spec => []Consistency
<1>1. IndInv => Consistency
  <2> SUFFICES ASSUME IndInv, NEW g \in Hosts, NEW h \in Hosts,
                      NEW k \in DOMAIN output[g] \cap DOMAIN output[h]
               PROVE  Comparable(output[g][k], output[h][k])
    BY DEF Consistency
  <2>1. /\ k - 1 \in Rounds
        /\ output[g][k] = proposals[g][k - 1] /\ proposals[g][k - 1] # {}
        /\ output[h][k] = proposals[h][k - 1] /\ proposals[h][k - 1] # {}
    BY LinesAreDecided DEF IndInv
  <2>2. Comparable(proposals[g][k - 1], proposals[h][k - 1])
    BY <2>1, DecidedComparable DEF IndInv
  <2> QED
    BY <2>1, <2>2
<1> QED
  BY <1>1, IndInvHolds, PTL

\* The next line of a host lies between its own proposal and what has been proposed.
LEMMA NextLine ==
  ASSUME IndInv, NEW h \in Hosts, deciding[h] # <<>>
  PROVE  /\ Len(output[h]) \in Rounds
         /\ Head(deciding[h]) = proposals[h][Len(output[h])]
         /\ proposals[h][Len(output[h])] # {}
         /\ Len(output[h]) < proposed[h]
<1> DEFINE lines == Len(output[h])
           waiting == Len(deciding[h])
<1>1. /\ lines \in Nat /\ waiting \in Nat \ {0}
      /\ next_round[h] \in 0 .. NumRounds
      /\ Head(deciding[h]) = deciding[h][1] /\ 1 \in DOMAIN deciding[h]
  <2>1. /\ output[h] \in Seq(SUBSET Values)
        /\ deciding[h] \in Seq(SUBSET Values)
        /\ next_round[h] \in 0 .. NumRounds
    BY DEF IndInv, TypeOK
  <2> QED
    BY <2>1
<1>2. Released(h)
  BY DEF IndInv, BufferInv
<1>3. lines + waiting = next_round[h] /\ deciding[h][1] = proposals[h][lines + 1 - 1]
  BY <1>1, <1>2 DEF Released
<1> HIDE DEF lines, waiting
<1>4. lines \in 0 .. next_round[h] - 1 /\ lines + 1 - 1 = lines
  BY <1>1, <1>3
<1>5. lines \in Rounds
  BY <1>1, <1>4, LatticeAssumption DEF Rounds
<1>6. proposals[h][lines] # {}
  BY <1>2, <1>4 DEF Released
<1>7. proposed[h] \in Nat
  BY DEF IndInv, TypeOK
<1>8. lines < proposed[h]
  BY <1>1, <1>5, <1>6, <1>7 DEF IndInv, RoundInv
<1> QED
  BY <1>1, <1>3, <1>4, <1>5, <1>6, <1>8 DEF lines

(***************************************************************************)
(* Validity: a line holds what the host proposed in its round and nothing  *)
(* that nobody proposed.                                                   *)
(***************************************************************************)
THEOREM ValidityHolds == Spec => []Validity
<1>1. IndInv => Validity
  <2> SUFFICES ASSUME IndInv, NEW h \in Hosts, NEW k \in DOMAIN output[h]
               PROVE  /\ Proposals[h][k] \subseteq output[h][k]
                      /\ \A v \in output[h][k] :
                           \E g \in Hosts : k <= proposed[g] /\ v \in Proposals[g][k]
    BY DEF Validity
  <2>1. /\ k \in Nat \ {0} /\ k - 1 \in Rounds
        /\ output[h][k] = proposals[h][k - 1]
        /\ proposals[h][k - 1] # {}
    BY LinesAreDecided DEF IndInv
  <2>2. /\ Proposals[h][(k - 1) + 1] \subseteq proposals[h][k - 1]
        /\ proposals[h][k - 1] \subseteq Offered(k - 1)
    BY <2>1 DEF IndInv, ValueInv, DecidedValues
  <2>3. (k - 1) + 1 = k /\ \A g \in Hosts : k - 1 < proposed[g] => k <= proposed[g]
    <3>1. \A g \in Hosts : proposed[g] \in Nat
      BY DEF IndInv, TypeOK
    <3> QED
      BY <2>1, <3>1
  <2> QED
    BY <2>1, <2>2, <2>3 DEF Offered
<1> QED
  BY <1>1, IndInvHolds, PTL

LEMMA RefinementInit == Init => LD!Init
BY DEF Init, LD!Init

\* Writing a line is the abstract decision.
LEMMA LaDecideImplements ==
  ASSUME IndInv, NEW h \in Hosts, LaDecide(h)
  PROVE  LD!Next
<1> DEFINE r == Len(output[h])
           D == Head(deciding[h])
<1>1. /\ h \notin stopped /\ deciding[h] # <<>>
      /\ output' = [output EXCEPT ![h] = Append(@, D)]
      /\ UNCHANGED <<proposed, stopped>>
  BY DEF LaDecide
<1>2. /\ r \in Rounds /\ r < proposed[h]
      /\ D = proposals[h][r] /\ proposals[h][r] # {}
  BY <1>1, NextLine
<1>3. Proposals[h][r + 1] \subseteq D /\ D \subseteq Offered(r)
  BY <1>2 DEF IndInv, ValueInv, DecidedValues
<1>4. \A g \in Hosts : r < Len(output[g]) => LD!Comparable(D, output[g][r + 1])
  <2> SUFFICES ASSUME NEW g \in Hosts, r < Len(output[g]) PROVE LD!Comparable(D, output[g][r + 1])
    OBVIOUS
  <2>1. output[g] \in Seq(SUBSET Values) /\ output[h] \in Seq(SUBSET Values)
    BY DEF IndInv, TypeOK
  <2>2. r + 1 \in DOMAIN output[g] /\ (r + 1) - 1 = r
    BY <2>1
  <2>3. output[g][r + 1] = proposals[g][r] /\ proposals[g][r] # {}
    BY <2>2, LinesAreDecided DEF IndInv
  <2> HIDE DEF r, D
  <2>4. Comparable(proposals[h][r], proposals[g][r])
    BY <1>2, <2>3, DecidedComparable DEF IndInv
  <2> QED
    BY <1>2, <2>3, <2>4 DEF Comparable, LD!Comparable
<1>5. Offered(r) = LD!ProposedIn(r)
  BY DEF Offered, LD!ProposedIn
<1>6. LD!Decide(h, D) /\ D \in SUBSET LD!ProposedIn(Len(output[h]))
  BY <1>1, <1>2, <1>3, <1>4, <1>5 DEF LD!Decide
<1> HIDE DEF D
<1> QED
  BY <1>6 DEF LD!Next

\* Every step is a step of LatticeDecisions, or none of it is seen there.
LEMMA RefinementStep == IndInv /\ [Next]_vars => [LD!Next]_(LD!vars)
<1> SUFFICES ASSUME IndInv, [Next]_vars PROVE [LD!Next]_(LD!vars)
  OBVIOUS
<1>1. ASSUME NEW h \in Hosts, ProposeRound(h) PROVE LD!Next
  <2>1. LD!Propose(h)
    BY <1>1 DEF ProposeRound, LD!Propose
  <2> QED
    BY <2>1 DEF LD!Next
<1>2. ASSUME NEW h \in Hosts, Stop(h) PROVE LD!Next
  <2>1. /\ h \notin stopped /\ Cardinality(stopped) < MaxStopped
        /\ stopped' = stopped \cup {h}
        /\ UNCHANGED <<proposed, output>>
    BY <1>2 DEF Stop
  <2>2. LD!Stop(h)
    BY <2>1 DEF LD!Stop, Cardinality, LD!Cardinality
  <2> QED
    BY <2>2 DEF LD!Next
<1>3. ASSUME NEW h \in Hosts, NEW pm \in transit,
             \/ Accept(h, pm) \/ Reject(h, pm) \/ Ignore(h, pm)
             \/ CountAck(h, pm) \/ CountNack(h, pm)
      PROVE  UNCHANGED <<proposed, output, stopped>>
  BY <1>3 DEF Accept, Reject, Ignore, CountAck, CountNack, Receives
<1> QED
  BY <1>1, <1>2, <1>3, LaDecideImplements, StepCases DEF vars, LD!vars

(***************************************************************************)
(* The two halves of bebDeliver and the buffer implement lattice agreement *)
(* in every round: each line a host writes is a decision of                *)
(* LatticeDecisions.                                                       *)
(***************************************************************************)
THEOREM ImplementsLatticeDecisions == Spec => LatticeDecisionsSafety
<1>1. IndInv /\ [Next]_vars => [LD!Next]_(LD!vars)
  BY RefinementStep
<1> QED
  BY <1>1, RefinementInit, IndInvHolds, PTL DEF Spec, LatticeDecisionsSafety, LD!SafeSpec

=============================================================================
