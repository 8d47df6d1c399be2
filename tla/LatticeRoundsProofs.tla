------------------------- MODULE LatticeRoundsProofs -------------------------
(***************************************************************************)
(* Why the rounds of lattice agreement end: a host proposes again only     *)
(* with a larger set, so that among finitely many values it proposes a     *)
(* bounded number of times; and until its round is decided, some running   *)
(* host has yet to answer it, so that the round never gets stuck.  And why *)
(* what the hosts exchange is what they sent: the messages survive the     *)
(* datagrams and the receive buffer they are read from.                    *)
(***************************************************************************)
EXTENDS LatticeAgreementProofs, LatticeMessages

Own(h, r) == Proposals[h][r + 1]

\* How many values P adds to what h has proposed of its own in round r.
Added(h, r, P) == Cardinality(P \ Own(h, r))

(***************************************************************************)
(* The strengthening: a rejection carries a value that the proposal did    *)
(* not have, which has been added as soon as it has been counted, before   *)
(* the host proposes again.                                                *)
(***************************************************************************)
Grown(h, r) ==
  /\ active_proposal_number[h][r] <= 1 + Added(h, r, active_proposal[h][r])
  /\ nack_count[h][r] > 0 =>
       active_proposal_number[h][r] <= Added(h, r, active_proposal[h][r])

Enlarges(pm) ==
  /\ pm.type = "Propose" =>
       /\ Own(pm.sender, pm.round) \subseteq pm.proposal
       /\ pm.proposal_number <= 1 + Added(pm.sender, pm.round, pm.proposal)
  /\ pm.type = "Nack" =>
       pm.proposal_number <= Added(pm.receiver, pm.round, pm.proposal)

GrowsInv ==
  /\ \A h \in Hosts : \A r \in 0 .. proposed[h] - 1 : Grown(h, r)
  /\ \A pm \in transit : Enlarges(pm)

-----------------------------------------------------------------------------
LEMMA AddedGrows ==
  ASSUME IsFiniteSet(Values), NEW h, NEW r,
         NEW Q \in SUBSET Values, NEW P \in SUBSET Q
  PROVE  /\ Added(h, r, P) \in Nat /\ Added(h, r, Q) \in Nat
         /\ Added(h, r, P) <= Added(h, r, Q)
<1>1. IsFiniteSet(Q \ Own(h, r)) /\ P \ Own(h, r) \subseteq Q \ Own(h, r)
  BY FS_Subset
<1> QED
  BY <1>1, FS_Subset, FS_CardinalityType DEF Added

LEMMA AddedMore ==
  ASSUME IsFiniteSet(Values), NEW h, NEW r,
         NEW Q \in SUBSET Values, NEW P \in SUBSET Q, Own(h, r) \subseteq P, P # Q
  PROVE  Added(h, r, P) + 1 <= Added(h, r, Q)
<1>1. PICK v \in Q : v \notin P
  OBVIOUS
<1>2. P \cup {v} \in SUBSET Q /\ v \notin P \ Own(h, r)
  BY <1>1
<1>3. IsFiniteSet(P \ Own(h, r))
  BY FS_Subset
<1>4. Cardinality((P \ Own(h, r)) \cup {v}) = Cardinality(P \ Own(h, r)) + 1
  BY <1>2, <1>3, FS_AddElement
<1>5. (P \cup {v}) \ Own(h, r) = (P \ Own(h, r)) \cup {v}
  BY <1>1
<1>6. Added(h, r, P \cup {v}) = Added(h, r, P) + 1
  BY <1>4, <1>5 DEF Added
<1> QED
  BY <1>2, <1>6, AddedGrows

\* A host only gets answers in rounds it has proposed in.
LEMMA AnsweredRound ==
  ASSUME TypeOK, RoundInv, NEW h \in Hosts, NEW pm \in transit, IsCurrent(h, pm)
  PROVE  pm.round \in 0 .. proposed[h] - 1
<1>1. /\ pm.round \in Rounds /\ pm.round \in Nat /\ proposed[h] \in Nat
      /\ pm.proposal_number \in Nat \ {0}
  BY MessageFields DEF TypeOK, Rounds
<1>2. ~ (pm.round >= proposed[h])
  BY <1>1 DEF RoundInv, IsCurrent
<1> QED
  BY <1>1, <1>2

\* Once an answer has been counted.
LEMMA CountedAdded ==
  ASSUME IsFiniteSet(Values), TypeOK, RoundInv, GrowsInv,
         NEW h \in Hosts, NEW pm \in transit, CountAck(h, pm) \/ CountNack(h, pm)
  PROVE  \E acks, nacks \in Nat, P \in SUBSET Values :
           /\ active_proposal[h][pm.round] \subseteq P
           /\ nacks > 0 => active_proposal_number[h][pm.round] <= Added(h, pm.round, P)
           /\ active_proposal_number[h][pm.round] <= 1 + Added(h, pm.round, P)
           /\ ProposeAgain(h, pm, acks, nacks, P) \/ Settle(h, pm, acks, nacks, P)
<1> DEFINE r == pm.round
           A == active_proposal[h][r]
           n == active_proposal_number[h][r]
<1>1. /\ pm.round \in Rounds
      /\ pm.proposal \in SUBSET Values
      /\ ack_count[h][r] \in Nat
      /\ nack_count[h][r] \in Nat
      /\ A \in SUBSET Values
      /\ n \in Nat
  <2>1. pm.round \in Rounds /\ pm.proposal \in SUBSET Values
    BY MessageFields
  <2> HIDE DEF r
  <2>2. \A k \in Rounds :
          /\ ack_count[h][k] \in Nat /\ nack_count[h][k] \in Nat
          /\ active_proposal[h][k] \in SUBSET Values /\ active_proposal_number[h][k] \in Nat
    BY DEF TypeOK
  <2> QED
    BY <2>1, <2>2 DEF r
<1>2. IsCurrent(h, pm) /\ pm.receiver = h /\ pm.proposal_number = n
  BY DEF CountAck, CountNack, IsCurrent, Receives
<1>3. Grown(h, r) /\ Enlarges(pm)
  BY <1>2, AnsweredRound DEF GrowsInv
<1>4. CASE CountAck(h, pm)
  <2> DEFINE acks == ack_count[h][r] + 1
             nacks == nack_count[h][r]
  <2>1. ProposeAgain(h, pm, acks, nacks, A) \/ Settle(h, pm, acks, nacks, A)
    BY <1>4 DEF CountAck, Count, Settle
  <2>2. /\ acks \in Nat /\ nacks \in Nat
        /\ nacks > 0 => n <= Added(h, r, A)
        /\ n <= 1 + Added(h, r, A)
    BY <1>1, <1>3 DEF Grown
  <2> HIDE DEF acks, nacks, A, n
  <2> QED
    BY <1>1, <2>1, <2>2 DEF A, n
<1>5. CASE CountNack(h, pm)
  <2> DEFINE acks == ack_count[h][r]
             nacks == nack_count[h][r] + 1
             P == A \cup pm.proposal
  <2>1. ProposeAgain(h, pm, acks, nacks, P) \/ Settle(h, pm, acks, nacks, P)
    BY <1>5 DEF CountNack, Count, Settle
  <2>2. n <= Added(h, r, pm.proposal)
    BY <1>2, <1>3, <1>5 DEF Enlarges, CountNack
  <2>3. P \in SUBSET Values /\ pm.proposal \in SUBSET P
    BY <1>1
  <2>4. /\ Added(h, r, pm.proposal) \in Nat /\ Added(h, r, P) \in Nat
        /\ Added(h, r, pm.proposal) <= Added(h, r, P)
    BY <2>3, AddedGrows
  <2>5. /\ acks \in Nat /\ nacks \in Nat /\ A \subseteq P
        /\ n <= Added(h, r, P) /\ n <= 1 + Added(h, r, P)
    BY <1>1, <2>2, <2>4
  <2> HIDE DEF acks, nacks, P
  <2> QED
    BY <2>1, <2>3, <2>5
<1> QED
  BY <1>4, <1>5

-----------------------------------------------------------------------------
LEMMA GrowsInit == Init => GrowsInv
<1> SUFFICES ASSUME Init PROVE GrowsInv
  OBVIOUS
<1>1. \A h \in Hosts : 0 .. proposed[h] - 1 = {}
  BY DEF Init
<1> QED
  BY <1>1 DEF Init, GrowsInv

\* A proposal, of the main thread or repeated.
LEMMA AskGrows ==
  ASSUME IsFiniteSet(Values), TypeOK, GrowsInv,
         NEW h \in Hosts, NEW r \in Rounds, NEW P \in SUBSET Values,
         propose(h, r, P),
         transit' \subseteq transit \cup Broadcast(h, r, P),
         Own(h, r) \subseteq P,
         active_proposal_number[h][r] <= Added(h, r, P),
         \A k \in Hosts : \A q \in 0 .. proposed'[k] - 1 :
           q \in Rounds /\ (q \in 0 .. proposed[k] - 1 \/ (k = h /\ q = r))
  PROVE  GrowsInv'
<1>1. /\ active_proposal_number'[h][r] = active_proposal_number[h][r] + 1
      /\ active_proposal'[h][r] = P
      /\ nack_count'[h][r] = 0
      /\ Elsewhere(h, r, active_proposal_number', active_proposal_number)
      /\ Elsewhere(h, r, active_proposal', active_proposal)
      /\ Elsewhere(h, r, nack_count', nack_count)
  BY AskStep
<1>2. Added(h, r, P) \in Nat /\ active_proposal_number[h][r] \in Nat
  <2>1. Added(h, r, P) \in Nat
    BY AddedGrows
  <2> QED
    BY <2>1 DEF TypeOK
<1>3. Grown(h, r)'
  BY <1>1, <1>2 DEF Grown
<1>4. ASSUME NEW k \in Hosts, NEW q \in 0 .. proposed'[k] - 1 PROVE Grown(k, q)'
  <2>1. CASE k = h /\ q = r
    BY <1>3, <2>1
  <2>2. CASE ~ (k = h /\ q = r)
    <3>1. Grown(k, q) /\ q \in Rounds
      BY <2>2 DEF GrowsInv
    <3>2. /\ active_proposal_number'[k][q] = active_proposal_number[k][q]
          /\ active_proposal'[k][q] = active_proposal[k][q]
          /\ nack_count'[k][q] = nack_count[k][q]
      BY <1>1, <2>2, <3>1 DEF Elsewhere
    <3> QED
      BY <3>1, <3>2 DEF Grown
  <2> QED
    BY <2>1, <2>2
<1>5. ASSUME NEW pm \in transit' PROVE Enlarges(pm)
  <2>1. CASE pm \in Broadcast(h, r, P)
    <3>1. /\ pm.type = "Propose" /\ pm.round = r /\ pm.proposal = P /\ Proposer(pm) = h
          /\ pm.proposal_number = active_proposal_number[h][r] + 1
      BY <2>1, BroadcastFields
    <3>2. pm.sender = h /\ pm.proposal_number <= 1 + Added(h, r, P)
      BY <1>2, <3>1 DEF Proposer
    <3> QED
      BY <3>1, <3>2 DEF Enlarges
  <2> QED
    BY <2>1 DEF GrowsInv
<1> QED
  BY <1>4, <1>5 DEF GrowsInv, Enlarges

LEMMA GrowsStep ==
  ASSUME IsFiniteSet(Values), TypeOK, RoundInv, OwnValues, GrowsInv, [Next]_vars
  PROVE  GrowsInv'
<1>1. ASSUME NEW k \in Hosts, NEW q \in 0 .. proposed[k] - 1 PROVE q \in Rounds
  <2>1. proposed[k] \in 0 .. NumRounds /\ NumRounds \in Nat
    BY LatticeAssumption DEF TypeOK
  <2> QED
    BY <1>1, <2>1 DEF Rounds
<1>2. ASSUME UNCHANGED <<proposed, proposer>>, \A pm \in transit' : Enlarges(pm)
      PROVE  GrowsInv'
  BY <1>2 DEF GrowsInv, Grown, Enlarges, proposer
<1>3. ASSUME NEW h \in Hosts, ProposeRound(h) PROVE GrowsInv'
  <2>1. PICK r \in Rounds, P \in SUBSET Values :
           /\ P = Proposals[h][r + 1]
           /\ proposed' = [proposed EXCEPT ![h] = r + 1]
           /\ r = proposed[h]
           /\ propose(h, r, P)
           /\ transit' = transit \cup Broadcast(h, r, P)
    BY <1>3, ProposeRoundStep
  <2>2. active_proposal_number[h][r] = 0
    BY <2>1 DEF RoundInv, Rounds
  <2>3. Added(h, r, P) \in Nat
    BY AddedGrows
  <2>4. ASSUME NEW k \in Hosts, NEW q \in 0 .. proposed'[k] - 1
        PROVE  q \in Rounds /\ (q \in 0 .. proposed[k] - 1 \/ (k = h /\ q = r))
    <3>1. /\ proposed \in [Hosts -> 0 .. NumRounds]
          /\ \A f \in Hosts : proposed[f] \in 0 .. NumRounds
      BY DEF TypeOK
    <3>2. proposed'[k] = IF k = h THEN r + 1 ELSE proposed[k]
      BY <2>1, <3>1
    <3>3. NumRounds \in Nat /\ r \in 0 .. NumRounds - 1
      BY LatticeAssumption DEF Rounds
    <3>4. q \in Rounds
      BY <2>4, <3>1, <3>2, <3>3 DEF Rounds
    <3>5. q \in 0 .. proposed[k] - 1 \/ (k = h /\ q = r)
      BY <2>1, <2>4, <3>1, <3>2, <3>3
    <3> QED
      BY <3>4, <3>5
  <2> QED
    BY <2>1, <2>2, <2>3, <2>4, AskGrows DEF Own
<1>4. ASSUME NEW h \in Hosts, NEW pm \in transit, Accept(h, pm) PROVE GrowsInv'
  <2>1. Enlarges(create_ack(pm))
    BY DEF Enlarges, create_ack, ProposalMessage
  <2>2. \A qm \in transit' : Enlarges(qm)
    BY <1>4, <2>1 DEF Accept, GrowsInv
  <2> QED
    BY <1>2, <1>4, <2>2 DEF Accept, Receives
<1>5. ASSUME NEW h \in Hosts, NEW pm \in transit, Reject(h, pm) PROVE GrowsInv'
  <2> DEFINE P == accepted_proposal[h][pm.round] \cup pm.proposal
             am == create_nack(pm, P)
  <2>1. /\ pm.proposal_number \in Nat /\ pm.round \in Rounds /\ pm.proposal \in SUBSET P
        /\ P \in SUBSET Values
    BY MessageFields DEF TypeOK
  <2>2. /\ Own(pm.sender, pm.round) \subseteq pm.proposal
        /\ pm.proposal_number <= 1 + Added(pm.sender, pm.round, pm.proposal)
    BY <1>5 DEF GrowsInv, Enlarges, Reject
  <2>3. pm.proposal # P
    BY <1>5 DEF Reject, Acceptable
  <2>4. /\ Added(pm.sender, pm.round, pm.proposal) \in Nat
        /\ Added(pm.sender, pm.round, P) \in Nat
        /\ Added(pm.sender, pm.round, pm.proposal) + 1 <= Added(pm.sender, pm.round, P)
    BY <2>1, <2>2, <2>3, AddedGrows, AddedMore
  <2>5. pm.proposal_number <= Added(pm.sender, pm.round, P)
    BY <2>1, <2>2, <2>4
  <2>6. /\ am.type = "Nack" /\ am.round = pm.round /\ am.receiver = pm.sender
        /\ am.proposal = P /\ am.proposal_number = pm.proposal_number
    BY DEF create_nack, ProposalMessage
  <2>7. Enlarges(am)
    BY <2>5, <2>6 DEF Enlarges
  <2>8. \A qm \in transit' : Enlarges(qm)
    BY <1>5, <2>7 DEF Reject, GrowsInv
  <2> QED
    BY <1>2, <1>5, <2>8 DEF Reject, Receives
<1>6. ASSUME NEW h \in Hosts, NEW pm \in transit, CountAck(h, pm) \/ CountNack(h, pm)
      PROVE  GrowsInv'
  <2> DEFINE r == pm.round
  <2>1. PICK acks \in Nat, nacks \in Nat, P \in SUBSET Values :
           /\ active_proposal[h][r] \subseteq P
           /\ nacks > 0 => active_proposal_number[h][r] <= Added(h, r, P)
           /\ active_proposal_number[h][r] <= 1 + Added(h, r, P)
           /\ ProposeAgain(h, pm, acks, nacks, P) \/ Settle(h, pm, acks, nacks, P)
    BY <1>6, CountedAdded
  <2>2. IsCurrent(h, pm) /\ UNCHANGED proposed
    BY <1>6 DEF CountAck, CountNack, Receives
  <2>3. r \in Rounds /\ r \in Nat /\ r \in 0 .. proposed[h] - 1 /\ proposed[h] \in Nat
    <3>1. r \in Rounds /\ r \in Nat
      BY MessageFields DEF Rounds
    <3>2. proposed[h] \in Nat
      BY DEF TypeOK
    <3> QED
      BY <2>2, <3>1, <3>2, AnsweredRound
  <2>4. Own(h, r) \subseteq P
    BY <2>1, <2>3 DEF OwnValues, Own
  <2>5. CASE ProposeAgain(h, pm, acks, nacks, P)
    <3>1. nacks > 0 /\ propose(h, r, P) /\ transit' = (transit \ {pm}) \cup Broadcast(h, r, P)
      BY <2>5 DEF ProposeAgain, ReProposes
    <3> HIDE DEF r
    <3> QED
      BY <1>1, <2>1, <2>2, <2>3, <2>4, <3>1, AskGrows
  <2>6. CASE Settle(h, pm, acks, nacks, P)
    <3>1. /\ active_proposal'[h][r] = P /\ nack_count'[h][r] = nacks
          /\ Elsewhere(h, r, active_proposal', active_proposal)
          /\ Elsewhere(h, r, nack_count', nack_count)
      BY <2>6, CountsStep
    <3>2. active_proposal_number' = active_proposal_number /\ transit' = transit \ {pm}
      BY <2>6 DEF Settle
    <3>3. ASSUME NEW k \in Hosts, NEW q \in 0 .. proposed[k] - 1 PROVE Grown(k, q)'
      <4>1. CASE k = h /\ q = r
        BY <2>1, <3>1, <3>2, <4>1 DEF Grown
      <4>2. CASE ~ (k = h /\ q = r)
        <5>1. Grown(k, q) /\ q \in Rounds
          BY <1>1 DEF GrowsInv
        <5>2. /\ active_proposal'[k][q] = active_proposal[k][q]
              /\ nack_count'[k][q] = nack_count[k][q]
          BY <3>1, <4>2, <5>1 DEF Elsewhere
        <5> QED
          BY <3>2, <5>1, <5>2 DEF Grown
      <4> QED
        BY <4>1, <4>2
    <3>4. \A qm \in transit' : Enlarges(qm)
      BY <3>2 DEF GrowsInv
    <3> QED
      BY <2>2, <3>3, <3>4 DEF GrowsInv, Enlarges
  <2> QED
    BY <2>1, <2>5, <2>6
<1>7. ASSUME NEW h \in Hosts, LaDecide(h) \/ Stop(h) PROVE GrowsInv'
  BY <1>2, <1>7 DEF LaDecide, Stop, GrowsInv
<1>8. ASSUME NEW h \in Hosts, NEW pm \in transit, Ignore(h, pm) PROVE GrowsInv'
  BY <1>2, <1>8 DEF Ignore, Receives, GrowsInv
<1>9. CASE UNCHANGED vars
  BY <1>2, <1>9 DEF vars, GrowsInv
<1> QED
  BY <1>3, <1>4, <1>5, <1>6, <1>7, <1>8, <1>9, StepCases

(***************************************************************************)
(* If the config files hold finitely many values, the n-th proposal of a   *)
(* host in a round has n - 1 values that its first one did not have.       *)
(***************************************************************************)
THEOREM EveryProposalGrowsHolds ==
  ASSUME IsFiniteSet(Values)
  PROVE  Spec => []EveryProposalGrows
<1>1. IndInv /\ GrowsInv /\ [Next]_vars => GrowsInv'
  BY GrowsStep DEF IndInv, ValueInv
<1>2. GrowsInv => EveryProposalGrows
  BY DEF GrowsInv, Grown, Added, Own, EveryProposalGrows
<1> QED
  BY <1>1, <1>2, GrowsInit, IndInvHolds, PTL DEF Spec

-----------------------------------------------------------------------------
(***************************************************************************)
(* Why a round never gets stuck: the buffer waits for a round whose set it *)
(* does not have, and a round that has been proposed in is active until    *)
(* its set is there.  While it is active, the counters are short of a      *)
(* quorum (NothingPending), and they count who has answered                *)
(* (CountsAreAnswers); so not all of a running majority has.               *)
(***************************************************************************)
WaitsInv ==
  \A h \in Hosts : next_round[h] < NumRounds => proposals[h][next_round[h]] = {}

Pursued(h, r) ==
  /\ active[h][r] => Proposed(h, r)
  /\ r < proposed[h] => active[h][r] \/ Own(h, r) = {} \/ proposals[h][r] # {}

PursuedInv == \A h \in Hosts : \A r \in Rounds : Pursued(h, r)

LEMMA PursuedInit == Init => WaitsInv /\ PursuedInv
<1> SUFFICES ASSUME Init PROVE WaitsInv /\ PursuedInv
  OBVIOUS
<1>1. WaitsInv
  BY LatticeAssumption DEF Init, WaitsInv, Rounds
<1>2. PursuedInv
  BY DEF Init, PursuedInv, Pursued, Rounds
<1> QED
  BY <1>1, <1>2

\* A counted answer decides, or leaves the buffer alone.
LEMMA BufferSteps ==
  ASSUME TypeOK, [Next]_vars
  PROVE  \/ UNCHANGED <<proposals, next_round>>
         \/ \E h \in Hosts : \E pm \in transit, acks, nacks \in Nat, P \in SUBSET Values :
              Counts(h, pm, acks, nacks, P) /\ Decide(h, pm, acks, nacks)
<1>1. ASSUME NEW h \in Hosts, ProposeRound(h) \/ LaDecide(h) \/ Stop(h)
      PROVE  UNCHANGED <<proposals, next_round>>
  BY <1>1 DEF ProposeRound, LaDecide, Stop, buffer
<1>2. ASSUME NEW h \in Hosts, NEW pm \in transit, Accept(h, pm) \/ Reject(h, pm) \/ Ignore(h, pm)
      PROVE  UNCHANGED <<proposals, next_round>>
  BY <1>2 DEF Accept, Reject, Ignore, buffer
<1>3. ASSUME NEW h \in Hosts, NEW pm \in transit, CountAck(h, pm) \/ CountNack(h, pm)
      PROVE  \/ UNCHANGED <<proposals, next_round>>
             \/ \E acks, nacks \in Nat, P \in SUBSET Values :
                  Counts(h, pm, acks, nacks, P) /\ Decide(h, pm, acks, nacks)
  <2>1. PICK acks \in Nat, nacks \in Nat, P \in SUBSET Values :
           /\ acks + nacks = ack_count[h][pm.round] + nack_count[h][pm.round] + 1
           /\ nacks >= nack_count[h][pm.round]
           /\ nacks = 0 => pm.type = "Ack" /\ P = active_proposal[h][pm.round]
           /\ ProposeAgain(h, pm, acks, nacks, P) \/ Settle(h, pm, acks, nacks, P)
    BY <1>3, CountStep
  <2>2. CASE ProposeAgain(h, pm, acks, nacks, P) \/ Wait(h, pm, acks, nacks)
    BY <2>2 DEF ProposeAgain, Wait, buffer
  <2>3. CASE Settle(h, pm, acks, nacks, P) /\ Decide(h, pm, acks, nacks)
    <3>1. /\ pm.type # "Propose" /\ pm.receiver = h
          /\ IsCurrent(h, pm)
          /\ UNCHANGED acceptor
      BY <1>3, SettleStep DEF Receives
    <3>2. Counts(h, pm, acks, nacks, P)
      BY <2>1, <2>3, <3>1 DEF Counts
    <3> QED
      BY <2>3, <3>2
  <2> QED
    BY <2>1, <2>2, <2>3 DEF Settle
<1>4. CASE UNCHANGED vars
  BY <1>4 DEF vars, buffer
<1> QED
  BY <1>1, <1>2, <1>3, <1>4, StepCases

LEMMA WaitsStep == TypeOK /\ WaitsInv /\ [Next]_vars => WaitsInv'
<1> SUFFICES ASSUME TypeOK, WaitsInv, [Next]_vars PROVE WaitsInv'
  OBVIOUS
<1>1. CASE UNCHANGED <<proposals, next_round>>
  BY <1>1 DEF WaitsInv
<1>2. ASSUME NEW h \in Hosts, NEW pm \in transit, NEW acks \in Nat, NEW nacks \in Nat,
             Decide(h, pm, acks, nacks)
      PROVE  WaitsInv'
  <2>1. /\ pm.round \in Rounds /\ pm.proposal \in SUBSET Values
        /\ BufferDeliver(h, pm.round, pm.proposal)
    BY <1>2, MessageFields DEF Decide
  <2>2. PICK m \in next_round[h] .. NumRounds :
          /\ next_round' = [next_round EXCEPT ![h] = m]
          /\ m = NumRounds \/ proposals'[h][m] = {}
    BY <2>1, BufferStep
  <2>3. proposals' = [proposals EXCEPT ![h][pm.round] = pm.proposal]
    BY <2>1, BufferStep
  <2>4. NumRounds \in Nat
    BY LatticeAssumption
  <2>5. next_round'[h] = m
    BY <2>2 DEF TypeOK
  <2>6. \A g \in Hosts : g # h =>
           next_round'[g] = next_round[g] /\ proposals'[g] = proposals[g]
    BY <2>2, <2>3 DEF TypeOK
  <2>7. ASSUME NEW g \in Hosts, next_round'[g] < NumRounds
        PROVE  proposals'[g][next_round'[g]] = {}
    <3>1. CASE g = h
      BY <2>2, <2>4, <2>5, <2>7, <3>1
    <3>2. CASE g # h
      BY <2>6, <2>7, <3>2 DEF WaitsInv
    <3> QED
      BY <3>1, <3>2
  <2> QED
    BY <2>7 DEF WaitsInv
<1> QED
  BY <1>1, <1>2, BufferSteps

\* A new proposal makes its round active; no other round changes.
LEMMA AskPursued ==
  ASSUME TypeOK, PursuedInv, NEW h \in Hosts, NEW r \in Rounds, NEW P \in SUBSET Values,
         propose(h, r, P), UNCHANGED proposals,
         NEW g \in Hosts, NEW k \in Rounds, g # h \/ k # r => (k < proposed'[g] => k < proposed[g])
  PROVE  Pursued(g, k)'
<1>1. active \in [Hosts -> [Rounds -> BOOLEAN]] /\ active_proposal_number[h][r] \in Nat
  <2>1. /\ active \in [Hosts -> [Rounds -> BOOLEAN]]
        /\ active_proposal_number \in [Hosts -> [Rounds -> Nat]]
    BY DEF TypeOK
  <2> QED
    BY <2>1
<1>2. active' = [active EXCEPT ![h][r] = TRUE]
  BY DEF propose
<1>3. active'[h][r] = TRUE /\ Elsewhere(h, r, active', active)
  BY <1>1, <1>2, ExceptRound
<1>4. /\ active_proposal_number'[h][r] = active_proposal_number[h][r] + 1
      /\ Elsewhere(h, r, active_proposal_number', active_proposal_number)
  BY AskStep
<1>5. CASE g = h /\ k = r
  BY <1>1, <1>3, <1>4, <1>5 DEF Pursued, Proposed
<1>6. CASE g # h \/ k # r
  <2>1. active'[g][k] = active[g][k] /\ active_proposal_number'[g][k] = active_proposal_number[g][k]
    BY <1>3, <1>4, <1>6 DEF Elsewhere
  <2>2. Pursued(g, k)
    BY DEF PursuedInv
  <2> QED
    BY <1>6, <2>1, <2>2 DEF Pursued, Proposed, Own
<1> QED
  BY <1>5, <1>6

\* A round that is no longer active has its set: one that contains the host's own proposal.
LEMMA DecidePursued ==
  ASSUME IndInv, PursuedInv, [Next]_vars, NEW h \in Hosts, NEW pm \in transit, NEW acks \in Nat,
         NEW nacks \in Nat, NEW P \in SUBSET Values,
         Counts(h, pm, acks, nacks, P), Decide(h, pm, acks, nacks), UNCHANGED proposed,
         NEW g \in Hosts, NEW k \in Rounds
  PROVE  Pursued(g, k)'
<1> DEFINE r == pm.round
<1> USE DEF IndInv
<1>1. /\ r \in Rounds
      /\ pm.proposal = active_proposal[h][r]
      /\ proposals'[h][r] = pm.proposal
      /\ Elsewhere(h, r, proposals', proposals)
  BY DecidedSet
<1>2. active' = [active EXCEPT ![h][r] = FALSE] /\ UNCHANGED active_proposal_number
  BY DEF Counts, Settle, Decide
<1>3. active \in [Hosts -> [Rounds -> BOOLEAN]]
  BY DEF TypeOK
<1> HIDE DEF r
<1>4. ~active'[h][r] /\ Elsewhere(h, r, active', active)
  BY <1>1, <1>2, <1>3, ExceptRound
<1>5. Pursued(g, k)
  BY DEF PursuedInv
<1>6. CASE g = h /\ k = r
  <2>1. r < proposed[h] => Own(h, r) \subseteq pm.proposal
    BY <1>1 DEF ValueInv, OwnValues, Own
  <2> QED
    BY <1>1, <1>4, <1>6, <2>1 DEF Pursued, Own
<1>7. CASE g # h \/ k # r
  <2>1. active'[g][k] = active[g][k] /\ proposals'[g][k] = proposals[g][k]
    BY <1>1, <1>4, <1>7 DEF Elsewhere
  <2> QED
    BY <1>2, <1>5, <2>1 DEF Pursued, Proposed, Own
<1> QED
  BY <1>6, <1>7

LEMMA PursuedStep == IndInv /\ PursuedInv /\ [Next]_vars => PursuedInv'
<1> SUFFICES ASSUME IndInv, PursuedInv, [Next]_vars, NEW g \in Hosts, NEW k \in Rounds
             PROVE  Pursued(g, k)'
  BY DEF PursuedInv
<1>1. TypeOK
  BY DEF IndInv
<1>2. ASSUME NEW h \in Hosts, ProposeRound(h) PROVE Pursued(g, k)'
  <2>1. PICK r \in Rounds, P \in SUBSET Values :
           /\ proposed' = [proposed EXCEPT ![h] = r + 1]
           /\ r = proposed[h]
           /\ propose(h, r, P)
    BY <1>1, <1>2, ProposeRoundStep
  <2>2. UNCHANGED proposals
    BY <1>2 DEF ProposeRound, buffer
  <2>3. ASSUME g # h \/ k # r, k < proposed'[g] PROVE k < proposed[g]
    <3>1. CASE g # h
      BY <1>1, <2>1, <2>3, <3>1 DEF TypeOK
    <3>2. CASE g = h
      <4>1. proposed'[h] = r + 1 /\ k # r
        BY <1>1, <2>1, <2>3, <3>2 DEF TypeOK
      <4>2. k \in Nat /\ r \in Nat
        BY DEF Rounds
      <4> QED
        BY <2>1, <2>3, <3>2, <4>1, <4>2
    <3> QED
      BY <3>1, <3>2
  <2> QED
    BY <1>1, <2>1, <2>2, <2>3, AskPursued
<1>3. ASSUME NEW h \in Hosts, NEW pm \in transit, CountAck(h, pm) \/ CountNack(h, pm)
      PROVE  Pursued(g, k)'
  <2>1. PICK acks \in Nat, nacks \in Nat, P \in SUBSET Values :
           /\ acks + nacks = ack_count[h][pm.round] + nack_count[h][pm.round] + 1
           /\ nacks >= nack_count[h][pm.round]
           /\ nacks = 0 => pm.type = "Ack" /\ P = active_proposal[h][pm.round]
           /\ ProposeAgain(h, pm, acks, nacks, P) \/ Settle(h, pm, acks, nacks, P)
    BY <1>1, <1>3, CountStep
  <2>2. /\ pm.type # "Propose" /\ pm.receiver = h
        /\ IsCurrent(h, pm)
        /\ UNCHANGED acceptor
        /\ UNCHANGED proposed
        /\ pm.round \in Rounds
    BY <1>1, <1>3, SettleStep, MessageFields DEF Receives
  <2>3. CASE ProposeAgain(h, pm, acks, nacks, P)
    <3>1. propose(h, pm.round, P) /\ UNCHANGED proposals
      BY <2>3 DEF ProposeAgain, buffer
    <3> QED
      BY <1>1, <2>2, <3>1, AskPursued
  <2>4. CASE Settle(h, pm, acks, nacks, P)
    <3>1. Counts(h, pm, acks, nacks, P)
      BY <2>1, <2>2, <2>4 DEF Counts
    <3>2. CASE Decide(h, pm, acks, nacks)
      BY <2>2, <3>1, <3>2, DecidePursued
    <3>3. CASE Wait(h, pm, acks, nacks)
      <4>1. UNCHANGED <<active, proposals, active_proposal_number>>
        BY <2>4, <3>3 DEF Settle, Wait, buffer
      <4>2. Pursued(g, k)
        BY DEF PursuedInv
      <4> QED
        BY <2>2, <4>1, <4>2 DEF Pursued, Proposed, Own
    <3> QED
      BY <2>4, <3>2, <3>3 DEF Settle
  <2> QED
    BY <2>1, <2>3, <2>4
<1>4. CASE UNCHANGED <<proposed, active, proposals, active_proposal_number>>
  <2>1. Pursued(g, k)
    BY DEF PursuedInv
  <2> QED
    BY <1>4, <2>1 DEF Pursued, Proposed, Own
<1>5. ASSUME NEW h \in Hosts, LaDecide(h) \/ Stop(h)
      PROVE  UNCHANGED <<proposed, active, proposals, active_proposal_number>>
  BY <1>5 DEF LaDecide, Stop, proposer, buffer
<1>6. ASSUME NEW h \in Hosts, NEW pm \in transit, Accept(h, pm) \/ Reject(h, pm) \/ Ignore(h, pm)
      PROVE  UNCHANGED <<proposed, active, proposals, active_proposal_number>>
  BY <1>6 DEF Accept, Reject, Ignore, Receives, proposer, buffer
<1>7. CASE UNCHANGED vars
  BY <1>4, <1>7 DEF vars, proposer, buffer
<1> QED
  BY <1>2, <1>3, <1>4, <1>5, <1>6, <1>7, StepCases

\* The counters of a round that a running majority has answered reach a quorum.
LEMMA AllAnswered ==
  ASSUME TypeOK, CountsAreAnswers, 2 * Cardinality(stopped) < Cardinality(Hosts),
         NEW h \in Hosts, NEW r \in Rounds, Proposed(h, r),
         \A g \in Hosts \ stopped : g \in Answered(h, r)
  PROVE  ack_count[h][r] + nack_count[h][r] >= threshold
<1> DEFINE A == Answered(h, r)
<1>1. A \subseteq Hosts /\ IsFiniteSet(A) /\ Cardinality(A) \in Nat
  BY AnsweredFinite
<1>2. IsFiniteSet(Hosts) /\ stopped \subseteq Hosts
  BY LatticeAssumption DEF TypeOK
<1>3. Hosts \ stopped \subseteq A /\ Hosts \cap stopped = stopped
  BY <1>2
<1>4. ack_count[h][r] + nack_count[h][r] = Cardinality(A)
  BY DEF CountsAreAnswers
<1> HIDE DEF A
<1>5. Cardinality(Hosts \ stopped) <= Cardinality(A)
  BY <1>1, <1>3, FS_Subset
<1>6. Cardinality(Hosts \ stopped) = Cardinality(Hosts) - Cardinality(stopped)
  <2>1. IsFiniteSet(stopped)
    BY <1>2, FS_Subset
  <2>2. Cardinality(Hosts \ stopped) = Cardinality(Hosts) - Cardinality(Hosts \cap stopped)
    BY <1>2, <2>1, FS_Difference
  <2> QED
    BY <1>3, <2>2
<1>7. Cardinality(Hosts) \in Nat /\ Cardinality(stopped) \in Nat
  BY <1>2, FS_Subset, FS_CardinalityType
<1> QED
  BY <1>1, <1>4, <1>5, <1>6, <1>7 DEF threshold

LEMMA RoundNotStuck == IndInv /\ NothingPending /\ WaitsInv /\ PursuedInv => NoRoundStuck
<1> SUFFICES ASSUME IndInv, NothingPending, WaitsInv, PursuedInv,
                    2 * Cardinality(stopped) < Cardinality(Hosts),
                    NEW h \in Hosts \ stopped, Len(output[h]) < proposed[h],
                    Own(h, Len(output[h])) # {}, deciding[h] = <<>>,
                    \A g \in Hosts \ stopped : g \in Answered(h, Len(output[h]))
             PROVE  FALSE
  BY DEF NoRoundStuck, Own
<1> DEFINE r == Len(output[h])
<1> USE DEF IndInv
<1>1. r = next_round[h]
  <2>1. r \in Nat
    BY DEF TypeOK
  <2>2. Len(deciding[h]) = 0
    OBVIOUS
  <2>3. r + Len(deciding[h]) = next_round[h]
    BY DEF BufferInv, Released
  <2> QED
    BY <2>1, <2>2, <2>3
<1>2. proposed[h] \in 0 .. NumRounds /\ NumRounds \in Nat /\ r \in Nat
  BY LatticeAssumption DEF TypeOK
<1>3. r \in Rounds /\ r < NumRounds
  BY <1>2 DEF Rounds
<1> HIDE DEF r
<1>4. proposals[h][r] = {}
  BY <1>1, <1>3 DEF WaitsInv
<1>5. active[h][r] /\ Proposed(h, r)
  BY <1>3, <1>4 DEF PursuedInv, Pursued, r
\* All running hosts have answered, so the host had something to do.
<1>6. ack_count[h][r] + nack_count[h][r] >= threshold
  BY <1>3, <1>5, AllAnswered DEF r
<1>7. Idle(h, r)
  BY <1>3 DEF NothingPending, Idle
<1>8. ack_count[h][r] \in Nat /\ nack_count[h][r] \in Nat
  BY <1>3 DEF TypeOK
<1> QED
  BY <1>5, <1>6, <1>7, <1>8, ThresholdType DEF Idle

(***************************************************************************)
(* While a majority runs, no round of a running host is left with neither  *)
(* a set nor an answer from a running host on its way.                     *)
(***************************************************************************)
THEOREM NoRoundStuckHolds == Spec => []NoRoundStuck
<1>1. IndInv /\ PursuedInv /\ WaitsInv /\ [Next]_vars => PursuedInv' /\ WaitsInv'
  BY PursuedStep, WaitsStep DEF IndInv
<1> QED
  BY <1>1, PursuedInit, RoundNotStuck, IndInvHolds, NothingPendingHolds, PTL DEF Spec

-----------------------------------------------------------------------------
(***************************************************************************)
(* Why a run ends: a message of an exchange is followed by the next one of *)
(* it or by none, and the messages of a new proposal have a number no      *)
(* exchange has had.                                                       *)
(***************************************************************************)
Of(pm, h, r, n, g) ==
  /\ Proposer(pm) = h
  /\ Acceptor(pm) = g
  /\ pm.round = r
  /\ pm.proposal_number = n

LEMMA ReceivedIff ==
  ASSUME NEW h, NEW r, NEW n, NEW g
  PROVE  /\ <<n, g>> \in Received(h, r) <=>
              /\ n \in 1 .. active_proposal_number[h][r] /\ g \in Hosts
              /\ \A pm \in transit : Of(pm, h, r, n, g) => pm.type # "Propose"
         /\ <<n, g>> \in Received(h, r)' <=>
              /\ n \in 1 .. active_proposal_number'[h][r] /\ g \in Hosts
              /\ \A pm \in transit' : Of(pm, h, r, n, g) => pm.type # "Propose"
BY DEF Received, Exchanges, Asking, Of, Proposer, Acceptor

LEMMA ReturnedIff ==
  ASSUME NEW h, NEW r, NEW n, NEW g
  PROVE  /\ <<n, g>> \in Returned(h, r) <=>
              /\ n \in 1 .. active_proposal_number[h][r] /\ g \in Hosts
              /\ \A pm \in transit : ~Of(pm, h, r, n, g)
         /\ <<n, g>> \in Returned(h, r)' <=>
              /\ n \in 1 .. active_proposal_number'[h][r] /\ g \in Hosts
              /\ \A pm \in transit' : ~Of(pm, h, r, n, g)
BY DEF Returned, Exchanges, Asking, Answering, Of, Proposer, Acceptor

LEMMA ExchangesOnly ==
  ASSUME NEW h, NEW r, NEW x \in Received(h, r) \cup Returned(h, r)
  PROVE  \E n \in 1 .. active_proposal_number[h][r], g \in Hosts : x = <<n, g>>
BY DEF Received, Returned, Exchanges

LEMMA NumberType ==
  ASSUME TypeOK, NEW h \in Hosts, NEW r \in Rounds
  PROVE  active_proposal_number[h][r] \in Nat
BY DEF TypeOK

\* A message of an exchange that has begun follows one of the same exchange.
LEMMA Follows ==
  ASSUME TypeOK, [Next]_vars, NEW h \in Hosts, NEW r \in Rounds
  PROVE  /\ active_proposal_number'[h][r] \in Nat
         /\ active_proposal_number[h][r] <= active_proposal_number'[h][r]
         /\ \A qm \in transit', n \in 1 .. active_proposal_number[h][r], g \in Hosts :
              Of(qm, h, r, n, g) =>
                \E pm \in transit : /\ Of(pm, h, r, n, g)
                                    /\ qm.type = "Propose" => pm.type = "Propose"
<1> DEFINE Followed ==
      \A qm \in transit', n \in 1 .. active_proposal_number[h][r], g \in Hosts :
        Of(qm, h, r, n, g) =>
          \E pm \in transit : /\ Of(pm, h, r, n, g)
                              /\ qm.type = "Propose" => pm.type = "Propose"
           Higher == /\ active_proposal_number'[h][r] \in Nat
                     /\ active_proposal_number[h][r] <= active_proposal_number'[h][r]
<1>1. active_proposal_number[h][r] \in Nat
  BY NumberType
<1>2. ASSUME NEW a \in Hosts, NEW k \in Rounds, NEW P \in SUBSET Values, NEW old, Asks(a, k, P, old)
      PROVE  Higher /\ Followed
  <2>1. /\ transit' = (transit \ old) \cup Broadcast(a, k, P)
        /\ active_proposal_number'[a][k] = active_proposal_number[a][k] + 1
        /\ Elsewhere(a, k, active_proposal_number', active_proposal_number)
    BY <1>2, AskStep DEF Asks
  <2>2. Higher
    BY <1>1, <2>1 DEF Elsewhere
  <2>3. ASSUME NEW qm \in Broadcast(a, k, P), NEW n \in 1 .. active_proposal_number[h][r], NEW g
        PROVE  ~Of(qm, h, r, n, g)
    <3>1. /\ qm.proposal_number = active_proposal_number[a][k] + 1
          /\ Proposer(qm) = a /\ qm.round = k
      BY BroadcastFields
    <3> QED
      BY <1>1, <3>1 DEF Of
  <2>4. Followed
    BY <2>1, <2>3
  <2> QED
    BY <2>2, <2>4
<1>3. ASSUME NEW a \in Hosts, NEW pm \in transit, NEW am, Answers(a, pm, am)
      PROVE  Higher /\ Followed
  <2>1. /\ UNCHANGED active_proposal_number
        /\ transit' = (transit \ {pm}) \cup {am}
        /\ SameExchange(am, pm)
        /\ am.type # "Propose"
    BY <1>3 DEF Answers, proposer
  <2>2. ASSUME NEW n, NEW g, Of(am, h, r, n, g) PROVE Of(pm, h, r, n, g)
    BY <2>1, <2>2 DEF SameExchange, Of
  <2> QED
    BY <1>1, <2>1, <2>2
<1>4. ASSUME UNCHANGED active_proposal_number, transit' \subseteq transit
      PROVE  Higher /\ Followed
  BY <1>1, <1>4
<1>5. ASSUME NEW a, NEW pm, NEW acks, NEW nacks, NEW P, Counts(a, pm, acks, nacks, P)
      PROVE  Higher /\ Followed
  BY <1>4, <1>5 DEF Counts, Settle
<1>6. ASSUME NEW a, NEW pm, Drops(a, pm) PROVE Higher /\ Followed
  BY <1>4, <1>6 DEF Drops, proposer
<1>7. CASE UNCHANGED <<transit, proposer, acceptor>>
  BY <1>4, <1>7 DEF proposer
<1>8. Higher /\ Followed
  BY <1>2, <1>3, <1>5, <1>6, <1>7, StepKinds
<1> QED
  BY <1>8

LEMMA NothingUndone ==
  ASSUME TypeOK, [Next]_vars, NEW h \in Hosts, NEW r \in Rounds
  PROVE  Received(h, r) \subseteq Received(h, r)' /\ Returned(h, r) \subseteq Returned(h, r)'
<1>1. ASSUME NEW n \in 1 .. active_proposal_number[h][r]
      PROVE  n \in 1 .. active_proposal_number'[h][r]
  BY Follows, NumberType
<1>2. ASSUME NEW x \in Received(h, r) PROVE x \in Received(h, r)'
  <2>1. PICK n \in 1 .. active_proposal_number[h][r], g \in Hosts : x = <<n, g>>
    BY ExchangesOnly
  <2>2. \A pm \in transit' : Of(pm, h, r, n, g) => pm.type # "Propose"
    BY <1>2, <2>1, Follows, ReceivedIff
  <2> QED
    BY <1>1, <2>1, <2>2, ReceivedIff
<1>3. ASSUME NEW x \in Returned(h, r) PROVE x \in Returned(h, r)'
  <2>1. PICK n \in 1 .. active_proposal_number[h][r], g \in Hosts : x = <<n, g>>
    BY ExchangesOnly
  <2>2. \A pm \in transit' : ~Of(pm, h, r, n, g)
    BY <1>3, <2>1, Follows, ReturnedIff
  <2> QED
    BY <1>1, <2>1, <2>2, ReturnedIff
<1> QED
  BY <1>2, <1>3

\* The number of a message in transit is that of an exchange, now and after a step.
LEMMA NumberBegun ==
  ASSUME TypeOK, MessageInv, [Next]_vars, NEW pm \in transit
  PROVE  pm.proposal_number \in 1 .. active_proposal_number'[Proposer(pm)][pm.round]
<1>1. /\ Proposer(pm) \in Hosts /\ pm.round \in Rounds
      /\ active_proposal_number[Proposer(pm)][pm.round] \in Nat
      /\ pm.proposal_number \in Nat \ {0}
  BY ExchangeFields
<1>2. pm.proposal_number <= active_proposal_number[Proposer(pm)][pm.round]
  BY DEF MessageInv
<1>3. /\ active_proposal_number'[Proposer(pm)][pm.round] \in Nat
      /\ active_proposal_number[Proposer(pm)][pm.round] <=
           active_proposal_number'[Proposer(pm)][pm.round]
  BY <1>1, Follows
<1> QED
  BY <1>1, <1>2, <1>3

LEMMA OnlyMessage ==
  ASSUME ExchangeInv, NEW pm \in transit, NEW qm \in transit,
         Of(qm, Proposer(pm), pm.round, pm.proposal_number, Acceptor(pm))
  PROVE  qm = pm
BY DEF ExchangeInv, SameExchange, Of

LEMMA ReceivesNew ==
  ASSUME TypeOK, MessageInv, ExchangeInv, [Next]_vars,
         NEW h \in Hosts, NEW pm \in transit, Accept(h, pm) \/ Reject(h, pm)
  PROVE  \E g \in Hosts, r \in Rounds : Received(g, r)' # Received(g, r)
<1> DEFINE g == Proposer(pm)
           r == pm.round
           n == pm.proposal_number
<1>1. /\ pm.type = "Propose" /\ Acceptor(pm) = h
      /\ \A qm \in transit' : qm \in transit \ {pm} \/ qm.type # "Propose"
  BY DEF Accept, Reject, Receives, create_ack, create_nack, ProposalMessage, Acceptor
<1>2. g \in Hosts /\ r \in Rounds
  BY ExchangeFields
<1>3. Of(pm, g, r, n, h)
  BY <1>1 DEF Of
<1>4. <<n, h>> \notin Received(g, r)
  BY <1>1, <1>3, ReceivedIff
<1>5. \A qm \in transit' : Of(qm, g, r, n, h) => qm.type # "Propose"
  BY <1>1, OnlyMessage
<1>6. n \in 1 .. active_proposal_number'[g][r]
  BY NumberBegun
<1> HIDE DEF g, r, n
<1>7. <<n, h>> \in Received(g, r)'
  BY <1>5, <1>6, ReceivedIff
<1> QED
  BY <1>2, <1>4, <1>7

LEMMA ReturnsNew ==
  ASSUME TypeOK, MessageInv, ExchangeInv, [Next]_vars, NEW h \in Hosts, NEW pm \in transit,
         CountAck(h, pm) \/ CountNack(h, pm) \/ Ignore(h, pm)
  PROVE  \E r \in Rounds : Returned(h, r)' # Returned(h, r)
<1> DEFINE r == pm.round
           n == pm.proposal_number
           g == pm.sender
<1>1. /\ pm.type # "Propose" /\ pm.receiver = h
  BY SettleStep DEF Ignore, Receives
<1>2. /\ Proposer(pm) = h /\ Acceptor(pm) = g /\ g \in Hosts /\ r \in Rounds
      /\ active_proposal_number[h][r] \in Nat
      /\ n <= active_proposal_number[h][r]
      /\ n \in Nat
  BY <1>1, ExchangeFields, MessageFields DEF MessageInv, Proposer, Acceptor
<1>3. \A qm \in transit' : qm \in transit \ {pm} \/ qm.proposal_number > n
  <2>1. CASE Ignore(h, pm)
    BY <2>1 DEF Ignore
  <2>2. CASE CountAck(h, pm) \/ CountNack(h, pm)
    <3>1. PICK acks \in Nat, nacks \in Nat, P \in SUBSET Values :
            ProposeAgain(h, pm, acks, nacks, P) \/ Settle(h, pm, acks, nacks, P)
      BY <2>2, CountStep
    <3>2. CASE Settle(h, pm, acks, nacks, P)
      BY <3>2 DEF Settle
    <3>3. CASE ProposeAgain(h, pm, acks, nacks, P)
      <4>1. transit' = (transit \ {pm}) \cup Broadcast(h, r, P)
        BY <3>3 DEF ProposeAgain
      <4>2. \A qm \in Broadcast(h, r, P) : qm.proposal_number = active_proposal_number[h][r] + 1
        BY BroadcastFields
      <4> HIDE DEF r, n
      <4> QED
        BY <1>2, <4>1, <4>2
    <3> QED
      BY <3>1, <3>2, <3>3
  <2> QED
    BY <2>1, <2>2
<1>4. Of(pm, h, r, n, g)
  BY <1>2 DEF Of
<1>5. <<n, g>> \notin Returned(h, r)
  BY <1>4, ReturnedIff
<1>6. ASSUME NEW qm \in transit', Of(qm, h, r, n, g) PROVE FALSE
  <2>1. qm.proposal_number = n
    BY <1>6 DEF Of
  <2>2. qm \in transit \ {pm}
    BY <1>2, <1>3, <2>1
  <2> QED
    BY <1>2, <1>6, <2>2, OnlyMessage
<1>7. n \in 1 .. active_proposal_number'[h][r]
  BY <1>2, NumberBegun
<1> HIDE DEF r, n, g
<1>8. <<n, g>> \in Returned(h, r)'
  BY <1>2, <1>6, <1>7, ReturnedIff
<1> QED
  BY <1>2, <1>5, <1>8

(***************************************************************************)
(* No step of a run goes through an exchange again, undoes one or does     *)
(* nothing new.                                                            *)
(***************************************************************************)
THEOREM EveryStepIsNewHolds == Spec => EveryStepIsNew
<1> DEFINE Grows == /\ stopped \subseteq stopped'
                    /\ \A h \in Hosts : /\ proposed[h] <= proposed'[h]
                                        /\ Len(output[h]) <= Len(output'[h])
           New == \/ stopped' # stopped
                  \/ \E h \in Hosts : \/ proposed'[h] # proposed[h]
                                      \/ Len(output'[h]) # Len(output[h])
                                      \/ \E r \in Rounds : \/ Received(h, r)' # Received(h, r)
                                                           \/ Returned(h, r)' # Returned(h, r)
<1>1. ASSUME IndInv, [Next]_vars
      PROVE  Grows /\ (New \/ UNCHANGED vars)
  <2> USE <1>1
  <2>0. TypeOK /\ MessageInv /\ ExchangeInv
    BY DEF IndInv
  <2>1. /\ stopped \subseteq Hosts
        /\ \A h \in Hosts : proposed[h] \in Nat /\ Len(output[h]) \in Nat
        /\ proposed \in [Hosts -> Nat]
    BY <2>0 DEF TypeOK
  <2>2. ASSUME NEW h \in Hosts, ProposeRound(h) PROVE Grows /\ New
    <3>1. /\ proposed' = [proposed EXCEPT ![h] = proposed[h] + 1]
          /\ UNCHANGED <<output, stopped>>
      BY <2>2 DEF ProposeRound
    <3>2. \A g \in Hosts : proposed'[g] = IF g = h THEN proposed[g] + 1 ELSE proposed[g]
      BY <2>1, <3>1
    <3>3. proposed'[h] # proposed[h]
      BY <2>1, <3>2
    <3> QED
      BY <2>1, <3>1, <3>2, <3>3
  <2>3. ASSUME NEW h \in Hosts, LaDecide(h) PROVE Grows /\ New
    <3>1. /\ output' = [output EXCEPT ![h] = Append(output[h], Head(deciding[h]))]
          /\ UNCHANGED <<proposed, stopped>>
      BY <2>3 DEF LaDecide
    <3>2. output \in [Hosts -> Seq(SUBSET Values)]
      BY <2>0 DEF TypeOK
    <3>3. deciding[h] \in Seq(SUBSET Values) /\ deciding[h] # <<>>
      BY <2>0, <2>3 DEF TypeOK, LaDecide
    <3>4. Head(deciding[h]) \in SUBSET Values
      BY <3>3
    <3>5. \A g \in Hosts : Len(output'[g]) = IF g = h THEN Len(output[g]) + 1 ELSE Len(output[g])
      BY <3>1, <3>2, <3>4
    <3>6. Len(output'[h]) # Len(output[h])
      BY <2>1, <3>5
    <3> QED
      BY <2>1, <3>1, <3>5, <3>6
  <2>4. ASSUME NEW h \in Hosts, Stop(h) PROVE Grows /\ New
    BY <2>1, <2>4 DEF Stop
  <2>5. ASSUME UNCHANGED <<proposed, output, stopped>> PROVE Grows
    BY <2>1, <2>5
  <2>6. ASSUME NEW h \in Hosts, NEW pm \in transit, Accept(h, pm) \/ Reject(h, pm)
        PROVE  Grows /\ New
    BY <2>0, <2>5, <2>6, ReceivesNew DEF Accept, Reject, Receives
  <2>7. ASSUME NEW h \in Hosts, NEW pm \in transit,
               CountAck(h, pm) \/ CountNack(h, pm) \/ Ignore(h, pm)
        PROVE  Grows /\ New
    BY <2>0, <2>5, <2>7, ReturnsNew DEF CountAck, CountNack, Ignore, Receives
  <2>8. CASE UNCHANGED vars
    BY <2>5, <2>8 DEF vars
  <2> HIDE DEF Grows, New
  <2> QED
    BY <2>2, <2>3, <2>4, <2>6, <2>7, <2>8, StepCases
<1>2. ASSUME IndInv, [Next]_vars, NEW h \in Hosts, NEW r \in Rounds
      PROVE  Received(h, r) \subseteq Received(h, r)' /\ Returned(h, r) \subseteq Returned(h, r)'
  BY <1>2, NothingUndone DEF IndInv
<1>3. IndInv /\ [Next]_vars =>
        [/\ stopped \subseteq stopped'
         /\ \A h \in Hosts : /\ proposed[h] <= proposed'[h]
                             /\ Len(output[h]) <= Len(output'[h])
                             /\ \A r \in Rounds : /\ Received(h, r) \subseteq Received(h, r)'
                                                  /\ Returned(h, r) \subseteq Returned(h, r)'
         /\ New]_vars
  BY <1>1, <1>2
<1> QED
  BY <1>3, IndInvHolds, PTL DEF Spec, EveryStepIsNew

-----------------------------------------------------------------------------
WP == INSTANCE WireProofs

\* Whatever the order they are written in, the values read are those of the set.
LEMMA OrderedValues ==
  ASSUME IsFiniteSet(Values), NEW P \in SUBSET Values, NEW elements \in Orders(P)
  PROVE  elements \in Seq(Values) /\ Range(elements) = P
<1>1. IsFiniteSet(P)
  BY FS_Subset
<1>2. Cardinality(P) \in Nat
  BY <1>1, FS_CardinalityType
<1>3. elements \in [1 .. Cardinality(P) -> P] /\ \A v \in P : \E i \in 1 .. Cardinality(P) : elements[i] = v
  BY DEF Orders, Bijection, Surjection, Injection
<1>4. elements \in Seq(P)
  BY <1>2, <1>3
<1>5. elements \in Seq(Values)
  BY <1>4
<1> QED
  BY <1>3, <1>5 DEF Range

\* The payload gives back the four fields of the message that it carries (ProposalRead).
LEMMA PayloadRead ==
  ASSUME IsFiniteSet(Values), NEW pm \in Message, NEW elements \in Orders(pm.proposal)
  PROVE  W!ProposalMessage(W!ProposalBytes(pm, elements)) =
           [type |-> pm.type, round |-> pm.round, proposal_number |-> pm.proposal_number,
            proposal |-> pm.proposal]
<1> DEFINE Cell == {"Propose", "Ack", "Nack"} \cup Nat \cup Values
           read == [type |-> pm.type, round |-> pm.round,
                    proposal_number |-> pm.proposal_number, proposal |-> pm.proposal]
<1>1. /\ pm.type \in {"Propose", "Ack", "Nack"} /\ pm.round \in Nat
      /\ pm.proposal_number \in Nat /\ pm.proposal \in SUBSET Values
  BY LatticeAssumption DEF Message, Rounds
<1>2. elements \in Seq(Values) /\ Range(elements) = pm.proposal
  BY <1>1, OrderedValues
<1>3. elements \in Seq(Cell)
  BY <1>2
<1>4. read \in [type : Cell, round : Cell, proposal_number : Cell, proposal : SUBSET Cell]
  BY <1>1
<1>5. read.proposal = pm.proposal
  OBVIOUS
<1>6. WP!ProposalBytes(read, elements) = W!ProposalBytes(pm, elements)
  BY DEF WP!ProposalBytes, W!ProposalBytes
<1> HIDE DEF read, Cell
<1>7. Excess \in Nat
  BY MessagesAssumption
<1>8. WP!Range(elements) = read.proposal
  BY <1>2, <1>5 DEF Range, WP!Range
<1>9. WP!ProposalMessage(WP!ProposalBytes(read, elements)) = read
  BY <1>3, <1>4, <1>7, <1>8, WP!ProposalRead
<1>10. \A cells : WP!ProposalMessage(cells) = W!ProposalMessage(cells)
  BY DEF WP!ProposalMessage, W!ProposalMessage, WP!Copied, W!Copied,
         WP!Range, W!Range
<1> QED
  BY <1>6, <1>9, <1>10 DEF read

\* The transport message of any payload is read from any buffer with room for it (TransportRead).
LEMMA DatagramRead ==
  ASSUME NEW S, NEW payload \in Seq(S), NEW from \in Hosts, NEW to \in Hosts,
         NEW T, NEW memory \in Seq(T),
         NEW tm, tm = [type |-> "Data", sender |-> from, receiver |-> to, seq_number |-> 0,
                       payload |-> payload],
         Len(W!TransportBytes(tm)) <= Len(memory)
  PROVE  W!TransportMessage(W!Received(W!TransportBytes(tm), memory)) = tm
<1> DEFINE Cell == {"Data", 0} \cup Hosts \cup S
<1>1. payload \in Seq(Cell)
  OBVIOUS
<1>2. tm \in [type : Cell, sender : Cell, receiver : Cell, seq_number : Cell,
              payload : Seq(Cell)]
  BY <1>1
<1> HIDE DEF Cell
<1>3. WP!TransportBytes(tm) = W!TransportBytes(tm)
  BY DEF WP!TransportBytes, W!TransportBytes
<1>4. WP!TransportMessage(WP!Received(WP!TransportBytes(tm), memory)) = tm
  BY <1>2, <1>3, WP!TransportRead
<1>5. /\ \A d : WP!Received(d, memory) = W!Received(d, memory)
      /\ \A cells : WP!TransportMessage(cells) = W!TransportMessage(cells)
  BY DEF WP!Received, W!Received, WP!TransportMessage, W!TransportMessage, WP!Copied, W!Copied
<1> QED
  BY <1>3, <1>4, <1>5

\* A buffer that has received a datagram is a buffer of the same size.
LEMMA BufferKept ==
  ASSUME NEW first, NEW memory, memory = W!Received(first, NewBuffer)
  PROVE  memory \in Seq(Range(memory)) /\ Len(memory) = BufferCells
<1>1. BufferCells \in Nat
  BY MessagesAssumption
<1>2. DOMAIN memory = 1 .. BufferCells /\ memory = [i \in 1 .. BufferCells |-> memory[i]]
  BY DEF NewBuffer, W!Received
<1>3. memory \in [1 .. BufferCells -> Range(memory)]
  BY <1>2 DEF Range
<1>4. memory \in Seq(Range(memory))
  BY <1>1, <1>3
<1> QED
  BY <1>1, <1>2, <1>4

\* A message that follows another one into the receive buffer is read as it was sent.
LEMMA ReadAsSent ==
  ASSUME IsFiniteSet(Values), NEW pm \in Message, NEW first, NEW second \in Datagrams(pm),
         Len(second) <= BufferCells
  PROVE  Read(W!Received(second, W!Received(first, NewBuffer))) = pm
<1>1. PICK elements \in Orders(pm.proposal) : second = W!TransportBytes(Transport(pm, elements))
  BY DEF Datagrams
<1> DEFINE memory == W!Received(first, NewBuffer)
           tm == Transport(pm, elements)
           S == {"Proposal", "Propose", "Ack", "Nack", Unset} \cup Nat \cup Values
<1>2. memory \in Seq(Range(memory)) /\ Len(memory) = BufferCells
  BY BufferKept
<1>3. pm.sender \in Hosts /\ pm.receiver \in Hosts
  BY DEF Message
<1>4. tm.payload \in Seq(S)
  <2>1. /\ pm.type \in S /\ pm.round \in S /\ pm.proposal_number \in S
        /\ pm.proposal \in SUBSET Values
    BY LatticeAssumption DEF Message, Rounds
  <2>2. elements \in Seq(S) /\ Len(elements) \in Nat
    BY <2>1, OrderedValues
  <2>3. [i \in 1 .. Excess |-> Unset] \in Seq(S)
    BY MessagesAssumption
  <2>4. <<"Proposal", pm.type, pm.round, pm.proposal_number, Len(elements)>> \in Seq(S)
    BY <2>1, <2>2
  <2> HIDE DEF S
  <2>5. W!ProposalBytes(pm, elements) \in Seq(S)
    BY <2>2, <2>3, <2>4 DEF W!ProposalBytes
  <2> QED
    BY <2>5 DEF Transport
<1>5. tm = [type |-> "Data", sender |-> pm.sender, receiver |-> pm.receiver,
            seq_number |-> 0, payload |-> tm.payload]
  BY DEF Transport
<1> HIDE DEF memory, S, tm
<1>6. W!TransportMessage(W!Received(second, memory)) = tm
  BY <1>1, <1>2, <1>3, <1>4, <1>5, DatagramRead DEF tm
<1>7. /\ tm.payload = W!ProposalBytes(pm, elements)
      /\ tm.sender = pm.sender /\ tm.receiver = pm.receiver
  BY DEF tm, Transport
<1>8. W!ProposalMessage(tm.payload) =
        [type |-> pm.type, round |-> pm.round, proposal_number |-> pm.proposal_number,
         proposal |-> pm.proposal]
  BY <1>7, PayloadRead
<1>9. Read(W!Received(second, memory)) =
        ProposalMessage(pm.type, pm.round, pm.proposal_number, pm.proposal,
                        pm.sender, pm.receiver)
  BY <1>6, <1>7, <1>8 DEF Read
<1>10. pm = ProposalMessage(pm.type, pm.round, pm.proposal_number, pm.proposal,
                            pm.sender, pm.receiver)
  BY DEF Message, ProposalMessage
<1> QED
  BY <1>9, <1>10 DEF memory

(***************************************************************************)
(* Among finitely many values, every proposal and answer in transit whose  *)
(* datagram fits in the receive buffer is read as it was sent, whatever    *)
(* datagram was in the buffer before, in whatever order its values were    *)
(* written, and whatever lies behind them.                                 *)
(***************************************************************************)
THEOREM MessagesSurviveHolds ==
  ASSUME IsFiniteSet(Values)
  PROVE  Spec => []MessagesSurvive
<1>1. TypeOK => MessagesSurvive
  BY ReadAsSent DEF TypeOK, MessagesSurvive
<1> QED
  BY <1>1, TypeCorrect, PTL
=============================================================================
