--------------------------- MODULE StressTestProofs ---------------------------
(***************************************************************************)
(* Proofs about StressTest, for every finite set of processes, any set of  *)
(* threads and any number of signals: only a minority is terminated before *)
(* the run is over, the recorded states are the real ones, none of the     *)
(* processes is stopped while the driver waits for them to finish, and the *)
(* run never hangs.                                                        *)
(***************************************************************************)
EXTENDS StressTest, FiniteSetTheorems, TLAPS

-----------------------------------------------------------------------------
(***************************************************************************)
(* The inductive invariant.                                                *)
(***************************************************************************)

TypeInv ==
  /\ state \in [Processes -> ProcessState]
  /\ holder \in [Processes -> SUBSET Threads]
  /\ value \in Nat
  /\ choice \in [Threads -> SUBSET (Processes \X ProcessState)]
  /\ successful \in [Threads -> Nat]
  /\ phase \in {"stress", "continue", "wait", "terminate"}
  /\ todo \in SUBSET Processes
  /\ os \in [Processes -> {"running", "stopped", "exited"}]
  /\ term \in SUBSET Processes

\* A thread that holds the lock of a process is about to carry out on it what its choice is,
\* and the process is in a state that allows it.
LockInv ==
  \A p \in Processes : \A t \in holder[p] :
    /\ holder[p] = {t}
    /\ \E op \in ProcessState :
         choice[t] = {<<p, op>>} /\ valid_state_transition(state[p], op)

\* When the stress is over no thread has anything in its hands.
ThreadsInv ==
  /\ \A t \in Threads : choice[t] # {} => successful[t] # Attempts
  /\ phase # "stress" => \A t \in Threads : successful[t] = Attempts

\* The processes about to be sent SIGTERM, the counter of which has been raised.
Reserved == {p \in Processes : \E t \in holder[p] : <<p, "TERMINATED">> \in choice[t]}

CountInv ==
  phase # "terminate" =>
    /\ Reserved \cap term = {}
    /\ value = Cardinality(Reserved \cup term)
    /\ value <= max_terminated_processes

\* The recorded state is the real one, but for what the main thread has continued.
StateInv ==
  phase # "terminate" =>
    \A p \in Processes :
      /\ state[p] = "TERMINATED" <=> p \in term
      /\ os[p] = "exited" => p \in term
      /\ IF phase = "stress" \/ p \in todo
           THEN state[p] = "STOPPED" <=> os[p] = "stopped"
           ELSE os[p] # "stopped"

IndInv ==
  /\ TypeInv /\ LockInv /\ ThreadsInv /\ CountInv /\ StateInv
  /\ phase = "wait" => todo = {}

-----------------------------------------------------------------------------
\* A thread that holds a lock is one that has a choice in its hands, and it is this one.
LEMMA HolderChoice ==
  ASSUME TypeInv, LockInv, NEW p \in Processes, NEW t \in holder[p]
  PROVE  t \in Threads /\ choice[t] # {}
PROOF
<1>1. t \in Threads
  BY DEF TypeInv
<1>2. PICK op \in ProcessState : choice[t] = {<<p, op>>}
  BY DEF LockInv
<1>3. <<p, op>> \in choice[t]
  BY <1>2
<1> QED
  BY <1>1, <1>3

LEMMA HolderChoiceIs ==
  ASSUME LockInv, NEW p \in Processes, NEW t \in holder[p], NEW q, NEW op,
         choice[t] = {<<q, op>>}
  PROVE  p = q /\ valid_state_transition(state[p], op)
PROOF
<1>1. PICK o \in ProcessState : choice[t] = {<<p, o>>} /\ valid_state_transition(state[p], o)
  BY DEF LockInv
<1>2. <<q, op>> \in choice[t]
  OBVIOUS
<1>3. <<q, op>> = <<p, o>>
  BY <1>1, <1>2
<1>4. p = q /\ o = op
  BY <1>3
<1> QED
  BY <1>1, <1>4

LEMMA MaximumIsMinority ==
  /\ Cardinality(Processes) \in Nat /\ max_terminated_processes \in Nat
  /\ 2 * max_terminated_processes < Cardinality(Processes)
PROOF
<1>1. Cardinality(Processes) \in Nat /\ Cardinality(Processes) # 0
  BY StressAssumption, FS_CardinalityType, FS_EmptySet
<1> QED
  BY <1>1 DEF max_terminated_processes

LEMMA InitIndInv == Init => IndInv
PROOF
<1> SUFFICES ASSUME Init PROVE IndInv
  OBVIOUS
<1>1. TypeInv
  BY DEF Init, TypeInv, ProcessState
<1>2. LockInv /\ StateInv
  BY DEF Init, LockInv, StateInv
<1>3. ThreadsInv
  BY DEF Init, ThreadsInv
<1>4. CountInv
  <2>1. Reserved \cup term = {} /\ value = 0
    BY DEF Init, Reserved
  <2> QED
    BY <2>1, FS_EmptySet, MaximumIsMinority DEF CountInv
<1> QED
  BY <1>1, <1>2, <1>3, <1>4 DEF Init, IndInv

\* The counter is of the same processes as long as these do not change.
LEMMA CountStays ==
  ASSUME CountInv, Reserved' = Reserved, UNCHANGED <<term, value>>,
         phase' # "terminate" => phase # "terminate"
  PROVE  CountInv'
PROOF
  BY DEF CountInv, max_terminated_processes

(***************************************************************************)
(* Each action preserves the invariant.                                    *)
(***************************************************************************)
LEMMA ChooseStep ==
  ASSUME IndInv, NEW t \in Threads, NEW p \in Processes, NEW op \in ProcessState,
         Choose(t, p, op)
  PROVE  IndInv'
PROOF
<1> USE DEF IndInv
<1>1. /\ choice[t] = {} /\ successful[t] < Attempts
      /\ choice' = [choice EXCEPT ![t] = {<<p, op>>}]
      /\ UNCHANGED <<state, holder, value, successful, phase, todo, os, term>>
  BY DEF Choose, mainVars, systemVars
<1>2. TypeInv'
  BY <1>1 DEF TypeInv
<1>3. \A u \in Threads \ {t} : choice'[u] = choice[u]
  BY <1>1 DEF TypeInv
<1>4. \A q \in Processes : \A u \in holder[q] : u \in Threads \ {t}
  <2>1. \A q \in Processes : \A u \in holder[q] : u \in Threads /\ choice[u] # {}
    BY HolderChoice
  <2> QED
    BY <1>1, <2>1
<1>5. LockInv'
  BY <1>1, <1>3, <1>4 DEF LockInv
<1>6. ThreadsInv'
  <2>1. successful[t] # Attempts
    BY <1>1, StressAssumption DEF TypeInv
  <2> QED
    BY <1>1, <1>3, <2>1 DEF ThreadsInv
<1>7. Reserved' = Reserved
  BY <1>1, <1>3, <1>4 DEF Reserved
<1>8. CountInv'
  BY <1>1, <1>7, CountStays
<1>9. StateInv'
  BY <1>1 DEF StateInv
<1> QED
  BY <1>1, <1>2, <1>5, <1>6, <1>8, <1>9

LEMMA GiveUpStep ==
  ASSUME IndInv, NEW t \in Threads, NEW p \in Processes, NEW op \in ProcessState,
         GiveUp(t, p, op)
  PROVE  IndInv'
PROOF
<1> USE DEF IndInv
<1>1. /\ choice[t] = {<<p, op>>} /\ holder[p] = {}
      /\ choice' = [choice EXCEPT ![t] = {}]
      /\ UNCHANGED <<state, holder, value, successful, phase, todo, os, term>>
  BY DEF GiveUp, mainVars, systemVars
<1>2. TypeInv'
  BY <1>1 DEF TypeInv
<1>3. choice'[t] = {} /\ \A u \in Threads \ {t} : choice'[u] = choice[u]
  BY <1>1 DEF TypeInv
<1>4. \A q \in Processes : \A u \in holder[q] : u \in Threads \ {t}
  <2> SUFFICES ASSUME NEW q \in Processes, t \in holder[q] PROVE FALSE
    BY DEF TypeInv
  <2>1. q = p
    BY <1>1, HolderChoiceIs
  <2> QED
    BY <1>1, <2>1
<1>5. LockInv'
  BY <1>1, <1>3, <1>4 DEF LockInv
<1>6. ThreadsInv'
  BY <1>1, <1>3 DEF ThreadsInv
<1>7. Reserved' = Reserved
  BY <1>1, <1>3, <1>4 DEF Reserved
<1>8. CountInv'
  BY <1>1, <1>7, CountStays
<1>9. StateInv'
  BY <1>1 DEF StateInv
<1> QED
  BY <1>1, <1>2, <1>5, <1>6, <1>8, <1>9

\* While a thread has a choice in its hands, the phase is that of the stress.
LEMMA ChoosingIsStress ==
  ASSUME IndInv, NEW t \in Threads, choice[t] # {}
  PROVE  phase = "stress"
PROOF
  BY DEF IndInv, ThreadsInv

LEMMA AcquireStep ==
  ASSUME IndInv, NEW t \in Threads, NEW p \in Processes, NEW op \in ProcessState,
         Acquire(t, p, op)
  PROVE  IndInv'
PROOF
<1> USE DEF IndInv
<1>1. /\ choice[t] = {<<p, op>>} /\ holder[p] = {}
      /\ valid_state_transition(state[p], op)
      /\ op = "TERMINATED" => value < max_terminated_processes
      /\ holder' = [holder EXCEPT ![p] = {t}]
      /\ value' = IF op = "TERMINATED" THEN value + 1 ELSE value
      /\ UNCHANGED <<state, choice, successful, phase, todo, os, term>>
  BY DEF Acquire, CanReserve, mainVars, systemVars
<1>2. TypeInv'
  BY <1>1 DEF TypeInv
<1>3. holder'[p] = {t} /\ \A q \in Processes \ {p} : holder'[q] = holder[q]
  BY <1>1 DEF TypeInv
<1>4. LockInv'
  BY <1>1, <1>3 DEF LockInv
<1>5. ThreadsInv'
  BY <1>1 DEF ThreadsInv
<1>6. StateInv'
  BY <1>1 DEF StateInv
<1>7. phase = "stress" /\ phase' = "stress"
  BY <1>1, ChoosingIsStress
<1>8. p \notin Reserved
  BY <1>1 DEF Reserved
<1>9. CountInv'
  <2>1. CASE op # "TERMINATED"
    <3>1. Reserved' = Reserved
      BY <1>1, <1>3, <1>8, <2>1 DEF Reserved
    <3> QED
      BY <1>1, <1>7, <2>1, <3>1, CountStays
  <2>2. CASE op = "TERMINATED"
    <3>1. Reserved' = Reserved \cup {p}
      BY <1>1, <1>3, <2>2 DEF Reserved
    <3>2. p \notin term
      BY <1>1, <1>7, <2>2 DEF StateInv, valid_state_transition
    <3>3. IsFiniteSet(Reserved \cup term)
      <4>1. Reserved \cup term \in SUBSET Processes
        BY DEF Reserved, TypeInv
      <4> QED
        BY <4>1, StressAssumption, FS_Subset
    <3>4. Cardinality((Reserved \cup term) \cup {p}) = Cardinality(Reserved \cup term) + 1
      BY <1>8, <3>2, <3>3, FS_AddElement
    <3>5. (Reserved \cup term)' = (Reserved \cup term) \cup {p}
      BY <1>1, <3>1
    <3>6. /\ Reserved \cap term = {} /\ value = Cardinality(Reserved \cup term)
          /\ value < max_terminated_processes /\ value \in Nat
      BY <1>1, <1>7, <2>2 DEF CountInv, TypeInv
    <3>7. (Reserved \cap term)' = {}
      BY <1>1, <3>1, <3>2, <3>6
    <3>8. value' = Cardinality((Reserved \cup term)')
      BY <1>1, <2>2, <3>4, <3>5, <3>6
    <3>9. value' <= max_terminated_processes
      BY <1>1, <2>2, <3>6, MaximumIsMinority
    <3> QED
      BY <3>7, <3>8, <3>9 DEF CountInv, max_terminated_processes
  <2> QED
    BY <2>1, <2>2
<1> QED
  BY <1>1, <1>2, <1>4, <1>5, <1>6, <1>7, <1>9

LEMMA SignalStep ==
  ASSUME IndInv, NEW t \in Threads, NEW p \in Processes, NEW op \in ProcessState,
         Signal(t, p, op)
  PROVE  IndInv'
PROOF
<1> USE DEF IndInv
<1>1. /\ choice[t] = {<<p, op>>} /\ holder[p] = {t}
      /\ state' = [state EXCEPT ![p] = op]
      /\ successful' = [successful EXCEPT ![t] = @ + 1]
      /\ choice' = [choice EXCEPT ![t] = {}]
      /\ holder' = [holder EXCEPT ![p] = {}]
      /\ SendSignals(p, {op})
      /\ UNCHANGED <<value, phase, todo>>
  BY DEF Signal, mainVars
<1>2. /\ os' = [os EXCEPT ![p] = CASE os[p] = "exited" -> "exited"
                                   [] "STOPPED" \in {op} -> "stopped"
                                   [] "RUNNING" \in {op} -> "running"
                                   [] OTHER -> @]
      /\ term' = IF "TERMINATED" \in {op} THEN term \cup {p} ELSE term
  BY <1>1 DEF SendSignals
<1>3. valid_state_transition(state[p], op)
  <2>1. t \in holder[p]
    BY <1>1
  <2> QED
    BY <1>1, <2>1, HolderChoiceIs
<1>4. phase = "stress" /\ phase' = "stress"
  BY <1>1, ChoosingIsStress
<1>5. TypeInv'
  <2>1. state' \in [Processes -> ProcessState] /\ holder' \in [Processes -> SUBSET Threads]
    BY <1>1 DEF TypeInv
  <2>2. successful' \in [Threads -> Nat]
        /\ choice' \in [Threads -> SUBSET (Processes \X ProcessState)]
    BY <1>1 DEF TypeInv
  <2>3. os' \in [Processes -> {"running", "stopped", "exited"}] /\ term' \in SUBSET Processes
    BY <1>2 DEF TypeInv
  <2> QED
    BY <1>1, <2>1, <2>2, <2>3 DEF TypeInv
<1>6. /\ choice'[t] = {} /\ \A u \in Threads \ {t} : choice'[u] = choice[u]
      /\ holder'[p] = {} /\ \A q \in Processes \ {p} : holder'[q] = holder[q]
      /\ state'[p] = op /\ \A q \in Processes \ {p} : state'[q] = state[q]
  BY <1>1 DEF TypeInv
<1>7. \A q \in Processes \ {p} : \A u \in holder[q] : u \in Threads \ {t}
  <2> SUFFICES ASSUME NEW q \in Processes \ {p}, t \in holder[q] PROVE FALSE
    BY DEF TypeInv
  <2>1. q = p
    BY <1>1, HolderChoiceIs
  <2> QED
    BY <2>1
<1>8. LockInv'
  BY <1>6, <1>7 DEF LockInv
<1>9. ThreadsInv'
  BY <1>1, <1>4, <1>6 DEF ThreadsInv, TypeInv
<1>10. StateInv'
  <2>1. \A q \in Processes \ {p} : os'[q] = os[q] /\ (q \in term' <=> q \in term)
    BY <1>2 DEF TypeInv
  <2>2. os'[p] = CASE os[p] = "exited" -> "exited" [] op = "STOPPED" -> "stopped"
                   [] op = "RUNNING" -> "running" [] OTHER -> os[p]
    BY <1>2 DEF TypeInv
  <2>3. /\ state[p] = "TERMINATED" <=> p \in term
        /\ os[p] = "exited" => p \in term
        /\ state[p] = "STOPPED" <=> os[p] = "stopped"
    BY <1>4 DEF StateInv
  <2>4. /\ state'[p] = "TERMINATED" <=> p \in term'
        /\ os'[p] = "exited" => p \in term'
        /\ state'[p] = "STOPPED" <=> os'[p] = "stopped"
    BY <1>2, <1>3, <1>6, <2>2, <2>3 DEF valid_state_transition, ProcessState
  <2> QED
    BY <1>4, <1>6, <2>1, <2>4 DEF StateInv
<1>11. CountInv'
  <2>1. /\ Reserved \cap term = {} /\ value = Cardinality(Reserved \cup term)
        /\ value <= max_terminated_processes
    BY <1>4 DEF CountInv
  <2>2. Reserved' = Reserved \ {p}
    BY <1>6, <1>7 DEF Reserved
  <2>3. CASE op # "TERMINATED"
    <3>1. p \notin Reserved
      BY <1>1, <2>3 DEF Reserved
    <3>2. Reserved' = Reserved /\ term' = term
      BY <1>2, <2>2, <2>3, <3>1
    <3> QED
      BY <1>1, <1>4, <3>2, CountStays
  <2>4. CASE op = "TERMINATED"
    <3>1. p \in Reserved
      BY <1>1, <2>4 DEF Reserved
    <3>2. term' = term \cup {p}
      BY <1>2, <2>4
    <3>3. (Reserved \cup term)' = Reserved \cup term /\ (Reserved \cap term)' = {}
      BY <2>1, <2>2, <3>1, <3>2
    <3> QED
      BY <1>1, <2>1, <3>3 DEF CountInv, max_terminated_processes
  <2> QED
    BY <2>3, <2>4
<1> QED
  BY <1>4, <1>5, <1>8, <1>9, <1>10, <1>11

\* Once the stress is over, no lock is held.
LEMMA NoLockLater ==
  ASSUME IndInv, phase # "stress"
  PROVE  (\A t \in Threads : choice[t] = {}) /\ (\A p \in Processes : holder[p] = {})
PROOF
<1>1. \A t \in Threads : choice[t] = {}
  BY DEF IndInv, ThreadsInv
<1> SUFFICES ASSUME NEW p \in Processes, NEW t \in holder[p] PROVE FALSE
  BY <1>1
<1>2. t \in Threads /\ choice[t] # {}
  BY HolderChoice DEF IndInv
<1> QED
  BY <1>1, <1>2

LEMMA NextPhaseStep ==
  ASSUME IndInv, NextPhase
  PROVE  IndInv'
PROOF
<1> USE DEF IndInv
<1>1. /\ todo = {}
      /\ phase = "stress" => \A t \in Threads : successful[t] = Attempts
      /\ UNCHANGED <<state, holder, value, choice, successful, os, term>>
  BY DEF NextPhase, PhaseOver, threadVars, systemVars
<1>2. \/ phase = "stress" /\ phase' = "continue" /\ todo' = Processes
      \/ phase = "continue" /\ phase' = "wait" /\ todo' = {}
      \/ phase = "wait" /\ phase' = "terminate" /\ todo' = Processes
  BY DEF NextPhase
<1>3. TypeInv'
  BY <1>1, <1>2 DEF TypeInv
<1>4. LockInv'
  BY <1>1 DEF LockInv
<1>5. ThreadsInv'
  BY <1>1, <1>2 DEF ThreadsInv
<1>6. CountInv'
  <2>1. Reserved' = Reserved
    BY <1>1 DEF Reserved
  <2> QED
    BY <1>1, <1>2, <2>1, CountStays
<1>7. StateInv'
  BY <1>1, <1>2 DEF StateInv
<1> QED
  BY <1>2, <1>3, <1>4, <1>5, <1>6, <1>7

LEMMA ContinueStep ==
  ASSUME IndInv, NEW p \in Processes, continue_stopped_processes(p)
  PROVE  IndInv'
PROOF
<1> USE DEF IndInv
<1> DEFINE ops == IF state[p] = "TERMINATED" THEN {} ELSE Resume(p)
<1>1. /\ phase = "continue" /\ p \in todo
      /\ todo' = todo \ {p}
      /\ SendSignals(p, ops)
      /\ UNCHANGED <<state, holder, value, choice, successful, phase>>
  BY DEF continue_stopped_processes, Visit, threadVars
<1>2. ops = IF state[p] = "STOPPED" THEN {"RUNNING"} ELSE {}
  BY DEF Resume
<1> HIDE DEF ops
<1>3. /\ os' = [os EXCEPT ![p] = CASE os[p] = "exited" -> "exited"
                                   [] "STOPPED" \in ops -> "stopped"
                                   [] "RUNNING" \in ops -> "running"
                                   [] OTHER -> @]
      /\ term' = IF "TERMINATED" \in ops THEN term \cup {p} ELSE term
  BY <1>1 DEF SendSignals
<1>4. term' = term
  BY <1>2, <1>3
<1>5. TypeInv'
  <2>1. os' \in [Processes -> {"running", "stopped", "exited"}]
    BY <1>3 DEF TypeInv
  <2> QED
    BY <1>1, <1>4, <2>1 DEF TypeInv
<1>6. LockInv'
  BY <1>1 DEF LockInv
<1>7. ThreadsInv'
  BY <1>1 DEF ThreadsInv
<1>8. CountInv'
  <2>1. Reserved' = Reserved
    BY <1>1 DEF Reserved
  <2> QED
    BY <1>1, <1>4, <2>1, CountStays
<1>9. StateInv'
  <2>1. \A q \in Processes \ {p} : os'[q] = os[q] /\ (q \in todo' <=> q \in todo)
    BY <1>1, <1>3 DEF TypeInv
  <2>2. os'[p] = CASE os[p] = "exited" -> "exited" [] "STOPPED" \in ops -> "stopped"
                   [] "RUNNING" \in ops -> "running" [] OTHER -> os[p]
    BY <1>3 DEF TypeInv
  <2>3. /\ os[p] = "exited" => p \in term
        /\ state[p] = "TERMINATED" <=> p \in term
        /\ state[p] = "STOPPED" <=> os[p] = "stopped"
    BY <1>1 DEF StateInv
  <2>4. os'[p] # "stopped" /\ (os'[p] = "exited" => p \in term)
    BY <1>2, <2>2, <2>3
  <2> QED
    BY <1>1, <1>4, <2>1, <2>3, <2>4 DEF StateInv
<1> QED
  BY <1>1, <1>5, <1>6, <1>7, <1>8, <1>9

LEMMA TerminateStep ==
  ASSUME IndInv, NEW p \in Processes, terminate_all_processes(p)
  PROVE  IndInv'
PROOF
<1> USE DEF IndInv
<1> DEFINE ops == IF state[p] = "TERMINATED" THEN {} ELSE Resume(p) \cup {"TERMINATED"}
<1>1. /\ phase = "terminate" /\ phase' = "terminate"
      /\ todo' = todo \ {p}
      /\ SendSignals(p, ops)
      /\ UNCHANGED <<state, holder, value, choice, successful>>
  BY DEF terminate_all_processes, Visit, threadVars
<1> HIDE DEF ops
<1>2. TypeInv'
  <2>1. os' \in [Processes -> {"running", "stopped", "exited"}] /\ term' \in SUBSET Processes
    BY <1>1 DEF SendSignals, TypeInv
  <2> QED
    BY <1>1, <2>1 DEF TypeInv
<1>3. LockInv' /\ ThreadsInv'
  BY <1>1 DEF LockInv, ThreadsInv
<1>4. CountInv' /\ StateInv'
  BY <1>1 DEF CountInv, StateInv
<1> QED
  BY <1>1, <1>2, <1>3, <1>4

LEMMA ExitStep ==
  ASSUME IndInv, NEW p \in Processes, Exit(p)
  PROVE  IndInv'
PROOF
<1> USE DEF IndInv
<1>1. /\ os[p] = "running" /\ p \in term
      /\ os' = [os EXCEPT ![p] = "exited"]
      /\ UNCHANGED <<state, holder, value, choice, successful, phase, todo, term>>
  BY DEF Exit, threadVars, mainVars
<1>2. TypeInv'
  BY <1>1 DEF TypeInv
<1>3. LockInv' /\ ThreadsInv'
  BY <1>1 DEF LockInv, ThreadsInv
<1>4. CountInv'
  <2>1. Reserved' = Reserved
    BY <1>1 DEF Reserved
  <2> QED
    BY <1>1, <2>1, CountStays
<1>5. StateInv'
  <2>1. os'[p] = "exited" /\ \A q \in Processes \ {p} : os'[q] = os[q]
    BY <1>1 DEF TypeInv
  <2> QED
    BY <1>1, <2>1 DEF StateInv
<1> QED
  BY <1>1, <1>2, <1>3, <1>4, <1>5

LEMMA StepIndInv == IndInv /\ [Next]_vars => IndInv'
PROOF
<1> SUFFICES ASSUME IndInv, [Next]_vars PROVE IndInv'
  OBVIOUS
<1>1. CASE UNCHANGED vars
  <2>1. UNCHANGED <<state, holder, value, choice, successful, phase, todo, os, term>>
    BY <1>1 DEF vars, threadVars, mainVars, systemVars
  <2>2. Reserved' = Reserved
    BY <2>1 DEF Reserved
  <2>3. CountInv'
    BY <2>1, <2>2, CountStays DEF IndInv
  <2> QED
    BY <2>1, <2>3 DEF IndInv, TypeInv, LockInv, ThreadsInv, StateInv
<1>2. ASSUME NEW t \in Threads, StressStep(t) PROVE IndInv'
  BY <1>2, GiveUpStep, AcquireStep, SignalStep DEF StressStep
<1>3. ASSUME MainStep PROVE IndInv'
  BY <1>3, NextPhaseStep, ContinueStep, TerminateStep DEF MainStep
<1> QED
  BY <1>1, <1>2, <1>3, ChooseStep, ExitStep DEF Next

-----------------------------------------------------------------------------
\* The inductive invariant, from which the theorems follow.
THEOREM IndInvHolds == Spec => []IndInv
PROOF
  BY InitIndInv, StepIndInv, PTL DEF Spec

\* Before the test is over only a minority is terminated, for any number of threads.
THEOREM MajorityRunsHolds == Spec => []MajorityRuns
PROOF
<1>1. IndInv => MajorityRuns
  <2> SUFFICES ASSUME IndInv, phase # "terminate"
               PROVE  2 * Cardinality(term) < Cardinality(Processes)
    BY DEF MajorityRuns
  <2>1. value = Cardinality(Reserved \cup term) /\ value <= max_terminated_processes
        /\ value \in Nat
    BY DEF IndInv, CountInv, TypeInv
  <2>2. Reserved \cup term \in SUBSET Processes
    BY DEF Reserved, IndInv, TypeInv
  <2>3. IsFiniteSet(Reserved \cup term)
    BY <2>2, StressAssumption, FS_Subset
  <2>4. Cardinality(term) <= Cardinality(Reserved \cup term)
    BY <2>3, FS_Subset
  <2>5. Cardinality(term) \in Nat
    BY <2>3, FS_Subset, FS_CardinalityType
  <2> QED
    BY <2>1, <2>4, <2>5, MaximumIsMinority
<1> QED
  BY <1>1, IndInvHolds, PTL

\* The recorded state of a process is the real one whenever its lock is free.
THEOREM StateIsKnownHolds == Spec => []StateIsKnown
PROOF
<1>1. IndInv => StateIsKnown
  BY DEF IndInv, StateInv, StateIsKnown
<1> QED
  BY <1>1, IndInvHolds, PTL

\* While the driver waits, no process is stopped.
THEOREM NoneLeftStoppedHolds == Spec => []NoneLeftStopped
PROOF
<1>1. IndInv => NoneLeftStopped
  BY DEF IndInv, StateInv, NoneLeftStopped
<1> QED
  BY <1>1, IndInvHolds, PTL

-----------------------------------------------------------------------------
(***************************************************************************)
(* Why the run never hangs: a thread no longer chooses from the processes  *)
(* that it has terminated itself, or is about to.  These are counted, and  *)
(* the counter stays below the number of the processes, so that one which  *)
(* can be stopped or continued is left.  In the last loop a process that   *)
(* has not been visited has yet to be sent SIGTERM, and none is stopped.   *)
(***************************************************************************)
SelectInv ==
  /\ select_proc \in [Threads -> SUBSET Processes]
  /\ phase = "stress" => \A t \in Threads : Processes \ select_proc[t] \subseteq Reserved \cup term

EndInv ==
  phase = "terminate" =>
    \A p \in Processes : os[p] # "stopped" /\ (p \in term \/ (p \in todo /\ state[p] # "TERMINATED"))

LEMMA InitRest == Init => SelectInv /\ EndInv
PROOF
  BY DEF Init, SelectInv, EndInv

\* A process that is counted stays so.
LEMMA CountedStays ==
  ASSUME IndInv, [Next]_vars, NEW p \in Reserved \cup term
  PROVE  p \in Reserved' \cup term'
PROOF
<1> USE DEF IndInv
<1>1. p \in Processes
  BY DEF Reserved, TypeInv
<1>2. term \subseteq term'
  <2>1. ASSUME NEW q, NEW ops, SendSignals(q, ops) PROVE term \subseteq term'
    BY <2>1 DEF SendSignals
  <2>2. ASSUME NEW t \in Threads, StressStep(t) PROVE term \subseteq term'
    BY <2>1, <2>2 DEF StressStep, GiveUp, Acquire, Signal, systemVars
  <2>3. CASE MainStep
    BY <2>1, <2>3 DEF MainStep, NextPhase, continue_stopped_processes, terminate_all_processes,
                      Visit, systemVars
  <2>4. ASSUME NEW t, NEW q, NEW op, Choose(t, q, op) \/ Exit(q) PROVE term \subseteq term'
    BY <2>4 DEF Choose, Exit, systemVars
  <2>5. CASE UNCHANGED vars
    BY <2>5 DEF vars, systemVars
  <2> QED
    BY <2>2, <2>3, <2>4, <2>5 DEF Next
<1>3. CASE p \in term
  BY <1>2, <1>3
<1>4. CASE p \in Reserved
  <2>1. PICK t \in holder[p] : <<p, "TERMINATED">> \in choice[t]
    BY <1>4 DEF Reserved
  <2>2. t \in Threads /\ holder[p] = {t}
    BY <1>1, <2>1 DEF TypeInv, LockInv
  <2>3. choice[t] = {<<p, "TERMINATED">>}
    <3>1. PICK op \in ProcessState : choice[t] = {<<p, op>>}
      BY <1>1, <2>1 DEF LockInv
    <3> QED
      BY <2>1, <3>1
  <2>4. ASSUME holder'[p] = holder[p], choice'[t] = choice[t] PROVE p \in Reserved'
    BY <1>1, <2>1, <2>4 DEF Reserved
  <2>5. ASSUME NEW u \in Threads, NEW q \in Processes, NEW op \in ProcessState, Choose(u, q, op)
        PROVE  p \in Reserved'
    <3>1. u # t /\ choice' = [choice EXCEPT ![u] = {<<q, op>>}] /\ UNCHANGED holder
      BY <2>3, <2>5 DEF Choose
    <3> QED
      BY <2>2, <2>4, <3>1 DEF TypeInv
  <2>6. ASSUME NEW u \in Threads, NEW q \in Processes, NEW op \in ProcessState, GiveUp(u, q, op)
        PROVE  p \in Reserved'
    <3>1. /\ choice[u] = {<<q, op>>} /\ holder[q] = {}
          /\ choice' = [choice EXCEPT ![u] = {}]
          /\ UNCHANGED holder
      BY <2>6 DEF GiveUp
    <3>2. u # t
      <4> SUFFICES ASSUME u = t PROVE FALSE
        OBVIOUS
      <4>1. <<q, op>> = <<p, "TERMINATED">>
        BY <2>3, <3>1
      <4>2. t \in holder[q]
        BY <2>1, <4>1
      <4> QED
        BY <3>1, <4>2
    <3> QED
      BY <2>2, <2>4, <3>1, <3>2 DEF TypeInv
  <2>7. ASSUME NEW u \in Threads, NEW q \in Processes, NEW op \in ProcessState, Acquire(u, q, op)
        PROVE  p \in Reserved'
    <3>1. holder[q] = {} /\ holder' = [holder EXCEPT ![q] = {u}] /\ UNCHANGED choice
      BY <2>7 DEF Acquire
    <3>2. q # p
      BY <2>1, <3>1
    <3> QED
      BY <1>1, <2>4, <3>1, <3>2 DEF TypeInv
  <2>8. ASSUME NEW u \in Threads, NEW q \in Processes, NEW op \in ProcessState, Signal(u, q, op)
        PROVE  p \in Reserved' \cup term'
    <3>1. /\ choice[u] = {<<q, op>>} /\ holder[q] = {u}
          /\ choice' = [choice EXCEPT ![u] = {}]
          /\ holder' = [holder EXCEPT ![q] = {}]
          /\ SendSignals(q, {op})
      BY <2>8 DEF Signal
    <3>2. CASE u = t
      <4>1. <<q, op>> = <<p, "TERMINATED">>
        BY <2>3, <3>1, <3>2
      <4> QED
        BY <3>1, <4>1 DEF SendSignals
    <3>3. CASE u # t
      <4>1. q # p
        BY <2>2, <3>1, <3>3
      <4> QED
        BY <1>1, <2>2, <2>4, <3>1, <3>3, <4>1 DEF TypeInv
    <3> QED
      BY <3>2, <3>3
  <2>9. CASE MainStep \/ (\E q \in Processes : Exit(q)) \/ UNCHANGED vars
    <3>1. UNCHANGED <<holder, choice>>
      BY <2>9 DEF MainStep, NextPhase, continue_stopped_processes, terminate_all_processes, Visit,
                  Exit, vars, threadVars
    <3> QED
      BY <2>4, <3>1
  <2> QED
    BY <2>5, <2>6, <2>7, <2>8, <2>9 DEF Next, StressStep
<1> QED
  BY <1>3, <1>4

LEMMA SelectStep == IndInv /\ SelectInv /\ [Next]_vars => SelectInv'
PROOF
<1> SUFFICES ASSUME IndInv, SelectInv, [Next]_vars PROVE SelectInv'
  OBVIOUS
<1>1. Reserved \cup term \subseteq Reserved' \cup term'
  BY CountedStays
<1>2. ASSUME UNCHANGED select_proc, phase' = "stress" => phase = "stress" PROVE SelectInv'
  BY <1>1, <1>2 DEF SelectInv
<1>3. ASSUME NEW t \in Threads, NEW p \in Processes, NEW op \in ProcessState,
             Choose(t, p, op) \/ GiveUp(t, p, op) \/ Signal(t, p, op)
      PROVE  SelectInv'
  BY <1>2, <1>3 DEF Choose, GiveUp, Signal, mainVars
<1>4. ASSUME NEW t \in Threads, NEW p \in Processes, NEW op \in ProcessState, Acquire(t, p, op)
      PROVE  SelectInv'
  <2>1. /\ select_proc' = [select_proc EXCEPT ![t] = IF op = "TERMINATED" THEN @ \ {p} ELSE @]
        /\ choice[t] = {<<p, op>>}
        /\ holder' = [holder EXCEPT ![p] = {t}]
        /\ UNCHANGED <<choice, phase>>
    BY <1>4 DEF Acquire, mainVars
  <2>2. CASE op # "TERMINATED"
    BY <1>2, <2>1, <2>2 DEF SelectInv
  <2>3. CASE op = "TERMINATED"
    <3>1. t \in holder'[p] /\ <<p, op>> \in choice'[t]
      BY <2>1 DEF IndInv, TypeInv
    <3>2. p \in Reserved'
      BY <2>3, <3>1 DEF Reserved
    <3>3. select_proc' \in [Threads -> SUBSET Processes]
      BY <2>1 DEF SelectInv
    <3>4. \A u \in Threads : select_proc[u] \subseteq select_proc'[u] \cup {p}
      BY <2>1 DEF SelectInv
    <3>5. phase' = "stress" =>
             \A u \in Threads : Processes \ select_proc'[u] \subseteq Reserved' \cup term'
      BY <1>1, <2>1, <3>2, <3>4 DEF SelectInv
    <3> QED
      BY <3>3, <3>5 DEF SelectInv
  <2> QED
    BY <2>2, <2>3
<1>5. CASE MainStep
  BY <1>2, <1>5 DEF MainStep, NextPhase, continue_stopped_processes, terminate_all_processes,
                    Visit, threadVars
<1>6. ASSUME NEW p \in Processes, Exit(p) PROVE SelectInv'
  BY <1>2, <1>6 DEF Exit, threadVars, mainVars
<1>7. CASE UNCHANGED vars
  BY <1>2, <1>7 DEF vars, threadVars, mainVars
<1> QED
  BY <1>3, <1>4, <1>5, <1>6, <1>7 DEF Next, StressStep

LEMMA EndStep == IndInv /\ EndInv /\ [Next]_vars => EndInv'
PROOF
<1> SUFFICES ASSUME IndInv, EndInv, [Next]_vars PROVE EndInv'
  OBVIOUS
<1> USE DEF IndInv
<1>1. ASSUME NEW t \in Threads, StressStep(t) PROVE EndInv'
  <2>1. choice[t] # {} /\ UNCHANGED phase
    BY <1>1 DEF StressStep, GiveUp, Acquire, Signal, mainVars
  <2> QED
    BY <2>1, ChoosingIsStress DEF EndInv
<1>2. ASSUME NEW t, NEW p, NEW op, Choose(t, p, op) PROVE EndInv'
  BY <1>2 DEF Choose, EndInv, mainVars, systemVars
<1>3. CASE NextPhase
  <2>1. UNCHANGED <<state, os, term>> /\ todo = {}
    BY <1>3 DEF NextPhase, PhaseOver, systemVars
  <2>2. phase' = "terminate" => phase = "wait" /\ todo' = Processes
    BY <1>3 DEF NextPhase
  <2>3. phase = "wait" => \A p \in Processes :
           os[p] # "stopped" /\ (state[p] = "TERMINATED" => p \in term)
    BY <2>1 DEF StateInv
  <2> QED
    BY <2>1, <2>2, <2>3 DEF EndInv
<1>4. ASSUME NEW p \in Processes, continue_stopped_processes(p) PROVE EndInv'
  BY <1>4 DEF continue_stopped_processes, Visit, EndInv
<1>5. ASSUME NEW p \in Processes, terminate_all_processes(p) PROVE EndInv'
  <2> DEFINE ops == IF state[p] = "TERMINATED" THEN {} ELSE Resume(p) \cup {"TERMINATED"}
  <2>1. /\ phase = "terminate" /\ p \in todo
        /\ todo' = todo \ {p}
        /\ SendSignals(p, ops)
        /\ UNCHANGED <<state, phase>>
    BY <1>5 DEF terminate_all_processes, Visit
  <2>2. "STOPPED" \notin ops /\ (state[p] # "TERMINATED" => "TERMINATED" \in ops)
    BY DEF Resume
  <2> HIDE DEF ops
  <2>3. /\ term \subseteq term'
        /\ state[p] # "TERMINATED" => p \in term'
        /\ os'[p] \in {"exited", "running", os[p]}
        /\ \A q \in Processes \ {p} : os'[q] = os[q]
    BY <2>1, <2>2 DEF SendSignals, TypeInv
  <2>4. \A q \in Processes : os[q] # "stopped" /\ (q \in term \/ (q \in todo /\ state[q] # "TERMINATED"))
    BY <2>1 DEF EndInv
  <2> QED
    BY <2>1, <2>3, <2>4 DEF EndInv
<1>6. ASSUME NEW p \in Processes, Exit(p) PROVE EndInv'
  <2>1. /\ os' = [os EXCEPT ![p] = "exited"]
        /\ UNCHANGED <<state, phase, todo, term>>
    BY <1>6 DEF Exit, mainVars
  <2>2. \A q \in Processes : os'[q] \in {"exited", os[q]}
    BY <2>1 DEF TypeInv
  <2> QED
    BY <2>1, <2>2 DEF EndInv
<1>7. CASE UNCHANGED vars
  BY <1>7 DEF vars, mainVars, systemVars, EndInv
<1> QED
  BY <1>1, <1>2, <1>3, <1>4, <1>5, <1>6, <1>7 DEF Next, MainStep

\* A process that can be stopped or continued is left to choose from.
LEMMA SomethingToDo ==
  ASSUME IndInv, SelectInv, phase = "stress", NEW t \in Threads
  PROVE  \E p \in select_proc[t], op \in ProcessState :
           valid_state_transition(state[p], op) /\ CanReserve(op)
PROOF
<1> USE DEF IndInv
<1> DEFINE Counted == Reserved \cup term
<1>1. /\ Counted \subseteq Processes
      /\ Cardinality(Counted) <= max_terminated_processes
  BY DEF Reserved, TypeInv, CountInv
<1>2. Counted # Processes
  BY <1>1, MaximumIsMinority
<1>3. PICK p \in Processes : p \notin Counted
  BY <1>1, <1>2
<1>4. p \in select_proc[t]
  BY <1>3 DEF SelectInv
<1>5. state[p] \in {"RUNNING", "STOPPED"}
  BY <1>3 DEF StateInv, TypeInv, ProcessState
<1>6. CASE state[p] = "RUNNING"
  <2>1. "STOPPED" \in ProcessState /\ valid_state_transition(state[p], "STOPPED") /\ CanReserve("STOPPED")
    BY <1>6 DEF ProcessState, valid_state_transition, CanReserve
  <2> QED
    BY <1>4, <2>1
<1>7. CASE state[p] = "STOPPED"
  <2>1. "RUNNING" \in ProcessState /\ valid_state_transition(state[p], "RUNNING") /\ CanReserve("RUNNING")
    BY <1>7 DEF ProcessState, valid_state_transition, CanReserve
  <2> QED
    BY <1>4, <2>1
<1> QED
  BY <1>5, <1>6, <1>7

\* Every choice of a thread is of one process and one operation.
OneChoice ==
  \A t \in Threads :
    choice[t] # {} => \E p \in Processes, op \in ProcessState : choice[t] = {<<p, op>>}

LEMMA OneChoiceStep == IndInv /\ OneChoice /\ [Next]_vars => OneChoice'
PROOF
<1> SUFFICES ASSUME IndInv, OneChoice, [Next]_vars, NEW u \in Threads, choice'[u] # {}
             PROVE  \E q \in Processes, o \in ProcessState : choice'[u] = {<<q, o>>}
  BY DEF OneChoice
<1>1. CASE choice'[u] = choice[u]
  BY <1>1 DEF OneChoice
<1>2. ASSUME NEW t \in Threads, NEW p \in Processes, NEW op \in ProcessState, Choose(t, p, op)
      PROVE  choice'[u] \in {choice[u], {<<p, op>>}}
  BY <1>2 DEF Choose, IndInv, TypeInv
<1>3. ASSUME NEW t \in Threads, NEW p \in Processes, NEW op \in ProcessState,
             GiveUp(t, p, op) \/ Acquire(t, p, op) \/ Signal(t, p, op)
      PROVE  choice'[u] \in {choice[u], {}}
  <2>1. choice' = choice \/ choice' = [choice EXCEPT ![t] = {}]
    BY <1>3 DEF GiveUp, Acquire, Signal
  <2> QED
    BY <2>1 DEF IndInv, TypeInv
<1>4. CASE MainStep \/ (\E p \in Processes : Exit(p)) \/ UNCHANGED vars
  <2>1. UNCHANGED choice
    BY <1>4 DEF MainStep, NextPhase, continue_stopped_processes, terminate_all_processes, Visit, Exit,
                vars, threadVars
  <2> QED
    BY <1>1, <2>1
<1>5. CASE \E t \in Threads, p \in Processes, op \in ProcessState : Choose(t, p, op)
  BY <1>1, <1>2, <1>5
<1>6. CASE \E t \in Threads : StressStep(t)
  BY <1>1, <1>3, <1>6 DEF StressStep
<1> QED
  BY <1>4, <1>5, <1>6 DEF Next

LEMMA NoHang == IndInv /\ SelectInv /\ EndInv /\ OneChoice => NothingHangs
PROOF
<1> SUFFICES ASSUME IndInv, SelectInv, EndInv, OneChoice PROVE NothingHangs
  OBVIOUS
<1>1. ASSUME phase = "stress", NEW t \in Threads, choice[t] # {}
      PROVE  \E p \in Processes, op \in ProcessState :
               /\ choice[t] = {<<p, op>>}
               /\ \A s \in holder[p] : \E o \in ProcessState : choice[s] = {<<p, o>>}
  BY <1>1 DEF OneChoice, IndInv, LockInv
<1>2. phase # "stress" => \A p \in Processes : holder[p] = {}
  BY NoLockLater
<1>3. phase = "terminate" /\ todo = {} =>
         \A p \in Processes : os[p] = "exited" \/ (os[p] = "running" /\ p \in term)
  BY DEF EndInv, IndInv, TypeInv
<1> QED
  BY <1>1, <1>2, <1>3, SomethingToDo DEF NothingHangs

\* No thread, no lock and no process ever keeps the test run from going on.
THEOREM NothingHangsHolds == Spec => []NothingHangs
PROOF
<1>1. Init => OneChoice
  BY DEF Init, OneChoice
<1> QED
  BY <1>1, InitRest, SelectStep, EndStep, OneChoiceStep, NoHang, IndInvHolds, PTL DEF Spec

=============================================================================
