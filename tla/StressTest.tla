----------------------------- MODULE StressTest -----------------------------
(***************************************************************************)
(* tools/stress.py: the test driver.  Its threads stop, continue and       *)
(* terminate the processes under test at random (stress); then its main    *)
(* thread continues what is stopped, lets the processes finish, and        *)
(* terminates them all.  The drivers of milestones 2 and 3 promise         *)
(* something only while a majority runs, so what this one may do to the    *)
(* processes decides what a test run means.                                *)
(*                                                                         *)
(* What the model abstracts: the sleeps, and the order in which the main   *)
(* thread goes through the processes, all other threads having ended.      *)
(***************************************************************************)
EXTENDS Naturals, FiniteSets

CONSTANTS
  Processes,   \* the processes under test
  Threads,     \* the threads that run stress()
  Attempts     \* how many signals each of them has to send

ASSUME StressAssumption ==
  /\ IsFiniteSet(Processes) /\ Processes # {}
  /\ Attempts \in Nat

VARIABLES
  state,        \* state[p]: info.state
  holder,       \* holder[p]: the threads that hold info.lock, none or one
  value,        \* the AtomicSaturatedCounter of terminated processes
  select_proc,  \* select_proc[t]: the processes thread t still chooses from
  choice,       \* choice[t]: the pairs <<process, operation>> in its hands, none or one
  successful,   \* successful[t]: successful_attempts
  phase,        \* where main() is
  todo,         \* the processes the main thread's loop has yet to go through
  os,           \* os[p]: the process, as the operating system has it
  term          \* the processes that have been sent SIGTERM

threadVars == <<select_proc, choice, successful>>
mainVars == <<phase, todo>>
systemVars == <<os, term>>
vars == <<state, holder, value, threadVars, mainVars, systemVars>>

-----------------------------------------------------------------------------
\* A definition whose name starts with Mutant is not part of the model (see PerfectLink).

ProcessState == {"RUNNING", "STOPPED", "TERMINATED"}

valid_state_transition(current, desired) ==
  \/ current = "RUNNING" /\ desired \in {"STOPPED", "TERMINATED"}
  \/ current = "STOPPED" /\ desired = "RUNNING"

MutantHalf == Cardinality(Processes) \div 2 + 1     \* rounded up

max_terminated_processes == (Cardinality(Processes) - 1) \div 2

Init ==
  /\ state = [p \in Processes |-> "RUNNING"]
  /\ holder = [p \in Processes |-> {}]
  /\ value = 0
  /\ select_proc = [t \in Threads |-> Processes]
  /\ choice = [t \in Threads |-> {}]
  /\ successful = [t \in Threads |-> 0]
  /\ phase = "stress"
  /\ todo = {}
  /\ os = [p \in Processes |-> "running"]
  /\ term = {}

(***************************************************************************)
(* The operating system: what a signal does, SIGTERM being handled by the  *)
(* process itself, which then exits (Exit).                                *)
(***************************************************************************)
SendSignals(p, ops) ==
  /\ os' = [os EXCEPT ![p] =
              CASE os[p] = "exited" -> "exited"
                [] "STOPPED" \in ops -> "stopped"
                [] "RUNNING" \in ops -> "running"
                [] OTHER -> @]
  /\ term' = IF "TERMINATED" \in ops THEN term \cup {p} ELSE term

Exit(p) ==
  /\ os[p] = "running"
  /\ p \in term
  /\ os' = [os EXCEPT ![p] = "exited"]
  /\ UNCHANGED <<state, holder, value, threadVars, mainVars, term>>

-----------------------------------------------------------------------------
(***************************************************************************)
(* stress().                                                               *)
(***************************************************************************)

Choose(t, p, op) ==
  /\ choice[t] = {}
  /\ successful[t] < Attempts
  /\ p \in select_proc[t]
  /\ choice' = [choice EXCEPT ![t] = {<<p, op>>}]
  /\ UNCHANGED <<state, holder, value, select_proc, successful, mainVars, systemVars>>

CanReserve(op) == op = "TERMINATED" => value < max_terminated_processes

\* Thread t gets the lock, and the operation cannot be carried out: it lets go of both.
GiveUp(t, p, op) ==
  /\ choice[t] = {<<p, op>>}
  /\ holder[p] = {}
  /\ ~valid_state_transition(state[p], op) \/ ~CanReserve(op)
  /\ choice' = [choice EXCEPT ![t] = {}]
  /\ UNCHANGED <<state, holder, value, select_proc, successful, mainVars, systemVars>>

MutantForgets(t, p, op) ==       \* the process removed, whatever is done to it
  /\ choice[t] = {<<p, op>>}
  /\ holder[p] = {}
  /\ valid_state_transition(state[p], op)
  /\ CanReserve(op)
  /\ holder' = [holder EXCEPT ![p] = {t}]
  /\ value' = IF op = "TERMINATED" THEN value + 1 ELSE value
  /\ select_proc' = [select_proc EXCEPT ![t] = @ \ {p}]
  /\ UNCHANGED <<state, choice, successful, mainVars, systemVars>>

\* Thread t gets the lock and, to terminate a process, its share of the counter.
Acquire(t, p, op) ==
  /\ choice[t] = {<<p, op>>}
  /\ holder[p] = {}
  /\ valid_state_transition(state[p], op)
  /\ CanReserve(op)
  /\ holder' = [holder EXCEPT ![p] = {t}]
  /\ value' = IF op = "TERMINATED" THEN value + 1 ELSE value
  /\ select_proc' = [select_proc EXCEPT ![t] = IF op = "TERMINATED" THEN @ \ {p} ELSE @]
  /\ UNCHANGED <<state, choice, successful, mainVars, systemVars>>

MutantSignalOnly(t, p, op) ==    \* info.state not set
  /\ choice[t] = {<<p, op>>}
  /\ holder[p] = {t}
  /\ SendSignals(p, {op})
  /\ successful' = [successful EXCEPT ![t] = @ + 1]
  /\ choice' = [choice EXCEPT ![t] = {}]
  /\ holder' = [holder EXCEPT ![p] = {}]
  /\ UNCHANGED <<state, value, select_proc, mainVars>>

MutantKeepLock(t, p, op) ==      \* the lock not released
  /\ choice[t] = {<<p, op>>}
  /\ holder[p] = {t}
  /\ SendSignals(p, {op})
  /\ state' = [state EXCEPT ![p] = op]
  /\ successful' = [successful EXCEPT ![t] = @ + 1]
  /\ choice' = [choice EXCEPT ![t] = {}]
  /\ UNCHANGED <<holder, value, select_proc, mainVars>>

\* After its sleep it sends the signal, notes the new state and releases the lock.
Signal(t, p, op) ==
  /\ choice[t] = {<<p, op>>}
  /\ holder[p] = {t}
  /\ SendSignals(p, {op})
  /\ state' = [state EXCEPT ![p] = op]
  /\ successful' = [successful EXCEPT ![t] = @ + 1]
  /\ choice' = [choice EXCEPT ![t] = {}]
  /\ holder' = [holder EXCEPT ![p] = {}]
  /\ UNCHANGED <<value, select_proc, mainVars>>

-----------------------------------------------------------------------------
(***************************************************************************)
(* main(), from run() on.                                                  *)
(***************************************************************************)

\* The loop over all processes is over, or the threads of run() have ended: the next phase.
PhaseOver ==
  /\ todo = {}
  /\ phase = "stress" => \A t \in Threads : successful[t] = Attempts

NextPhase ==
  /\ PhaseOver
  /\ \/ phase = "stress" /\ phase' = "continue" /\ todo' = Processes
     \/ phase = "continue" /\ phase' = "wait" /\ todo' = {}
     \/ phase = "wait" /\ phase' = "terminate" /\ todo' = Processes
  /\ UNCHANGED <<state, holder, value, threadVars, systemVars>>

\* One iteration of a loop, with the signals it sends to p.
Visit(p, ops) ==
  /\ p \in todo
  /\ holder[p] = {}
  /\ todo' = todo \ {p}
  /\ SendSignals(p, IF state[p] = "TERMINATED" THEN {} ELSE ops)
  /\ UNCHANGED <<state, holder, value, threadVars, phase>>

Resume(p) == IF state[p] = "STOPPED" THEN {"RUNNING"} ELSE {}

MutantContinueNone(p) ==         \* the test for STOPPED the wrong way round
  /\ phase = "continue"
  /\ Visit(p, {"RUNNING"} \ Resume(p))

continue_stopped_processes(p) ==
  /\ phase = "continue"
  /\ Visit(p, Resume(p))

terminate_all_processes(p) ==
  /\ phase = "terminate"
  /\ Visit(p, Resume(p) \cup {"TERMINATED"})

-----------------------------------------------------------------------------
StressStep(t) ==
  \E p \in Processes, op \in ProcessState :
    GiveUp(t, p, op) \/ Acquire(t, p, op) \/ Signal(t, p, op)

MainStep ==
  NextPhase \/ \E p \in Processes : continue_stopped_processes(p) \/ terminate_all_processes(p)

Next ==
  \/ \E t \in Threads :
       StressStep(t) \/ \E p \in Processes, op \in ProcessState : Choose(t, p, op)
  \/ MainStep
  \/ \E p \in Processes : Exit(p)

Spec == Init /\ [][Next]_vars

\* The choice of something that can be carried out.
UsefulChoice(t) ==
  \E p \in Processes, op \in ProcessState :
    valid_state_transition(state[p], op) /\ CanReserve(op) /\ Choose(t, p, op)

(***************************************************************************)
(* Fairness: a thread that keeps trying to get a lock gets it some time;   *)
(* one that keeps choosing at random, each operation having a positive     *)
(* share of attempts_ratio, some time makes a choice that can be carried   *)
(* out; the main thread and the processes run on.                          *)
(***************************************************************************)
FairSpec ==
  /\ Spec
  /\ \A t \in Threads :
       /\ SF_vars(StressStep(t))
       /\ WF_vars(\E p \in Processes, op \in ProcessState : Choose(t, p, op))
       /\ SF_vars(UsefulChoice(t))
  /\ WF_vars(MainStep)
  /\ \A p \in Processes : WF_vars(Exit(p))

-----------------------------------------------------------------------------
(***************************************************************************)
(* Properties.                                                             *)
(***************************************************************************)

(***************************************************************************)
(* Until the test is over only a minority of the processes is terminated,  *)
(* however the threads race for the counter.                               *)
(***************************************************************************)
MajorityRuns ==
  phase # "terminate" => 2 * Cardinality(term) < Cardinality(Processes)

(***************************************************************************)
(* Whoever gets the lock of a process finds in info.state what the signals *)
(* have made of the process: a stopped process is never sent SIGTERM, a    *)
(* terminated one no signal at all.                                        *)
(***************************************************************************)
StateIsKnown ==
  phase = "stress" =>
    \A p \in Processes : holder[p] = {} =>
      /\ state[p] = "TERMINATED" <=> p \in term
      /\ state[p] = "STOPPED" <=> os[p] = "stopped"

(***************************************************************************)
(* While the driver waits for the processes to finish, none is stopped.    *)
(***************************************************************************)
NoneLeftStopped ==
  phase = "wait" => \A p \in Processes : os[p] # "stopped"

(***************************************************************************)
(* The test run never hangs: a thread that has signals left to send has a  *)
(* process and an operation to choose that it can carry out, or waits for  *)
(* a lock whose holder has it in its hands and goes on to release it; the  *)
(* main thread waits for no lock; after its last loop every process that   *)
(* has not exited runs, and has been sent SIGTERM.                         *)
(***************************************************************************)
NothingHangs ==
  /\ phase = "stress" =>
       \A t \in Threads :
         \/ successful[t] = Attempts
         \/ /\ choice[t] = {}
            /\ \E p \in select_proc[t], op \in ProcessState :
                 valid_state_transition(state[p], op) /\ CanReserve(op)
         \/ \E p \in Processes, op \in ProcessState :
              /\ choice[t] = {<<p, op>>}
              /\ \A s \in holder[p] : \E o \in ProcessState : choice[s] = {<<p, o>>}
  /\ phase # "stress" => \A p \in Processes : holder[p] = {}
  /\ phase = "terminate" /\ todo = {} =>
       \A p \in Processes : os[p] = "exited" \/ (os[p] = "running" /\ p \in term)

(***************************************************************************)
(* The test run comes to its end, every process exited.                    *)
(***************************************************************************)
EveryProcessExits == <>(\A p \in Processes : os[p] = "exited")
=============================================================================
