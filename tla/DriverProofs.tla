----------------------------- MODULE DriverProofs -----------------------------
(***************************************************************************)
(* Proofs about Driver, for all programs, command lines, hosts files and   *)
(* config files, any capacity of the stream's buffer, and a signal at any  *)
(* time.                                                                   *)
(***************************************************************************)
EXTENDS Driver, SequenceTheorems, TLAPS

-----------------------------------------------------------------------------
(***************************************************************************)
(* main() gets past a stage only if what the stage checks is so.           *)
(***************************************************************************)

\* The receiving thread is there once the link has been constructed.
StageInv ==
  /\ stage \in {"arguments", "hosts", "config", "local", "output", "link", "layers",
                "global", "loop"}
  /\ receiver # "none" => stage \in {"layers", "global", "loop"}

InputsInv ==
  /\ stage # "arguments" => parseInternal(inputs.argv)
  /\ stage \notin {"arguments", "hosts", "config"} => IsConfig(Program, inputs.config)
  /\ stage \notin {"arguments", "hosts", "config", "local"} =>
       LookedUp(Program, inputs.argv, inputs.config) \subseteq ids(inputs.hosts)

(***************************************************************************)
(* A datagram is handled after shutdown() by a thread that was waiting for *)
(* it; the flag is then tested before the next.                            *)
(***************************************************************************)
LateInv ==
  /\ late \in 0 .. 1
  /\ late = 1 => ~continue_receiving /\ receiver # "receiving"

-----------------------------------------------------------------------------
LEMMA PastStages ==
  /\ Past("output") <=> stage \in {"link", "layers", "global", "loop"}
  /\ Past("layers") <=> stage \in {"global", "loop"}
  /\ Past("global") <=> stage = "loop"
PROOF
<1>1. /\ Stages \in Seq({"arguments", "hosts", "config", "local", "output", "link", "layers",
                         "global", "loop"})
      /\ DOMAIN Stages = 1 .. 9
      /\ Stages[1] = "arguments" /\ Stages[2] = "hosts" /\ Stages[3] = "config"
      /\ Stages[4] = "local" /\ Stages[5] = "output" /\ Stages[6] = "link"
      /\ Stages[7] = "layers" /\ Stages[8] = "global" /\ Stages[9] = "loop"
  BY DEF Stages
<1>2. 1 .. 9 = {1, 2, 3, 4, 5, 6, 7, 8, 9}
  OBVIOUS
<1> QED
  BY <1>1, <1>2 DEF Past

LEMMA Smaller ==
  ASSUME NEW x \in Nat, NEW n \in Nat \ {0}, x < n
  PROVE  x % n = x
PROOF
  OBVIOUS

-----------------------------------------------------------------------------
(***************************************************************************)
(* What a step does to the variables that the first properties are about.  *)
(***************************************************************************)
LEMMA MainStages ==
  ASSUME Next
  PROVE  /\ UNCHANGED inputs
         /\ \/ UNCHANGED stage /\ (receiver = "none" => receiver' = "none")
            \/ stage = "link" /\ stage' = "layers"
            \/ /\ UNCHANGED receiver
               /\ \/ stage = "arguments" /\ stage' = "hosts" /\ parseInternal(inputs.argv)
                  \/ stage = "hosts" /\ stage' = "config"
                  \/ stage = "config" /\ stage' = "local" /\ IsConfig(Program, inputs.config)
                  \/ /\ stage = "local" /\ stage' = "output"
                     /\ LookedUp(Program, inputs.argv, inputs.config) \subseteq ids(inputs.hosts)
                  \/ stage = "output" /\ stage' = "link"
                  \/ stage = "layers" /\ stage' = "global"
                  \/ stage = "global" /\ stage' = "loop"
PROOF
<1>1. CASE ParseArguments \/ LoadHosts \/ LoadConfig \/ FindHosts
  BY <1>1 DEF ParseArguments, LoadHosts, LoadConfig, FindHosts, Main
<1>2. CASE OpenOutput \/ ConstructLink \/ ConstructLayers \/ SetGlobal
  BY <1>2 DEF OpenOutput, ConstructLink, ConstructLayers, SetGlobal, Main
<1>3. CASE LogBroadcast \/ LogBroadcastReturns
  BY <1>3 DEF LogBroadcast, LogBroadcastReturns
<1>4. CASE TestFlag \/ ReceiveError
  BY <1>4 DEF TestFlag, ReceiveError, Receiver
<1>5. ASSUME NEW lines \in 0 .. MaxBatch, NEW delivers \in BOOLEAN, NEW isActive \in BOOLEAN,
             Receive(lines, delivers, isActive)
      PROVE  UNCHANGED <<inputs, stage>> /\ (receiver = "none" => receiver' = "none")
  BY <1>5 DEF Receive, Receiver
<1>6. CASE LogDelivery \/ LogDeliveryReturns \/ CallbackReturns
  BY <1>6 DEF LogDelivery, LogDeliveryReturns, CallbackReturns, Receiver
<1>7. CASE Signal \/ Flush \/ FlushReturns \/ Exit \/ SecondSignal
  BY <1>7 DEF Signal, Flush, FlushReturns, Exit, SecondSignal
<1> QED
  BY <1>1, <1>2, <1>3, <1>4, <1>5, <1>6, <1>7 DEF Next

LEMMA ReceiverSteps ==
  ASSUME Next
  PROVE  \/ UNCHANGED <<early, late>> /\ (~continue_receiving => ~continue_receiving')
            /\ (~continue_receiving /\ receiver # "receiving" => receiver' # "receiving")
         \/ \E lines \in 0 .. MaxBatch, delivers, isActive \in BOOLEAN :
              Receive(lines, delivers, isActive)
PROOF
<1>1. CASE ParseArguments \/ LoadHosts \/ LoadConfig \/ FindHosts
  BY <1>1 DEF ParseArguments, LoadHosts, LoadConfig, FindHosts, Main, history
<1>2. CASE OpenOutput \/ ConstructLink \/ ConstructLayers \/ SetGlobal
  BY <1>2 DEF OpenOutput, ConstructLink, ConstructLayers, SetGlobal, Main, history
<1>3. CASE LogBroadcast \/ LogBroadcastReturns
  BY <1>3 DEF LogBroadcast, LogBroadcastReturns, history
<1>4. CASE TestFlag \/ ReceiveError
  BY <1>4 DEF TestFlag, ReceiveError, Receiver, history
<1>5. CASE LogDelivery \/ LogDeliveryReturns \/ CallbackReturns
  BY <1>5 DEF LogDelivery, LogDeliveryReturns, CallbackReturns, Receiver, history
<1>6. CASE Signal \/ Flush \/ FlushReturns \/ Exit \/ SecondSignal
  BY <1>6 DEF Signal, Flush, FlushReturns, Exit, SecondSignal, history
<1> QED
  BY <1>1, <1>2, <1>3, <1>4, <1>5, <1>6 DEF Next

-----------------------------------------------------------------------------
(***************************************************************************)
(* Who takes part.                                                         *)
(***************************************************************************)
TakingPartInv == StageInv /\ InputsInv /\ Program \in Programs

LEMMA TakingPartInvHolds == Spec => []TakingPartInv
PROOF
<1>1. Init => TakingPartInv
  BY DEF Init, TakingPartInv, StageInv, InputsInv, Program
<1>2. TakingPartInv /\ [Next]_vars => TakingPartInv'
  <2> SUFFICES ASSUME TakingPartInv, [Next]_vars PROVE TakingPartInv'
    OBVIOUS
  <2>1. CASE UNCHANGED vars
    BY <2>1 DEF vars, TakingPartInv, StageInv, InputsInv, Program
  <2>2. CASE Next
    BY <2>2, MainStages DEF TakingPartInv, StageInv, InputsInv, Program
  <2> QED
    BY <2>1, <2>2
<1> QED
  BY <1>1, <1>2, PTL DEF Spec

\* A process that takes part has valid inputs, whatever the files hold.
THEOREM TakesPartHolds == Spec => []TakesPart
PROOF
<1>1. TakingPartInv => TakesPart
  <2> SUFFICES ASSUME TakingPartInv, receiver # "none"
               PROVE  LET self == local_id(Program, inputs.argv) IN
                        /\ parseInternal(inputs.argv)
                        /\ self \in ids(inputs.hosts)
                        /\ id(inputs.argv) < IdLimit => self = id(inputs.argv)
                        /\ IsConfig(Program, inputs.config)
                        /\ Program = "m1" => receiver_id(inputs.config) \in ids(inputs.hosts)
    BY DEF TakesPart
  <2>1. /\ parseInternal(inputs.argv)
        /\ IsConfig(Program, inputs.config)
        /\ LookedUp(Program, inputs.argv, inputs.config) \subseteq ids(inputs.hosts)
    BY DEF TakingPartInv, StageInv, InputsInv
  <2>2. id(inputs.argv) \in Nat
    BY <2>1, InputsAssumption DEF parseInternal, parseID, isPositiveNumber, IsNumber, id
  <2>3. id(inputs.argv) < IdLimit => id(inputs.argv) % IdLimit = id(inputs.argv)
    BY <2>2, Smaller, InputsAssumption
  <2> QED
    BY <2>1, <2>3 DEF LookedUp, local_id
<1> QED
  BY <1>1, TakingPartInvHolds, PTL

-----------------------------------------------------------------------------
(***************************************************************************)
(* What the receiving thread uses too early and handles too late.          *)
(***************************************************************************)

\* The thread finds unconstructed at most what EarlyUse says; in particular not the file.
THEOREM EarlyUseHolds == Spec => []EarlyUse
PROOF
<1>1. Init => EarlyUse
  BY DEF Init, EarlyUse
<1>2. TakingPartInv /\ EarlyUse /\ [Next]_vars => EarlyUse'
  <2> SUFFICES ASSUME TakingPartInv, EarlyUse, [Next]_vars PROVE EarlyUse'
    OBVIOUS
  <2>1. Program' = Program
    BY MainStages DEF vars, Program
  <2>2. CASE UNCHANGED early
    BY <2>1, <2>2 DEF EarlyUse
  <2>3. ASSUME NEW lines \in 0 .. MaxBatch, NEW delivers \in BOOLEAN, NEW isActive \in BOOLEAN,
             Receive(lines, delivers, isActive)
        PROVE  EarlyUse'
    <3> DEFINE used == IF delivers THEN Uses(lines, isActive) ELSE {}
               unconstructed == {o \in used : ~Constructed(o)}
    <3>1. /\ early' = early \cup unconstructed /\ receiver = "receiving"
          /\ isActive => Program = "m3" /\ stage = "loop"
          /\ lines > 0 /\ Program = "m3" => isActive
      BY <2>3 DEF Receive, Receiver, MayBeActive, MayWrite
    <3>2. /\ Constructed("global_output_file")
          /\ stage = "loop" => \A o : Constructed(o)
      BY <3>1, PastStages DEF TakingPartInv, StageInv, Constructed
    <3>3. Program \in {"m1", "m2", "m3"}
      BY DriverAssumption DEF TakingPartInv
    <3>4. unconstructed \subseteq CASE Program = "m1" -> {}
                                    [] Program = "m2" -> {"receive_buffer", "frbDeliver"}
                                    [] Program = "m3" -> {"lock"}
      <4>1. CASE Program = "m3" /\ isActive
        BY <3>1, <3>2, <4>1
      <4>2. CASE Program = "m3" /\ ~isActive
        BY <3>1, <3>2, <4>2 DEF Uses
      <4>3. CASE Program \in {"m1", "m2"}
        BY <3>2, <4>3 DEF Uses
      <4> QED
        BY <3>3, <4>1, <4>2, <4>3
    <3> HIDE DEF unconstructed
    <3> QED
      BY <2>1, <3>1, <3>3, <3>4 DEF EarlyUse
  <2> QED
    BY <2>2, <2>3, ReceiverSteps DEF vars, history
<1> QED
  BY <1>1, <1>2, TakingPartInvHolds, PTL DEF Spec

LEMMA LateInvHolds == Spec => []LateInv
PROOF
<1>1. Init => LateInv
  BY DEF Init, LateInv
<1>2. LateInv /\ [Next]_vars => LateInv'
  <2> SUFFICES ASSUME LateInv, [Next]_vars PROVE LateInv'
    OBVIOUS
  <2>1. CASE UNCHANGED vars
    BY <2>1 DEF vars, history, LateInv
  <2>2. CASE UNCHANGED <<early, late>> /\ (~continue_receiving => ~continue_receiving')
             /\ (~continue_receiving /\ receiver # "receiving" => receiver' # "receiving")
    BY <2>2 DEF LateInv
  <2>3. ASSUME NEW lines \in 0 .. MaxBatch, NEW delivers \in BOOLEAN, NEW isActive \in BOOLEAN,
             Receive(lines, delivers, isActive)
        PROVE  LateInv'
    <3>1. /\ receiver = "receiving" /\ receiver' \in {"handling", "hung", "crashed"}
          /\ continue_receiving' = continue_receiving
          /\ late' = IF continue_receiving THEN late ELSE late + 1
      BY <2>3 DEF Receive, Receiver
    <3>2. late = 0
      BY <3>1 DEF LateInv
    <3> QED
      BY <3>1, <3>2 DEF LateInv
  <2> QED
    BY <2>1, <2>2, <2>3, ReceiverSteps
<1> QED
  BY <1>1, <1>2, PTL DEF Spec

\* After shutdown() one more datagram is handled, and never a second.
THEOREM OneMoreDatagramHolds == Spec => []OneMoreDatagram
PROOF
<1>1. LateInv => OneMoreDatagram
  BY DEF LateInv, OneMoreDatagram
<1> QED
  BY <1>1, LateInvHolds, PTL

-----------------------------------------------------------------------------
(***************************************************************************)
(* The file and the stream's buffer.                                       *)
(***************************************************************************)
Lines == [by : Threads, number : Nat \ {0}] \cup {Garbage}

\* Only two threads that have filled the last place can move the pointer past it.
FileInv ==
  /\ OutputFileTypeOK
  /\ written \in [Threads -> Nat] /\ flushed \in [Threads -> Nat]
  /\ \A t \in Threads : writing[t] \in 1 .. Capacity => pptr <= Capacity
  /\ (\A t \in Threads : writing[t] \in 1 .. Capacity) => pptr < Capacity

LEMMA FileTypes ==
  FileInv <=>
    /\ buffer \in [1 .. Capacity + 1 -> Lines]
    /\ pptr \in 0 .. Capacity + 1
    /\ disk \in Seq(Lines)
    /\ writing \in [Threads -> 0 .. Capacity + 1]
    /\ written \in [Threads -> Nat] /\ flushed \in [Threads -> Nat]
    /\ \A t \in Threads : writing[t] \in 1 .. Capacity => pptr <= Capacity
    /\ (\A t \in Threads : writing[t] \in 1 .. Capacity) => pptr < Capacity
PROOF
  BY DEF FileInv, OutputFileTypeOK, Lines

\* What is in the file once the buffer, and perhaps a line, has been appended to it.
LEMMA Appended ==
  ASSUME FileInv, NEW line \in Lines
  PROVE  LET out == disk \o Buffered  more == out \o <<line>> IN
           /\ Len(disk) \in Nat
           /\ out \in Seq(Lines) /\ more \in Seq(Lines)
           /\ Len(out) = Len(disk) + pptr /\ Len(more) = Len(disk) + pptr + 1
           /\ \A i \in 1 .. Len(disk) : out[i] = disk[i] /\ more[i] = disk[i]
           /\ \A k \in 1 .. pptr : /\ out[Len(disk) + k] = buffer[k]
                                   /\ more[Len(disk) + k] = buffer[k]
           /\ more[Len(disk) + pptr + 1] = line
PROOF
<1> DEFINE out == disk \o Buffered  more == out \o <<line>>
<1>1. /\ buffer \in [1 .. Capacity + 1 -> Lines] /\ pptr \in 0 .. Capacity + 1
      /\ disk \in Seq(Lines) /\ Len(disk) \in Nat
  BY FileTypes, LenProperties
<1>2. /\ Buffered \in Seq(Lines) /\ Len(Buffered) = pptr
      /\ \A k \in 1 .. pptr : Buffered[k] = buffer[k]
  <2>1. \A k \in 1 .. pptr : buffer[k] \in Lines
    BY <1>1, OutputFileAssumption
  <2>2. pptr \in Int /\ 1 \in Int
    BY <1>1, OutputFileAssumption
  <2>3. /\ SubSeq(buffer, 1, pptr) \in Seq(Lines)
        /\ Len(SubSeq(buffer, 1, pptr)) = IF 1 <= pptr THEN pptr - 1 + 1 ELSE 0
        /\ \A k \in 1 .. pptr - 1 + 1 : SubSeq(buffer, 1, pptr)[k] = buffer[1 + k - 1]
    BY <2>1, <2>2, SubSeqProperties
  <2> QED
    BY <1>1, <2>3, OutputFileAssumption DEF Buffered
<1>3. /\ out \in Seq(Lines) /\ Len(out) = Len(disk) + pptr
      /\ \A i \in 1 .. Len(disk) + pptr :
           out[i] = IF i <= Len(disk) THEN disk[i] ELSE Buffered[i - Len(disk)]
  BY <1>1, <1>2, ConcatProperties
<1>4. /\ <<line>> \in Seq(Lines) /\ Len(<<line>>) = 1 /\ <<line>>[1] = line
  OBVIOUS
<1> HIDE DEF out
<1>5. /\ more \in Seq(Lines) /\ Len(more) = Len(disk) + pptr + 1
      /\ \A i \in 1 .. Len(disk) + pptr + 1 :
           more[i] = IF i <= Len(disk) + pptr THEN out[i] ELSE <<line>>[i - (Len(disk) + pptr)]
  BY <1>3, <1>4, ConcatProperties
<1> HIDE DEF more
<1>6. \A i \in 1 .. Len(disk) : out[i] = disk[i] /\ more[i] = disk[i]
  BY <1>1, <1>3, <1>5
<1>7. \A k \in 1 .. pptr : out[Len(disk) + k] = buffer[k] /\ more[Len(disk) + k] = buffer[k]
  BY <1>1, <1>2, <1>3, <1>5
<1>8. more[Len(disk) + pptr + 1] = line
  BY <1>1, <1>4, <1>5
<1> QED
  BY <1>1, <1>3, <1>5, <1>6, <1>7, <1>8 DEF out, more

-----------------------------------------------------------------------------
(***************************************************************************)
(* What a step does to the file: nothing, or a step of write(), or one of  *)
(* flush().                                                                *)
(***************************************************************************)
Quiet ==
  /\ UNCHANGED <<fileVars, written, flushed>>
  /\ stopping' = stopping \/ stopping = "no"

Begins(t) ==
  /\ BeginWrite(t, Line(t, written[t] + 1))
  /\ UNCHANGED <<written, flushed, stopping>>

Ends(t) ==
  /\ EndWrite(t)
  /\ written' = [written EXCEPT ![t] = @ + 1]
  /\ UNCHANGED <<flushed, stopping>>

LEMMA FileSteps ==
  ASSUME [Next]_vars
  PROVE  Quiet \/ (\E t \in Threads : Begins(t) \/ Ends(t)) \/ Flush \/ FlushReturns
PROOF
<1>1. CASE UNCHANGED vars
  BY <1>1 DEF vars, history, Quiet
<1>2. CASE ParseArguments \/ LoadHosts \/ LoadConfig \/ FindHosts
  BY <1>2 DEF ParseArguments, LoadHosts, LoadConfig, FindHosts, Main, history, Quiet
<1>3. CASE OpenOutput \/ ConstructLink \/ ConstructLayers \/ SetGlobal
  BY <1>3 DEF OpenOutput, ConstructLink, ConstructLayers, SetGlobal, Main, history, Quiet
<1>4. CASE LogBroadcast \/ LogBroadcastReturns
  BY <1>4 DEF LogBroadcast, LogBroadcastReturns, Begins, Ends, history, Threads
<1>5. CASE TestFlag \/ ReceiveError \/ CallbackReturns
  BY <1>5 DEF TestFlag, ReceiveError, CallbackReturns, Receiver, history, Quiet
<1>6. ASSUME NEW lines \in 0 .. MaxBatch, NEW delivers \in BOOLEAN, NEW isActive \in BOOLEAN,
             Receive(lines, delivers, isActive)
      PROVE  Quiet
  BY <1>6 DEF Receive, Receiver, history, Quiet
<1>7. CASE LogDelivery \/ LogDeliveryReturns
  BY <1>7 DEF LogDelivery, LogDeliveryReturns, Receiver, Begins, Ends, history, Threads
<1>8. CASE Signal \/ Exit \/ SecondSignal
  BY <1>8 DEF Signal, Exit, SecondSignal, Stopping, history, Quiet
<1> QED
  BY <1>1, <1>2, <1>3, <1>4, <1>5, <1>6, <1>7, <1>8 DEF Next

LEMMA FileInvHolds == Spec => []FileInv
PROOF
<1>1. Init => FileInv
  <2> SUFFICES ASSUME Init PROVE FileInv
    OBVIOUS
  <2>1. buffer \in [1 .. Capacity + 1 -> Lines]
    BY DEF Init, Opened, Lines
  <2>2. disk \in Seq(Lines)
    BY DEF Init, Opened
  <2> QED
    BY <2>1, <2>2, FileTypes, OutputFileAssumption DEF Init, Opened, Idle, Threads
<1>2. FileInv /\ [Next]_vars => FileInv'
  <2> SUFFICES ASSUME FileInv, [Next]_vars PROVE FileInv'
    OBVIOUS
  <2>1. /\ buffer \in [1 .. Capacity + 1 -> Lines] /\ pptr \in 0 .. Capacity + 1
        /\ disk \in Seq(Lines)
        /\ writing \in [Threads -> 0 .. Capacity + 1]
        /\ written \in [Threads -> Nat] /\ flushed \in [Threads -> Nat]
        /\ \A t \in Threads : writing[t] \in 1 .. Capacity => pptr <= Capacity
        /\ (\A t \in Threads : writing[t] \in 1 .. Capacity) => pptr < Capacity
        /\ Capacity \in Nat \ {0}
    BY FileTypes, OutputFileAssumption
  <2>2. CASE Quiet
    BY <2>1, <2>2 DEF Quiet, fileVars, FileInv, OutputFileTypeOK, Lines
  <2>3. ASSUME NEW t \in Threads, Copy(t, Line(t, written[t] + 1)),
               UNCHANGED <<written, flushed, stopping>>
        PROVE  FileInv'
    <3>1. Line(t, written[t] + 1) \in Lines
      BY <2>1 DEF Line, Lines
    <3>2. buffer' \in [1 .. Capacity + 1 -> Lines]
      BY <2>1, <2>3, <3>1 DEF Copy
    <3>3. \A u \in Threads : writing'[u] = IF u = t THEN pptr + 1 ELSE writing[u]
      BY <2>1, <2>3 DEF Copy
    <3>4. writing' \in [Threads -> 0 .. Capacity + 1] /\ pptr' = pptr /\ pptr < Capacity
      BY <2>1, <2>3 DEF Copy
    <3>5. disk' = disk
      BY <2>3 DEF Copy
    <3> QED
      BY <2>1, <2>3, <3>2, <3>3, <3>4, <3>5 DEF FileInv, OutputFileTypeOK, Lines
  <2>4. ASSUME NEW t \in Threads, WriteThrough(t, Line(t, written[t] + 1)),
               UNCHANGED <<written, flushed, stopping>>
        PROVE  FileInv'
    <3>1. Line(t, written[t] + 1) \in Lines
      BY <2>1 DEF Line, Lines
    <3>2. disk' \in Seq(Lines)
      BY <2>4, <3>1, Appended DEF WriteThrough
    <3>3. /\ writing' \in [Threads -> 0 .. Capacity + 1]
          /\ \A u \in Threads : writing'[u] \in 1 .. Capacity => writing[u] \in 1 .. Capacity
          /\ ~ (writing'[t] \in 1 .. Capacity)
      BY <2>1, <2>4 DEF WriteThrough, Through
    <3>4. UNCHANGED <<buffer, pptr>>
      BY <2>4 DEF WriteThrough
    <3> QED
      BY <2>1, <2>4, <3>2, <3>3, <3>4 DEF FileInv, OutputFileTypeOK, Lines
  <2>5. ASSUME NEW t \in Threads, Ends(t) PROVE FileInv'
    <3>1. /\ UNCHANGED <<buffer, disk, flushed>>
          /\ written' \in [Threads -> Nat]
          /\ writing' = [writing EXCEPT ![t] = 0]
      BY <2>1, <2>5 DEF Ends, EndWrite, Bump, Restart, Idle
    <3>2. \A u \in Threads : writing'[u] = IF u = t THEN 0 ELSE writing[u]
      BY <2>1, <3>1
    <3>3. writing' \in [Threads -> 0 .. Capacity + 1]
      BY <2>1, <3>1
    <3>4. /\ pptr' \in 0 .. Capacity + 1
          /\ \A u \in Threads : writing'[u] \in 1 .. Capacity => pptr' <= Capacity
      <4>1. CASE Restart(t)
        BY <2>1, <4>1 DEF Restart
      <4>2. CASE Bump(t)
        <5>1. writing[t] \in 1 .. Capacity /\ pptr' \in {pptr + 1, writing[t]}
          BY <4>2 DEF Bump
        <5>2. pptr <= Capacity
          BY <2>1, <5>1
        <5>3. ASSUME NEW u \in Threads, writing'[u] \in 1 .. Capacity PROVE pptr' <= Capacity
          <6>1. u # t /\ writing[u] \in 1 .. Capacity
            BY <3>2, <5>3
          <6>2. \A v \in Threads : writing[v] \in 1 .. Capacity
            BY <5>1, <6>1 DEF Threads
          <6> QED
            BY <2>1, <5>1, <6>2
        <5> QED
          BY <2>1, <5>1, <5>2, <5>3
      <4> QED
        BY <2>5, <4>1, <4>2 DEF Ends, EndWrite
    <3>5. \E u \in Threads : ~ (writing'[u] \in 1 .. Capacity)
      BY <3>2
    <3> QED
      BY <2>1, <3>1, <3>3, <3>4, <3>5 DEF FileInv, OutputFileTypeOK, Lines
  <2>6. CASE Flush
    <3>1. Garbage \in Lines
      BY DEF Lines
    <3>2. disk' \in Seq(Lines)
      BY <2>6, <3>1, Appended DEF Flush, FlushOut
    <3>3. UNCHANGED <<buffer, pptr, writing, written>> /\ flushed' = written
      BY <2>6 DEF Flush, FlushOut
    <3> QED
      BY <2>1, <3>2, <3>3 DEF FileInv, OutputFileTypeOK, Lines
  <2>7. CASE FlushReturns
    BY <2>1, <2>7 DEF FlushReturns, FlushEnd, history, FileInv, OutputFileTypeOK, Lines
  <2> QED
    BY <2>2, <2>3, <2>4, <2>5, <2>6, <2>7, FileSteps DEF Begins, BeginWrite
<1> QED
  BY <1>1, <1>2, PTL DEF Spec

-----------------------------------------------------------------------------
(***************************************************************************)
(* A process of which one thread writes.                                   *)
(***************************************************************************)

\* Who has written has written from then on, so that the only writer was the only one.
LEMMA OnlyWriterBefore ==
  ASSUME FileInv, [Next]_vars, NEW t \in Threads, OnlyWriter(t)'
  PROVE  /\ OnlyWriter(t)
         /\ \A u \in Threads : Begins(u) \/ Ends(u) => u = t
PROOF
<1>1. /\ written \in [Threads -> Nat] /\ writing \in [Threads -> 0 .. Capacity + 1]
      /\ pptr \in Nat /\ Capacity \in Nat
  BY FileTypes, OutputFileAssumption
<1>2. ASSUME NEW u \in Threads, Begins(u)
      PROVE  /\ Writes(u)'
             /\ \A v \in Threads \ {u} : Writes(v)' <=> Writes(v)
  <2>1. /\ \A v \in Threads \ {u} : writing'[v] = writing[v]
        /\ writing'[u] # Idle
        /\ written' = written
    BY <1>1, <1>2 DEF Begins, BeginWrite, Copy, WriteThrough, Through, Idle
  <2> QED
    BY <2>1 DEF Writes
<1>3. ASSUME NEW u \in Threads, Ends(u)
      PROVE  /\ Writes(u)'
             /\ \A v \in Threads \ {u} : Writes(v)' <=> Writes(v)
  <2>1. /\ \A v \in Threads \ {u} : writing'[v] = writing[v] /\ written'[v] = written[v]
        /\ written'[u] > 0
    BY <1>1, <1>3 DEF Ends, EndWrite, Bump, Restart
  <2> QED
    BY <2>1 DEF Writes
<1>4. \A u \in Threads : Begins(u) \/ Ends(u) => u = t
  BY <1>2, <1>3 DEF OnlyWriter
<1>5. CASE Quiet \/ Flush \/ FlushReturns
  <2>1. UNCHANGED <<written, writing>>
    BY <1>5 DEF Quiet, Flush, FlushReturns, fileVars, FlushOut, FlushEnd, history
  <2>2. \A u \in Threads : Writes(u)' <=> Writes(u)
    BY <2>1 DEF Writes
  <2> QED
    BY <1>4, <2>2 DEF OnlyWriter
<1>6. CASE \E u \in Threads : Begins(u) \/ Ends(u)
  BY <1>2, <1>3, <1>4, <1>6 DEF OnlyWriter
<1> QED
  BY <1>4, <1>5, <1>6, FileSteps

(***************************************************************************)
(* Who does not write: the main thread of a receiver of m1 and of m3, the  *)
(* receiving thread of a sender of m1.                                     *)
(***************************************************************************)
MainSilent == (Program = "m1" /\ IsReceiver) \/ Program = "m3"
ReceiverSilent == Program = "m1" /\ ~IsReceiver

SilentInv ==
  /\ MainSilent => ~Writes("main")
  /\ ReceiverSilent => ~Writes("receiver") /\ pending = 0

LEMMA SilentStep == FileInv /\ SilentInv /\ [Next]_vars => SilentInv'
PROOF
<1> SUFFICES ASSUME FileInv, SilentInv, [Next]_vars PROVE SilentInv'
  OBVIOUS
<1>1. /\ written \in [Threads -> Nat] /\ writing \in [Threads -> 0 .. Capacity + 1]
      /\ pptr \in Nat /\ Capacity \in Nat \ {0}
      /\ "main" \in Threads /\ "receiver" \in Threads
  BY FileTypes, OutputFileAssumption DEF Threads
<1>2. (MainSilent' <=> MainSilent) /\ (ReceiverSilent' <=> ReceiverSilent)
  BY MainStages DEF vars, MainSilent, ReceiverSilent, IsReceiver, Program
<1>3. CASE UNCHANGED <<writing, written, pending>>
  BY <1>2, <1>3 DEF SilentInv, Writes
<1>4. ~(MainSilent /\ LogBroadcast)
  BY <1>1 DEF LogBroadcast, LoopLines, MainSilent, SilentInv, Writes
<1>5. ~(MainSilent /\ LogBroadcastReturns)
  BY <1>1 DEF LogBroadcastReturns, EndWrite, Bump, Restart, Idle, Through, SilentInv, Writes
<1>6. CASE LogBroadcast \/ LogBroadcastReturns
  <2>1. /\ writing'["receiver"] = writing["receiver"]
        /\ written'["receiver"] = written["receiver"]
        /\ pending' = pending
    BY <1>1, <1>6 DEF LogBroadcast, LogBroadcastReturns, BeginWrite, Copy, WriteThrough,
                      EndWrite, Bump, Restart
  <2> QED
    BY <1>2, <1>4, <1>5, <1>6, <2>1 DEF SilentInv, Writes
<1>7. ~(ReceiverSilent /\ LogDelivery)
  BY DEF LogDelivery, SilentInv
<1>8. ~(ReceiverSilent /\ LogDeliveryReturns)
  BY <1>1 DEF LogDeliveryReturns, EndWrite, Bump, Restart, Idle, Through, SilentInv, Writes
<1>9. CASE LogDelivery \/ LogDeliveryReturns
  <2>1. writing'["main"] = writing["main"] /\ written'["main"] = written["main"]
    BY <1>1, <1>9 DEF LogDelivery, LogDeliveryReturns, Receiver, BeginWrite, Copy, WriteThrough,
                      EndWrite, Bump, Restart
  <2> QED
    BY <1>2, <1>7, <1>8, <1>9, <2>1 DEF SilentInv, Writes
<1>10. ASSUME NEW lines \in 0 .. MaxBatch, NEW delivers \in BOOLEAN, NEW isActive \in BOOLEAN,
              Receive(lines, delivers, isActive)
       PROVE  SilentInv'
  <2>1. /\ UNCHANGED <<writing, written>>
        /\ pending' = lines
        /\ ReceiverSilent => lines = 0
    BY <1>10, DriverAssumption DEF Receive, Receiver, fileVars, MayWrite, ReceiverSilent
  <2> QED
    BY <1>2, <2>1 DEF SilentInv, Writes
<1>11. CASE ParseArguments \/ LoadHosts \/ LoadConfig \/ FindHosts
  BY <1>3, <1>11 DEF ParseArguments, LoadHosts, LoadConfig, FindHosts, Main, fileVars
<1>12. CASE OpenOutput \/ ConstructLink \/ ConstructLayers \/ SetGlobal
  BY <1>3, <1>12 DEF OpenOutput, ConstructLink, ConstructLayers, SetGlobal, Main, fileVars
<1>13. CASE TestFlag \/ ReceiveError \/ CallbackReturns
  BY <1>3, <1>13 DEF TestFlag, ReceiveError, CallbackReturns, Receiver, fileVars
<1>14. CASE Signal \/ Flush \/ FlushReturns \/ Exit \/ SecondSignal
  BY <1>3, <1>14 DEF Signal, Flush, FlushReturns, Exit, SecondSignal, FlushOut, FlushEnd, fileVars
<1>15. CASE UNCHANGED vars
  BY <1>3, <1>15 DEF vars, fileVars
<1> QED
  BY <1>6, <1>9, <1>10, <1>11, <1>12, <1>13, <1>14, <1>15 DEF Next

\* In m1 and m3, whatever the inputs, one thread of a process writes at most.
THEOREM OneWriterHolds == Spec => []OneWriter
PROOF
<1>1. Init => SilentInv
  BY DEF Init, Opened, SilentInv, Writes, Threads, Idle
<1>2. TakingPartInv /\ SilentInv => OneWriter
  <2> SUFFICES ASSUME TakingPartInv, SilentInv, Program # "m2"
               PROVE  \E t \in Threads : OnlyWriter(t)
    BY DEF OneWriter
  <2>1. MainSilent \/ ReceiverSilent
    BY DriverAssumption DEF TakingPartInv, MainSilent, ReceiverSilent
  <2> QED
    BY <2>1 DEF SilentInv, OnlyWriter, Threads
<1> QED
  BY <1>1, <1>2, SilentStep, FileInvHolds, TakingPartInvHolds, PTL DEF Spec

\* What has been written is the file and, behind it, the buffer: n lines of t.
Holds(t, n) ==
  /\ Len(disk) + pptr = n
  /\ \A i \in 1 .. Len(disk) : disk[i] = Line(t, i)
  /\ \A k \in 1 .. pptr : buffer[k] = Line(t, Len(disk) + k)

\* What the file and the buffer hold, wherever the only writer is in write().
PrefixOf(t) ==
  /\ writing[t] = Idle => Holds(t, written[t])
  /\ writing[t] \in 1 .. Capacity => /\ Holds(t, written[t])
                                     /\ writing[t] = pptr + 1
                                     /\ buffer[writing[t]] = Line(t, written[t] + 1)
  /\ writing[t] = Through => /\ Len(disk) = written[t] + 1
                             /\ \A i \in 1 .. Len(disk) : disk[i] = Line(t, i)

PrefixInv ==
  \A t \in Threads : stopping \in {"no", "flush"} /\ OnlyWriter(t) => PrefixOf(t)

LEMMA PrefixInvHolds == Spec => []PrefixInv
PROOF
<1>1. Init => PrefixInv
  BY OutputFileAssumption
     DEF Init, Opened, PrefixInv, PrefixOf, Holds, Idle, Through, Threads
<1>2. FileInv /\ PrefixInv /\ [Next]_vars => PrefixInv'
  <2> SUFFICES ASSUME FileInv, PrefixInv, [Next]_vars,
                      NEW t \in Threads, stopping' \in {"no", "flush"}, OnlyWriter(t)'
               PROVE  PrefixOf(t)'
    BY DEF PrefixInv
  <2>1. /\ buffer \in [1 .. Capacity + 1 -> Lines] /\ pptr \in 0 .. Capacity + 1
        /\ disk \in Seq(Lines) /\ Len(disk) \in Nat
        /\ writing \in [Threads -> 0 .. Capacity + 1]
        /\ written \in [Threads -> Nat] /\ Capacity \in Nat \ {0}
    BY FileTypes, LenProperties, OutputFileAssumption
  <2>2. /\ OnlyWriter(t)
        /\ \A u \in Threads : Begins(u) \/ Ends(u) => u = t
    BY OnlyWriterBefore
  <2>3. CASE Quiet
    BY <2>2, <2>3 DEF Quiet, fileVars, PrefixInv, PrefixOf, Holds
  <2>4. CASE Flush \/ FlushReturns
    BY <2>4 DEF Flush, FlushReturns
  <2>5. CASE Begins(t)
    <3>1. stopping' = stopping /\ written' = written
      BY <2>5 DEF Begins
    <3>2. PrefixOf(t)
      BY <2>2, <3>1 DEF PrefixInv
    <3>3. CASE Copy(t, Line(t, written[t] + 1))
      <4>1. /\ Holds(t, written[t])
            /\ pptr < Capacity
            /\ UNCHANGED <<pptr, disk>>
            /\ writing'[t] = pptr + 1
            /\ buffer'[pptr + 1] = Line(t, written[t] + 1)
            /\ \A k \in 1 .. pptr : buffer'[k] = buffer[k]
        BY <2>1, <3>2, <3>3 DEF Copy, PrefixOf
      <4>2. Holds(t, written[t])'
        BY <2>1, <3>1, <4>1 DEF Holds
      <4> QED
        BY <2>1, <3>1, <4>1, <4>2 DEF PrefixOf, Idle, Through, Line
    <3>4. CASE WriteThrough(t, Line(t, written[t] + 1))
      <4>1. /\ Holds(t, written[t])
            /\ writing'[t] = Through
            /\ disk' = disk \o Buffered \o <<Line(t, written[t] + 1)>>
        BY <2>1, <3>2, <3>4 DEF WriteThrough, PrefixOf
      <4>2. Line(t, written[t] + 1) \in Lines
        BY <2>1 DEF Line, Lines
      <4>3. /\ Len(disk') = Len(disk) + pptr + 1
            /\ \A i \in 1 .. Len(disk) : disk'[i] = disk[i]
            /\ \A k \in 1 .. pptr : disk'[Len(disk) + k] = buffer[k]
            /\ disk'[Len(disk) + pptr + 1] = Line(t, written[t] + 1)
        BY <4>1, <4>2, Appended
      <4>4. Len(disk) + pptr = written[t]
        BY <4>1 DEF Holds
      <4>5. ASSUME NEW i \in 1 .. Len(disk') PROVE disk'[i] = Line(t, i)
        <5>1. CASE i \in 1 .. Len(disk)
          BY <4>1, <4>3, <5>1 DEF Holds
        <5>2. CASE i - Len(disk) \in 1 .. pptr
          <6>1. /\ disk'[Len(disk) + (i - Len(disk))] = buffer[i - Len(disk)]
                /\ buffer[i - Len(disk)] = Line(t, Len(disk) + (i - Len(disk)))
            BY <4>1, <4>3, <5>2 DEF Holds
          <6> QED
            BY <2>1, <4>3, <6>1
        <5>3. CASE i = Len(disk) + pptr + 1
          BY <2>1, <4>3, <4>4, <5>3
        <5>4. i \in 1 .. Len(disk) + pptr + 1
          BY <4>3
        <5> QED
          BY <2>1, <5>1, <5>2, <5>3, <5>4
      <4>6. Len(disk') = written[t] + 1
        BY <2>1, <4>3, <4>4
      <4> QED
        BY <2>1, <3>1, <4>1, <4>5, <4>6 DEF PrefixOf, Idle, Through
    <3> QED
      BY <2>5, <3>3, <3>4 DEF Begins, BeginWrite
  <2>6. CASE Ends(t)
    <3>1. /\ stopping' = stopping /\ written'[t] = written[t] + 1
          /\ UNCHANGED <<buffer, disk>>
          /\ writing'[t] = Idle
      BY <2>1, <2>6 DEF Ends, EndWrite, Bump, Restart
    <3>2. PrefixOf(t)
      BY <2>2, <3>1 DEF PrefixInv
    <3>3. Holds(t, written[t])'
      <4>1. CASE Bump(t)
        <5>1. /\ Holds(t, written[t]) /\ pptr' = pptr + 1
              /\ buffer[pptr + 1] = Line(t, written[t] + 1)
          BY <2>1, <3>2, <4>1 DEF Bump, PrefixOf
        <5>2. Len(disk) + pptr = written[t] /\ Len(disk') = Len(disk)
          BY <3>1, <5>1 DEF Holds
        <5>3. \A i \in 1 .. Len(disk') : disk'[i] = Line(t, i)
          BY <3>1, <5>1 DEF Holds
        <5>4. ASSUME NEW k \in 1 .. pptr + 1 PROVE buffer'[k] = Line(t, Len(disk) + k)
          <6>1. CASE k = pptr + 1
            <7>1. Len(disk) + k = written[t] + 1
              BY <2>1, <5>2, <6>1
            <7> QED
              BY <3>1, <5>1, <6>1, <7>1
          <6>2. CASE k \in 1 .. pptr
            BY <3>1, <5>1, <6>2 DEF Holds
          <6> QED
            BY <2>1, <6>1, <6>2
        <5> QED
          BY <2>1, <3>1, <5>1, <5>2, <5>3, <5>4 DEF Holds
      <4>2. CASE Restart(t)
        BY <2>1, <3>1, <3>2, <4>2 DEF Restart, PrefixOf, Holds
      <4> QED
        BY <2>6, <4>1, <4>2 DEF Ends, EndWrite
    <3> QED
      BY <2>1, <3>1, <3>3 DEF PrefixOf, Idle, Through
  <2> QED
    BY <2>2, <2>3, <2>4, <2>5, <2>6, FileSteps
<1> QED
  BY <1>1, <1>2, FileInvHolds, PTL DEF Spec

(***************************************************************************)
(* Until stop() flushes, for any capacity: in a process of which one       *)
(* thread writes the file is at any point the beginning of what it has     *)
(* written or is writing, and between two writes the buffer holds the      *)
(* rest.                                                                   *)
(***************************************************************************)
THEOREM FileIsPrefixHolds == Spec => []FileIsPrefix
PROOF
<1>1. ASSUME FileInv, PrefixInv,
             NEW t \in Threads, stopping \in {"no", "flush"}, OnlyWriter(t)
      PROVE  Len(disk) <= written[t] + 1 /\ \A i \in 1 .. Len(disk) : disk[i] = Line(t, i)
  <2>1. /\ pptr \in Nat /\ Len(disk) \in Nat /\ written[t] \in Nat
        /\ writing[t] \in {Idle, Through} \cup 1 .. Capacity
    BY <1>1, FileTypes, LenProperties, OutputFileAssumption DEF Idle, Through
  <2>2. PrefixOf(t)
    BY <1>1 DEF PrefixInv
  <2> QED
    BY <2>1, <2>2 DEF PrefixOf, Holds
<1>2. ASSUME FileInv, PrefixInv,
             NEW t \in Threads, stopping \in {"no", "flush"}, OnlyWriter(t), writing[t] = Idle
      PROVE  disk \o Buffered = [n \in 1 .. written[t] |-> Line(t, n)]
  <2> USE <1>2
  <2> DEFINE out == disk \o Buffered
             given == [n \in 1 .. written[t] |-> Line(t, n)]
  <2>1. /\ pptr \in Nat /\ Len(disk) \in Nat /\ written[t] \in Nat
        /\ Garbage \in Lines
    BY FileTypes, LenProperties, OutputFileAssumption DEF Lines
  <2>2. Holds(t, written[t])
    BY DEF PrefixInv, PrefixOf
  <2>3. /\ out \in Seq(Lines) /\ Len(out) = Len(disk) + pptr
        /\ \A i \in 1 .. Len(disk) : out[i] = disk[i]
        /\ \A k \in 1 .. pptr : out[Len(disk) + k] = buffer[k]
    BY <2>1, Appended
  <2>4. given \in Seq(Lines) /\ Len(given) = written[t]
    <3>1. \A n \in 1 .. written[t] : Line(t, n) \in Lines
      BY <2>1 DEF Line, Lines
    <3> QED
      BY <2>1, <3>1
  <2> HIDE DEF out
  <2>5. ASSUME NEW i \in 1 .. Len(out) PROVE out[i] = Line(t, i)
    <3>1. CASE i \in 1 .. Len(disk)
      BY <2>2, <2>3, <3>1 DEF Holds
    <3>2. CASE i - Len(disk) \in 1 .. pptr
      <4>1. /\ out[Len(disk) + (i - Len(disk))] = buffer[i - Len(disk)]
            /\ buffer[i - Len(disk)] = Line(t, Len(disk) + (i - Len(disk)))
        BY <2>2, <2>3, <3>2 DEF Holds
      <4> QED
        BY <2>1, <2>3, <4>1
    <3> QED
      BY <2>1, <2>3, <3>1, <3>2
  <2>6. Len(out) = written[t]
    BY <2>2, <2>3 DEF Holds
  <2>7. \A i \in 1 .. Len(out) : given[i] = Line(t, i)
    BY <2>6
  <2> HIDE DEF given
  <2>8. out = given
    BY <2>3, <2>4, <2>5, <2>6, <2>7, SeqEqual
  <2> QED
    BY <2>8 DEF out, given
<1>3. FileInv /\ PrefixInv => FileIsPrefix
  BY <1>1, <1>2 DEF FileIsPrefix
<1> QED
  BY <1>3, FileInvHolds, PrefixInvHolds, PTL

(***************************************************************************)
(* What stop() has flushed, and where the lines in the file come from:     *)
(* while flush() is at work, and afterwards, the only writer may move the  *)
(* put pointer anywhere, but up to the place it has filled last the buffer *)
(* holds nothing but lines of its own.                                     *)
(***************************************************************************)
From(t, line) == line.by = t /\ line.number <= written[t] + 1

FlushedOf(t) ==
  /\ \A n \in 1 .. flushed[t] : \E i \in 1 .. Len(disk) : disk[i] = Line(t, n)
  /\ \A i \in 1 .. Len(disk) : From(t, disk[i])
  /\ \A k \in 1 .. pptr : From(t, buffer[k])
  /\ writing[t] \in 1 .. Capacity => /\ pptr < writing[t]
                                     /\ \A k \in 1 .. writing[t] : From(t, buffer[k])

FlushedInv ==
  /\ stopping \in {"no", "flush"} => \A t \in Threads : flushed[t] = 0
  /\ \A t \in Threads : OnlyWriter(t) => FlushedOf(t)

LEMMA FlushedInvHolds == Spec => []FlushedInv
PROOF
<1>1. Init => FlushedInv
  BY OutputFileAssumption DEF Init, Opened, FlushedInv, FlushedOf, Idle, Threads
<1>2. FileInv /\ PrefixInv /\ FlushedInv /\ [Next]_vars => FlushedInv'
  <2> SUFFICES ASSUME FileInv, PrefixInv, FlushedInv, [Next]_vars PROVE FlushedInv'
    OBVIOUS
  <2>1. /\ buffer \in [1 .. Capacity + 1 -> Lines] /\ pptr \in 0 .. Capacity + 1
        /\ disk \in Seq(Lines) /\ Len(disk) \in Nat
        /\ writing \in [Threads -> 0 .. Capacity + 1]
        /\ written \in [Threads -> Nat] /\ Capacity \in Nat \ {0}
    BY FileTypes, LenProperties, OutputFileAssumption
  <2>2. (stopping \in {"no", "flush"} => \A t \in Threads : flushed[t] = 0)'
    BY FileSteps DEF FlushedInv, Quiet, Begins, Ends, Flush, FlushReturns
  <2>3. ASSUME NEW t \in Threads, OnlyWriter(t)' PROVE FlushedOf(t)'
    <3>1. /\ FlushedOf(t)
          /\ \A u \in Threads : Begins(u) \/ Ends(u) => u = t
      BY <2>3, OnlyWriterBefore DEF FlushedInv
    <3>2. CASE Quiet
      BY <3>1, <3>2 DEF Quiet, fileVars, FlushedOf, From
    <3>3. CASE Flush
      <4>1. Garbage \in Lines
        BY DEF Lines
      <4>2. /\ Len(disk') = Len(disk) + pptr
            /\ \A i \in 1 .. Len(disk) : disk'[i] = disk[i]
            /\ \A k \in 1 .. pptr : disk'[Len(disk) + k] = buffer[k]
        BY <3>3, <4>1, Appended DEF Flush, FlushOut
      <4>3. /\ UNCHANGED <<buffer, pptr, writing, written>> /\ flushed' = written
            /\ stopping = "flush"
        BY <3>3 DEF Flush, FlushOut, Stopping
      <4>4. PrefixOf(t)
        BY <2>3, <4>3, OnlyWriterBefore DEF PrefixInv
      <4>5. ASSUME NEW n \in 1 .. written[t]
            PROVE  \E i \in 1 .. Len(disk') : disk'[i] = Line(t, n)
        <5>1. CASE n \in 1 .. Len(disk)
          <6>1. disk[n] = Line(t, n)
            BY <2>1, <4>4, <5>1 DEF PrefixOf, Holds, Idle, Through
          <6> QED
            BY <2>1, <4>2, <5>1, <6>1
        <5>2. CASE ~ (n \in 1 .. Len(disk))
          <6>1. Holds(t, written[t])
            BY <2>1, <4>4, <5>2 DEF PrefixOf, Idle, Through
          <6>2. Len(disk) + pptr = written[t] /\ n - Len(disk) \in 1 .. pptr
            BY <2>1, <5>2, <6>1 DEF Holds
          <6>3. /\ disk'[Len(disk) + (n - Len(disk))] = buffer[n - Len(disk)]
                /\ buffer[n - Len(disk)] = Line(t, Len(disk) + (n - Len(disk)))
            BY <4>2, <6>1, <6>2 DEF Holds
          <6>4. Len(disk) + (n - Len(disk)) = n /\ n \in 1 .. Len(disk')
            BY <2>1, <4>2, <6>2
          <6> QED
            BY <6>3, <6>4
        <5> QED
          BY <5>1, <5>2
      <4>6. ASSUME NEW i \in 1 .. Len(disk') PROVE From(t, disk'[i])
        <5>1. CASE i \in 1 .. Len(disk)
          BY <3>1, <4>2, <5>1 DEF FlushedOf
        <5>2. CASE i - Len(disk) \in 1 .. pptr
          <6>1. disk'[Len(disk) + (i - Len(disk))] = buffer[i - Len(disk)]
            BY <4>2, <5>2
          <6> QED
            BY <2>1, <3>1, <5>2, <6>1 DEF FlushedOf
        <5>3. i \in 1 .. Len(disk) + pptr
          BY <4>2
        <5> QED
          BY <2>1, <5>1, <5>2, <5>3
      <4> QED
        BY <3>1, <4>3, <4>5, <4>6 DEF FlushedOf, From
    <3>4. CASE FlushReturns
      <4>1. UNCHANGED <<buffer, disk, writing, written, flushed>> /\ pptr' = 0
        BY <3>4 DEF FlushReturns, FlushEnd, history
      <4> QED
        BY <2>1, <3>1, <4>1 DEF FlushedOf, From
    <3>5. CASE Begins(t) /\ Copy(t, Line(t, written[t] + 1))
      <4>1. /\ UNCHANGED <<pptr, disk, written, flushed>>
            /\ writing'[t] = pptr + 1
            /\ buffer'[pptr + 1] = Line(t, written[t] + 1)
            /\ \A k \in 1 .. pptr : buffer'[k] = buffer[k]
        BY <2>1, <3>5 DEF Begins, Copy
      <4>2. From(t, Line(t, written[t] + 1))
        BY <2>1 DEF From, Line
      <4>3. \A k \in 1 .. pptr + 1 : From(t, buffer'[k])
        BY <2>1, <3>1, <4>1, <4>2 DEF FlushedOf
      <4> QED
        BY <2>1, <3>1, <4>1, <4>3 DEF FlushedOf, From
    <3>6. CASE Begins(t) /\ WriteThrough(t, Line(t, written[t] + 1))
      <4>1. /\ UNCHANGED <<pptr, buffer, written, flushed>>
            /\ writing'[t] = Through
            /\ disk' = disk \o Buffered \o <<Line(t, written[t] + 1)>>
        BY <2>1, <3>6 DEF Begins, WriteThrough
      <4>2. From(t, Line(t, written[t] + 1)) /\ Line(t, written[t] + 1) \in Lines
        BY <2>1 DEF From, Line, Lines
      <4>3. /\ Len(disk') = Len(disk) + pptr + 1
            /\ \A i \in 1 .. Len(disk) : disk'[i] = disk[i]
            /\ \A k \in 1 .. pptr : disk'[Len(disk) + k] = buffer[k]
            /\ disk'[Len(disk) + pptr + 1] = Line(t, written[t] + 1)
        BY <4>1, <4>2, Appended
      <4>4. ASSUME NEW i \in 1 .. Len(disk') PROVE From(t, disk'[i])
        <5>1. CASE i \in 1 .. Len(disk)
          BY <3>1, <4>3, <5>1 DEF FlushedOf
        <5>2. CASE i - Len(disk) \in 1 .. pptr
          <6>1. disk'[Len(disk) + (i - Len(disk))] = buffer[i - Len(disk)]
            BY <4>3, <5>2
          <6> QED
            BY <2>1, <3>1, <5>2, <6>1 DEF FlushedOf
        <5>3. CASE i = Len(disk) + pptr + 1
          BY <4>2, <4>3, <5>3
        <5>4. i \in 1 .. Len(disk) + pptr + 1
          BY <4>3
        <5> QED
          BY <2>1, <5>1, <5>2, <5>3, <5>4
      <4>5. ASSUME NEW n \in 1 .. flushed[t]
            PROVE  \E i \in 1 .. Len(disk') : disk'[i] = Line(t, n)
        <5>1. PICK i \in 1 .. Len(disk) : disk[i] = Line(t, n)
          BY <3>1 DEF FlushedOf
        <5>2. i \in 1 .. Len(disk') /\ disk'[i] = Line(t, n)
          BY <2>1, <4>3, <5>1
        <5> QED
          BY <5>2
      <4>6. \A k \in 1 .. pptr' : From(t, buffer'[k])
        BY <3>1, <4>1 DEF FlushedOf
      <4>7. ~ (writing'[t] \in 1 .. Capacity) /\ written' = written /\ flushed' = flushed
        BY <2>1, <4>1 DEF Through
      <4> QED
        BY <4>4, <4>5, <4>6, <4>7 DEF FlushedOf, From
    <3>7. CASE Ends(t)
      <4>1. /\ written'[t] = written[t] + 1
            /\ UNCHANGED <<buffer, disk, flushed>>
            /\ writing'[t] = Idle
        BY <2>1, <3>7 DEF Ends, EndWrite, Bump, Restart
      <4>2. \A line : line.number \in Nat /\ From(t, line) => From(t, line)'
        BY <2>1, <4>1 DEF From
      <4>3. ASSUME NEW i \in 1 .. Len(disk) PROVE From(t, disk[i])'
        <5>1. disk[i] \in Lines
          BY <2>1
        <5> QED
          BY <3>1, <4>1, <4>2, <5>1 DEF FlushedOf, Lines, Garbage
      <4>4. ASSUME NEW k \in 1 .. pptr' PROVE From(t, buffer[k])'
        <5>1. /\ buffer[k] \in Lines /\ From(t, buffer[k])
          <6>1. CASE Bump(t)
            BY <2>1, <3>1, <6>1 DEF Bump, FlushedOf
          <6>2. CASE Restart(t)
            BY <6>2 DEF Restart
          <6> QED
            BY <3>7, <6>1, <6>2 DEF Ends, EndWrite
        <5> QED
          BY <4>1, <4>2, <5>1 DEF Lines, Garbage
      <4> QED
        BY <2>1, <3>1, <4>1, <4>3, <4>4 DEF FlushedOf, Idle
    <3> QED
      BY <3>1, <3>2, <3>3, <3>4, <3>5, <3>6, <3>7, FileSteps DEF Begins, BeginWrite
  <2> QED
    BY <2>2, <2>3 DEF FlushedInv
<1> QED
  BY <1>1, <1>2, FileInvHolds, PrefixInvHolds, PTL DEF Spec

(***************************************************************************)
(* For any capacity: once a process of which one thread writes has exited, *)
(* what was written when stop() flushed is in the file, and nothing that   *)
(* was not given to write().  Without the hypothesis it is false: of two   *)
(* threads in write() at once, one may overwrite the line of the other.    *)
(***************************************************************************)
THEOREM NothingLostHolds == Spec => []NothingLost
PROOF
<1>1. FileInv /\ FlushedInv => NothingLost
  <2> SUFFICES ASSUME FileInv, FlushedInv, NEW t \in Threads, OnlyWriter(t)
               PROVE  /\ \A n \in 1 .. flushed[t] : Line(t, n) \in Range(disk)
                      /\ \A line \in Range(disk) : line.by = t /\ line.number <= written[t] + 1
    BY DEF NothingLost
  <2>1. DOMAIN disk = 1 .. Len(disk)
    BY FileTypes, LenProperties
  <2>2. FlushedOf(t)
    BY DEF FlushedInv
  <2> QED
    BY <2>1, <2>2 DEF FlushedOf, From, Range
<1> QED
  BY <1>1, FileInvHolds, FlushedInvHolds, PTL

-----------------------------------------------------------------------------
(***************************************************************************)
(* Types.                                                                  *)
(***************************************************************************)

\* The receiving thread is in write() only with lines left to write.
PendingInv ==
  /\ pending \in 0 .. MaxBatch
  /\ writing["receiver"] # Idle => pending > 0 /\ receiver = "handling"

StatesInv ==
  /\ inputs \in [program : Programs, argv : CommandLines,
                 hosts : HostsFiles, config : ConfigFiles]
  /\ receiver \in {"none", "testing", "receiving", "handling", "closed", "hung", "crashed"}
  /\ continue_receiving \in BOOLEAN
  /\ stopping \in {"no", "flush", "empty", "exit"}
  /\ end \in {"no", "failed", "crashed", "killed", "exited"}

StatesInvs == PendingInv /\ StatesInv

LEMMA StatesInvsHold == Spec => []StatesInvs
PROOF
<1>1. Init => StatesInvs
  BY DriverAssumption DEF Init, Opened, Threads, StatesInvs, PendingInv, StatesInv
<1>2. FileInv /\ TakingPartInv /\ StatesInvs /\ [Next]_vars => StatesInvs'
  <2> SUFFICES ASSUME FileInv, TakingPartInv, StatesInvs, [Next]_vars PROVE StatesInvs'
    OBVIOUS
  <2> USE DEF StatesInvs, PendingInv, StatesInv
  <2>1. writing \in [Threads -> 0 .. Capacity + 1] /\ MaxBatch \in Nat
    BY FileTypes, DriverAssumption
  <2>2. CASE UNCHANGED vars
    BY <2>2 DEF vars, fileVars
  <2>3. CASE ParseArguments \/ LoadHosts \/ LoadConfig \/ FindHosts
    BY <2>3 DEF ParseArguments, LoadHosts, LoadConfig, FindHosts, Main, fileVars
  <2>4. CASE OpenOutput \/ ConstructLayers \/ SetGlobal
    <3>1. UNCHANGED <<fileVars, inputs, receiver, pending, continue_receiving, stopping>>
          /\ end' \in {end, "failed"}
      BY <2>4 DEF OpenOutput, ConstructLayers, SetGlobal, Main
    <3> QED
      BY <3>1 DEF fileVars
  <2>5. CASE ConstructLink
    <3>1. /\ UNCHANGED <<fileVars, inputs, pending, continue_receiving, stopping>>
          /\ end' \in {end, "failed"} /\ receiver' \in {receiver, "testing"}
          /\ stage = "link"
      BY <2>5 DEF ConstructLink, Main
    <3>2. writing["receiver"] = Idle
      BY <3>1 DEF TakingPartInv, StageInv
    <3> QED
      BY <3>1, <3>2 DEF fileVars
  <2>6. CASE LogBroadcast \/ LogBroadcastReturns
    <3>1. writing'["receiver"] = writing["receiver"]
      BY <2>1, <2>6 DEF LogBroadcast, LogBroadcastReturns, BeginWrite, Copy, WriteThrough,
                        EndWrite, Bump, Restart, Threads
    <3> QED
      BY <2>6, <3>1 DEF LogBroadcast, LogBroadcastReturns
  <2>7. CASE TestFlag \/ ReceiveError \/ CallbackReturns
    BY <2>7 DEF TestFlag, ReceiveError, CallbackReturns, Receiver, fileVars
  <2>8. ASSUME NEW lines \in 0 .. MaxBatch, NEW delivers \in BOOLEAN, NEW isActive \in BOOLEAN,
             Receive(lines, delivers, isActive)
        PROVE  StatesInvs'
    BY <2>8 DEF Receive, Receiver, fileVars
  <2>9. CASE LogDelivery
    BY <2>1, <2>9 DEF LogDelivery, Receiver
  <2>10. CASE LogDeliveryReturns
    <3>1. writing["receiver"] # Idle /\ writing'["receiver"] = Idle
      BY <2>1, <2>10, OutputFileAssumption
         DEF LogDeliveryReturns, EndWrite, Bump, Restart, Idle, Through, Threads
    <3> QED
      BY <2>1, <2>10, <3>1 DEF LogDeliveryReturns
  <2>11. CASE Signal \/ Exit \/ SecondSignal
    BY <2>11 DEF Signal, Exit, SecondSignal, Stopping, fileVars
  <2>12. CASE Flush \/ FlushReturns
    BY <2>12 DEF Flush, FlushReturns, FlushOut, FlushEnd, Stopping
  <2> QED
    BY <2>2, <2>3, <2>4, <2>5, <2>6, <2>7, <2>8, <2>9, <2>10, <2>11, <2>12 DEF Next
<1> QED
  BY <1>1, <1>2, FileInvHolds, TakingPartInvHolds, PTL DEF Spec

\* Type correctness, for any inputs, capacity of the buffer and length of the loops.
THEOREM TypeCorrect == Spec => []TypeOK
PROOF
<1>1. FileInv /\ StatesInvs /\ TakingPartInv /\ LateInv /\ EarlyUse => TypeOK
  <2> SUFFICES ASSUME FileInv, StatesInvs, TakingPartInv, LateInv, EarlyUse PROVE TypeOK
    OBVIOUS
  <2>1. stage \in Range(Stages)
    <3>1. /\ DOMAIN Stages = 1 .. 9
          /\ Stages[1] = "arguments" /\ Stages[2] = "hosts" /\ Stages[3] = "config"
          /\ Stages[4] = "local" /\ Stages[5] = "output" /\ Stages[6] = "link"
          /\ Stages[7] = "layers" /\ Stages[8] = "global" /\ Stages[9] = "loop"
      BY DEF Stages
    <3> QED
      BY <3>1 DEF TakingPartInv, StageInv, Range
  <2>2. early \subseteq {"global_output_file", "receive_buffer", "frbDeliver", "lock", "threshold",
                         "decide"}
    BY DriverAssumption DEF EarlyUse, TakingPartInv
  <2>3. late \in Nat
    BY DEF LateInv
  <2> QED
    BY <2>1, <2>2, <2>3 DEF TypeOK, FileInv, StatesInvs, PendingInv, StatesInv
<1> QED
  BY <1>1, FileInvHolds, StatesInvsHold, TakingPartInvHolds, LateInvHolds, EarlyUseHolds, PTL
=============================================================================
