-------------------------------- MODULE Driver --------------------------------
(***************************************************************************)
(* The programs of the three milestones (m1.cpp, m2.cpp, main.cpp), which  *)
(* differ in little: one process from its command line to its exit.        *)
(*                                                                         *)
(* main() reads its inputs, opens the output file, constructs the          *)
(* protocol and writes the lines of its loop.  The receiving thread,       *)
(* started by the constructor of the link at the bottom of the protocol    *)
(* and so before the layers above it are constructed, writes the lines of  *)
(* its callbacks.  stop() runs on the main thread, at any time once it is  *)
(* installed, sets the flags, flushes the file and exits; the receiving    *)
(* thread goes on meanwhile.                                               *)
(*                                                                         *)
(* What the protocols do is abstracted to the number of lines that a       *)
(* datagram makes the callback write.  The sending thread writes nothing.  *)
(***************************************************************************)
EXTENDS Inputs, OutputFile, FiniteSets

CONSTANTS
  Programs,      \* which of "m1", "m2", "m3" the process may be
  CommandLines,  \* the command lines it may be started with
  HostsFiles,    \* the contents the hosts file may have
  ConfigFiles,   \* the contents the config file may have
  MaxLines,      \* bound on the lines of each thread
  MaxBatch       \* bound on the lines that one datagram leads to

ASSUME DriverAssumption ==
  /\ Programs \subseteq {"m1", "m2", "m3"}
  /\ MaxLines \in Nat /\ MaxBatch \in Nat

VARIABLES
  inputs,              \* the program, its command line and its files
  stage,               \* the next thing main() does
  receiver,            \* the receiving thread
  pending,             \* how many lines the callback has yet to write
  written,             \* written[t]: the lines for which write() has returned
  continue_receiving,  \* the flag of FairLossLink
  stopping,            \* what stop() does next, if it has been called
  end,                 \* how the process has ended, if it has
  early,               \* the objects used before they were constructed
  late,                \* how many datagrams were handled after shutdown()
  flushed              \* written, as it was when stop() called flush()

history == <<early, late, flushed>>
vars == <<fileVars, inputs, stage, receiver, pending, written,
          continue_receiving, stopping, end, history>>

Program == inputs.program

-----------------------------------------------------------------------------
(***************************************************************************)
(* The objects that the callbacks of the receiving thread use.             *)
(***************************************************************************)

\* The stages of main(), in order; the last is its endless loop.
Stages == <<"arguments", "hosts", "config", "local", "output", "link", "layers",
            "global", "loop">>
Past(s) == \E i, j \in DOMAIN Stages : Stages[i] = s /\ Stages[j] = stage /\ i < j

\* Those that exist from some stage on; all others are constructed before the link.
Constructed(o) == Past(IF o = "global_output_file" THEN "output" ELSE "layers")

(***************************************************************************)
(* What the callbacks use when a datagram makes the link, or in m2 urb,    *)
(* deliver, and lines are to be written: plDeliver of m1 the file,         *)
(* urbDeliver the buffer and with a line frbDeliver.  bebDeliver takes the *)
(* lock; the threshold is behind the test of active[round], and the buffer *)
(* and decide are behind the threshold.                                    *)
(***************************************************************************)
MutantActiveUntested(lines, isActive) ==   \* active[round] not in the conditions
  (IF lines > 0 THEN {"global_output_file"} ELSE {})
    \cup (CASE Program = "m1" -> {}
            [] Program = "m2" -> {"receive_buffer"} \cup (IF lines > 0 THEN {"frbDeliver"} ELSE {})
            [] Program = "m3" -> {"lock", "threshold"}
                                   \cup (IF lines > 0 THEN {"receive_buffer", "decide"} ELSE {}))

Uses(lines, isActive) ==
  (IF lines > 0 THEN {"global_output_file"} ELSE {})
    \cup (CASE Program = "m1" -> {}
            [] Program = "m2" -> {"receive_buffer"} \cup (IF lines > 0 THEN {"frbDeliver"} ELSE {})
            [] Program = "m3" -> {"lock"} \cup (IF isActive THEN {"threshold"} ELSE {})
                                   \cup (IF lines > 0 THEN {"receive_buffer", "decide"} ELSE {}))

\* The round of a message may be active once main()'s loop has proposed in it.
MayBeActive == Program = "m3" /\ stage = "loop"

(***************************************************************************)
(* Whether a callback may write lines.  In m1 no host sends to a sender;   *)
(* in m3 a set is decided in an active round only.                         *)
(***************************************************************************)
IsReceiver == receiver_id(inputs.config) = local_id(Program, inputs.argv)

MayWrite(isActive) ==
  /\ Program = "m1" => IsReceiver
  /\ Program = "m3" => isActive

\* The lines of main()'s loop: "b 1", "b 2", ...
LoopLines ==
  CASE Program = "m1" -> IF IsReceiver THEN 0 ELSE message_count(inputs.config)
    [] Program = "m2" -> message_count(inputs.config)
    [] Program = "m3" -> 0

-----------------------------------------------------------------------------
Init ==
  /\ Opened
  /\ inputs \in [program : Programs, argv : CommandLines,
                 hosts : HostsFiles, config : ConfigFiles]
  /\ stage = "arguments"
  /\ receiver = "none"
  /\ pending = 0
  /\ written = [t \in Threads |-> 0]
  /\ continue_receiving = TRUE
  /\ stopping = "no"
  /\ end = "no"
  /\ early = {}
  /\ late = 0
  /\ flushed = [t \in Threads |-> 0]

-----------------------------------------------------------------------------
(***************************************************************************)
(* main().  A handler on the same thread interrupts it for good.           *)
(***************************************************************************)

\* main() goes on from stage s to stage next, unless it fails: help() or an exception.
Main(s, next, succeeds) ==
  /\ end = "no" /\ stopping = "no"
  /\ stage = s
  /\ IF succeeds THEN stage' = next /\ UNCHANGED end
                 ELSE end' = "failed" /\ UNCHANGED stage
  /\ UNCHANGED <<fileVars, inputs, pending, written, continue_receiving, stopping, history>>

ParseArguments ==
  Main("arguments", "hosts", parseInternal(inputs.argv)) /\ UNCHANGED receiver

LoadHosts == Main("hosts", "config", AreHosts(inputs.hosts)) /\ UNCHANGED receiver

LoadConfig ==
  Main("config", "local", IsConfig(Program, inputs.config)) /\ UNCHANGED receiver

MutantAnyId ==                 \* an id taken for listed
  Main("local", "output", TRUE) /\ UNCHANGED receiver

FindHosts ==
  /\ Main("local", "output",
          LookedUp(Program, inputs.argv, inputs.config) \subseteq ids(inputs.hosts))
  /\ UNCHANGED receiver

\* The file system and the socket may refuse.
OpenOutput == \E opens \in BOOLEAN : Main("output", "link", opens) /\ UNCHANGED receiver

\* The constructor of the link: create_socket, then the receiving thread.
ConstructLink ==
  \E binds \in BOOLEAN :
    /\ Main("link", "layers", binds)
    /\ receiver' = IF binds THEN "testing" ELSE receiver

\* The members of the layers above that follow the link.
ConstructLayers == Main("layers", "global", TRUE) /\ UNCHANGED receiver

SetGlobal == Main("global", "loop", TRUE) /\ UNCHANGED receiver

\* plSend and frbBroadcast, called from the loop.
LogBroadcast ==
  /\ end = "no" /\ stopping = "no"
  /\ stage = "loop"
  /\ written["main"] < LoopLines
  /\ BeginWrite("main", Line("main", written["main"] + 1))
  /\ UNCHANGED <<inputs, stage, receiver, pending, written, continue_receiving,
                 stopping, end, history>>

LogBroadcastReturns ==
  /\ end = "no" /\ stopping = "no"
  /\ EndWrite("main")
  /\ written' = [written EXCEPT !["main"] = @ + 1]
  /\ UNCHANGED <<inputs, stage, receiver, pending, continue_receiving, stopping, end, history>>

-----------------------------------------------------------------------------
(***************************************************************************)
(* The receiving thread: FairLossLink::start_receiving and the callbacks.  *)
(***************************************************************************)
Receiver(from, to) ==
  /\ end = "no"
  /\ receiver = from
  /\ receiver' = to
  /\ UNCHANGED <<inputs, stage, written, continue_receiving, stopping>>

MutantTestForgotten ==         \* for (;;)
  /\ Receiver("testing", "receiving")
  /\ UNCHANGED <<fileVars, pending, end, history>>

\* The condition of the loop.
TestFlag ==
  /\ Receiver("testing", IF continue_receiving THEN "receiving" ELSE "closed")
  /\ UNCHANGED <<fileVars, pending, end, history>>

ReceiveError ==
  /\ Receiver("receiving", "closed")
  /\ UNCHANGED <<fileVars, pending, end, history>>

(***************************************************************************)
(* A datagram and the callback it leads to, up to its first line.  What is *)
(* used before it is constructed is memory of unknown contents: a lock     *)
(* that may never be granted, a map that may end the process, or nothing   *)
(* that is noticed.  In m3 isActive says what active[round] is found to be *)
(* after the lock.                                                         *)
(***************************************************************************)
Receive(lines, delivers, isActive) ==
  LET used == IF delivers THEN Uses(lines, isActive) ELSE {}
      unconstructed == {o \in used : ~Constructed(o)}
  IN
    /\ \E to \in {"handling"} \cup (IF unconstructed = {} THEN {} ELSE {"hung", "crashed"}) :
         /\ Receiver("receiving", to)
         /\ end' = IF to = "crashed" THEN "crashed" ELSE end
    /\ isActive => delivers /\ MayBeActive
    /\ lines > 0 => /\ delivers /\ MayWrite(isActive)
                    /\ written["receiver"] + lines <= MaxLines
                    /\ Program = "m1" => lines = 1
    /\ pending' = lines
    /\ early' = early \cup unconstructed
    /\ late' = IF continue_receiving THEN late ELSE late + 1
    /\ UNCHANGED <<fileVars, flushed>>

MutantDoWhile ==               \* a line before the test whether there is one
  /\ Receiver("handling", "handling")
  /\ BeginWrite("receiver", Line("receiver", written["receiver"] + 1))
  /\ UNCHANGED <<pending, end, history>>

\* plDeliver, frbDeliver, laDecide.
LogDelivery ==
  /\ Receiver("handling", "handling")
  /\ pending > 0
  /\ BeginWrite("receiver", Line("receiver", written["receiver"] + 1))
  /\ UNCHANGED <<pending, end, history>>

LogDeliveryReturns ==
  /\ end = "no"
  /\ EndWrite("receiver")
  /\ pending' = pending - 1
  /\ written' = [written EXCEPT !["receiver"] = @ + 1]
  /\ UNCHANGED <<inputs, stage, receiver, continue_receiving, stopping, end, history>>

CallbackReturns ==
  /\ Receiver("handling", "testing")
  /\ pending = 0
  /\ UNCHANGED <<fileVars, pending, end, history>>

-----------------------------------------------------------------------------
(***************************************************************************)
(* stop(), the handler of SIGTERM and SIGINT, on the main thread.          *)
(***************************************************************************)

\* The protocol can be told only once main() has set its global pointer.
Signal ==
  /\ end = "no" /\ stopping = "no"
  /\ continue_receiving' = (continue_receiving /\ ~Past("global"))
  /\ stopping' = IF Past("output") THEN "flush" ELSE "exit"
  /\ UNCHANGED <<fileVars, inputs, stage, receiver, pending, written, end, history>>

Stopping(s) == end = "no" /\ stopping = s

MutantNoFlush ==               \* global_output_file->flush() left out
  /\ Stopping("flush")
  /\ flushed' = written
  /\ stopping' = "exit"
  /\ UNCHANGED <<fileVars, inputs, stage, receiver, pending, written, continue_receiving,
                 end, early, late>>

Flush ==
  /\ Stopping("flush")
  /\ FlushOut
  /\ flushed' = written
  /\ stopping' = "empty"
  /\ UNCHANGED <<inputs, stage, receiver, pending, written, continue_receiving,
                 end, early, late>>

FlushReturns ==
  /\ Stopping("empty")
  /\ FlushEnd
  /\ stopping' = "exit"
  /\ UNCHANGED <<inputs, stage, receiver, pending, written, continue_receiving, end, history>>

\* exit(0): the stream is not destroyed, what it holds by now is lost.
Exit ==
  /\ Stopping("exit")
  /\ end' = "exited"
  /\ UNCHANGED <<fileVars, inputs, stage, receiver, pending, written, continue_receiving,
                 stopping, history>>

\* stop() has restored the default actions: the other signal ends the process at once.
SecondSignal ==
  /\ end = "no" /\ stopping # "no"
  /\ end' = "killed"
  /\ UNCHANGED <<fileVars, inputs, stage, receiver, pending, written, continue_receiving,
                 stopping, history>>

-----------------------------------------------------------------------------
Next ==
  \/ ParseArguments \/ LoadHosts \/ LoadConfig \/ FindHosts
  \/ OpenOutput \/ ConstructLink \/ ConstructLayers \/ SetGlobal
  \/ LogBroadcast \/ LogBroadcastReturns
  \/ TestFlag \/ ReceiveError
  \/ \E lines \in 0 .. MaxBatch, delivers, isActive \in BOOLEAN :
       Receive(lines, delivers, isActive)
  \/ LogDelivery \/ LogDeliveryReturns \/ CallbackReturns
  \/ Signal \/ Flush \/ FlushReturns \/ Exit \/ SecondSignal

Spec == Init /\ [][Next]_vars

-----------------------------------------------------------------------------
(***************************************************************************)
(* Properties.                                                             *)
(***************************************************************************)

\* The variables have the types of the members, globals and locals they stand for.
TypeOK ==
  /\ OutputFileTypeOK
  /\ inputs \in [program : Programs, argv : CommandLines,
                 hosts : HostsFiles, config : ConfigFiles]
  /\ stage \in Range(Stages)
  /\ receiver \in {"none", "testing", "receiving", "handling", "closed", "hung", "crashed"}
  /\ pending \in 0 .. MaxBatch
  /\ written \in [Threads -> Nat] /\ flushed \in [Threads -> Nat]
  /\ continue_receiving \in BOOLEAN
  /\ stopping \in {"no", "flush", "empty", "exit"}
  /\ end \in {"no", "failed", "crashed", "killed", "exited"}
  /\ early \subseteq {"global_output_file", "receive_buffer", "frbDeliver", "lock", "threshold",
                   "decide"}
  /\ late \in Nat

\* Thread t has written, or is writing, to the file.
Writes(t) == written[t] > 0 \/ writing[t] # Idle

OnlyWriter(t) == \A u \in Threads \ {t} : ~Writes(u)

(***************************************************************************)
(* What stop() flushes is not lost (m1.cpp:56, output.hpp:33): in a        *)
(* process of which one thread writes, every line written when flush() is  *)
(* called is in the file when the process has exited, whatever the         *)
(* receiving thread does to the buffer meanwhile, and nothing is in it     *)
(* that was not given to write().                                          *)
(***************************************************************************)
NothingLost ==
  \A t \in Threads :
    end = "exited" /\ OnlyWriter(t) =>
      /\ \A n \in 1 .. flushed[t] : Line(t, n) \in Range(disk)
      /\ \A line \in Range(disk) : line.by = t /\ line.number <= written[t] + 1

(***************************************************************************)
(* In m1 and m3 there is such a thread: a receiver of m1 sends nothing, a  *)
(* sender delivers nothing, and the main thread of m3 writes no line.      *)
(***************************************************************************)
OneWriter == Program # "m2" => \E t \in Threads : OnlyWriter(t)

(***************************************************************************)
(* Until stop() flushes, in a process of which one thread writes: at any   *)
(* point, in the middle of a write included, the file is the beginning of  *)
(* what that thread has written or is writing (output.hpp:28); between two *)
(* writes the buffer holds the rest: no gap, no line twice, no other       *)
(* order.  Nothing is said of a process whose threads both write, nor of   *)
(* the file once stop() flushes (NothingLost).                             *)
(***************************************************************************)
FileIsPrefix ==
  \A t \in Threads :
    stopping \in {"no", "flush"} /\ OnlyWriter(t) =>
      /\ Len(disk) <= written[t] + 1
      /\ \A i \in 1 .. Len(disk) : disk[i] = Line(t, i)
      /\ writing[t] = Idle => disk \o Buffered = [n \in 1 .. written[t] |-> Line(t, n)]

(***************************************************************************)
(* "Immediately stop network packet processing" (m2.cpp:49): once the      *)
(* protocol has been told, the thread that waits in recvfrom() handles one *)
(* more datagram, and never a second (fair_loss_link.hpp:49).              *)
(***************************************************************************)
OneMoreDatagram == late <= 1

(***************************************************************************)
(* What the receiving thread can find unconstructed, started as it is by   *)
(* the innermost constructor: no file in any program, nothing in m1, the   *)
(* buffer and the handler in m2 (fifo_uniform_reliable_broadcast.hpp:42)   *)
(* and in m3 the lock, but nothing that is behind the test of active       *)
(* (lattice_agreement.hpp:81).                                             *)
(***************************************************************************)
EarlyUse ==
  early \subseteq CASE Program = "m1" -> {}
                   [] Program = "m2" -> {"receive_buffer", "frbDeliver"}
                   [] Program = "m3" -> {"lock"}

(***************************************************************************)
(* A process that takes part has valid inputs: its id and, in m1, that of  *)
(* the receiver are in the hosts file (hosts.hpp:46), and the id is the    *)
(* one of the command line unless the cast to uint8_t changes it           *)
(* (m2.cpp:112).                                                           *)
(***************************************************************************)
TakesPart ==
  receiver # "none" =>
    LET self == local_id(Program, inputs.argv) IN
      /\ parseInternal(inputs.argv)
      /\ self \in ids(inputs.hosts)
      /\ id(inputs.argv) < IdLimit => self = id(inputs.argv)
      /\ IsConfig(Program, inputs.config)
      /\ Program = "m1" => receiver_id(inputs.config) \in ids(inputs.hosts)

(***************************************************************************)
(* What tools/correctness.py:48 asserts of the log of a host: its 'b'      *)
(* lines count up from 1 without a gap.  Stated up to the signal.          *)
(***************************************************************************)
BroadcastsInOrder ==
  stopping = "no" =>
    LET b == SelectSeq(disk, LAMBDA line : line.by = "main") IN
      \A k \in DOMAIN b : b[k].number = k
=============================================================================
