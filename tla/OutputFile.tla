------------------------------ MODULE OutputFile ------------------------------
(***************************************************************************)
(* output.hpp: the log file of a process, an std::ofstream that two        *)
(* threads and the signal handler use without a lock.                      *)
(*                                                                         *)
(* The unit is the line: every write() appends one.  The stream keeps the  *)
(* lines in a buffer and the number of bytes in it, its put pointer.  A    *)
(* line that fits is copied to the place behind the others (Copy), then    *)
(* the pointer is moved (Bump); one that does not fit goes to the file     *)
(* with all that is buffered (WriteThrough), then the buffer is empty      *)
(* (Restart).  flush() is FlushOut and FlushEnd.  These are the points     *)
(* where another thread, or the handler on the same thread, may come in    *)
(* between.  write(2) itself appends as a whole.  Two threads in write()   *)
(* at once are a data race: the outcomes are those of this stream, the     *)
(* pointer moved from its present value or from the one read before.       *)
(***************************************************************************)
EXTENDS Naturals, Sequences

CONSTANT Capacity   \* how many lines fit into the buffer; about 800 of 8191 bytes in the code

ASSUME OutputFileAssumption == Capacity \in Nat \ {0}

VARIABLES
  buffer,    \* buffer[k]: what is in the k-th place of the buffer
  pptr,      \* the put pointer: how many places are taken
  disk,      \* the lines in the file
  writing    \* writing[t]: where thread t is in write()

fileVars == <<buffer, pptr, disk, writing>>

\* The threads that write: main() and the receiving thread.
Threads == {"main", "receiver"}

\* The n-th line that thread t writes, and what is in a place nobody has filled.
Line(t, n) == [by |-> t, number |-> n]
Garbage == [by |-> "nobody", number |-> 0]

\* Values of writing[t]: none, the place just filled, or past the end of the buffer.
Idle == 0
Through == Capacity + 1

\* The constructor: the file is empty.  Behind the last place is memory of others.
Opened ==
  /\ buffer = [k \in 1 .. Capacity + 1 |-> Garbage]
  /\ pptr = 0
  /\ disk = <<>>
  /\ writing = [t \in Threads |-> Idle]

Buffered == SubSeq(buffer, 1, pptr)

-----------------------------------------------------------------------------
(***************************************************************************)
(* write(): thread t appends a line.                                       *)
(***************************************************************************)
Copy(t, line) ==
  /\ writing[t] = Idle
  /\ pptr < Capacity
  /\ buffer' = [buffer EXCEPT ![pptr + 1] = line]
  /\ writing' = [writing EXCEPT ![t] = pptr + 1]
  /\ UNCHANGED <<pptr, disk>>

Bump(t) ==
  /\ writing[t] \in 1 .. Capacity
  /\ pptr' \in {pptr + 1, writing[t]}
  /\ writing' = [writing EXCEPT ![t] = Idle]
  /\ UNCHANGED <<buffer, disk>>

MutantDropBuffered(t, line) ==   \* only the new line goes to the file
  /\ writing[t] = Idle
  /\ pptr >= Capacity
  /\ disk' = Append(disk, line)
  /\ writing' = [writing EXCEPT ![t] = Through]
  /\ UNCHANGED <<buffer, pptr>>

WriteThrough(t, line) ==
  /\ writing[t] = Idle
  /\ pptr >= Capacity
  /\ disk' = disk \o Buffered \o <<line>>
  /\ writing' = [writing EXCEPT ![t] = Through]
  /\ UNCHANGED <<buffer, pptr>>

Restart(t) ==
  /\ writing[t] = Through
  /\ pptr' = 0
  /\ writing' = [writing EXCEPT ![t] = Idle]
  /\ UNCHANGED <<buffer, disk>>

BeginWrite(t, line) == Copy(t, line) \/ WriteThrough(t, line)
EndWrite(t) == Bump(t) \/ Restart(t)

-----------------------------------------------------------------------------
(***************************************************************************)
(* flush().                                                                *)
(***************************************************************************)
FlushOut ==
  /\ disk' = disk \o Buffered
  /\ UNCHANGED <<buffer, pptr, writing>>

FlushEnd ==
  /\ pptr' = 0
  /\ UNCHANGED <<buffer, disk, writing>>

-----------------------------------------------------------------------------
OutputFileTypeOK ==
  LET Lines == [by : Threads, number : Nat \ {0}] IN
    /\ buffer \in [1 .. Capacity + 1 -> Lines \cup {Garbage}]
    /\ pptr \in 0 .. Capacity + 1
    /\ disk \in Seq(Lines \cup {Garbage})
    /\ writing \in [Threads -> 0 .. Capacity + 1]
=============================================================================
