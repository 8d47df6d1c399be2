# A TLA+ model of the CS451 project

The repository implements three building blocks of distributed systems in C++,
each driven by a small program that writes a log file: perfect links
(milestone 1), FIFO uniform reliable broadcast (milestone 2) and lattice
agreement (milestone 3). `tools/stress.py` runs the programs while it stops,
continues and terminates them; `tools/correctness.py` checks the log files.
This directory holds TLA+ modules of these parts, the TLC configurations that
check them on small instances, and proofs that TLAPS checks.

Paths of header files below are relative to `src/cpp_template/src/include/`,
those of `m1.cpp`, `m2.cpp` and `main.cpp` (identical to `m3.cpp`) to
`src/cpp_template/src/src/`.

## Inventory

| Component | State | Operations | Hard about it | What makes it correct |
|---|---|---|---|---|
| fair-loss link (`fair_loss_link.hpp`) | socket, `continue_receiving` | `send`, `start_receiving`, `shutdown` | UDP loses, duplicates, reorders; an error of `recvfrom()` closes the socket for sending too; the flag is read after the next datagram only | a closed link is no worse than a stopped host; at most one datagram is handled after `shutdown` |
| messages (`message.hpp`, `serialize.hpp`) | fields of a message, a payload of bytes | `serialize`, the constructors that read memory | a message goes inside another; the reader trusts the lengths in it; the receive buffer keeps what the last datagram left behind | a message is read as it was sent |
| perfect link (`perfect_link.hpp`, `concurrent_queue.hpp`, `message_set.hpp`) | retransmission queue, acknowledged and delivered seq numbers per peer, `next_id` | `send`; sending thread; receiving thread | three threads; the acknowledgement leaves before the delivery; a retransmitted message is out of the queue while it is on its way | no message lost, doubled or invented; retransmission ends |
| milestone 1 driver (`m1.cpp`) | log lines | loop of `plSend`, `send`; `plDeliver`; `stop` | stops at any point between log and send | a "d" line has its "b" line |
| best-effort broadcast (`best_effort_broadcast.hpp`) | none | `broadcast`, `send` | a broadcast is a loop of sends | reaches every host, if the sender runs |
| uniform reliable broadcast (`uniform_reliable_broadcast.hpp`) | pending, acked, delivered messages | `broadcast` (main thread), `deliver` (receiving thread) | relays race with deliveries and with hosts that stop | URB1 to URB4 of its comment |
| FIFO broadcast (`fifo_uniform_reliable_broadcast.hpp`, `receive_buffer.hpp`) | heap and next seq number per source | `broadcast`, `urbDeliver` | urb delivers out of order; a stop between two lines | FRB1 to FRB5 of its comment |
| milestone 2 driver (`m2.cpp`) | log lines | loop of `broadcast`; `frbDeliver`; `stop` | two threads write the log without a lock; the receiving thread runs before the layers above the link are constructed | as `check_fifo` tests |
| lattice agreement (`lattice_agreement.hpp`) | maps by round: active, counts, proposal and its number, accepted proposal | `propose`, `bebDeliver` | stale answers; clashes; rejected proposals; half of the handler runs unlocked | validity, consistency, termination |
| its buffer (`receive_buffer.hpp`, `LatticeReceiveBuffer`) | decided sets, next round | `deliver` | rounds are decided in any order | lines in the order of the rounds |
| milestone 3 driver (`main.cpp`) | lines | loop of `propose`; `laDecide`; `stop` | all rounds run at once | as `check_agreement` tests |
| stress test (`tools/stress.py`) | state and lock of each process, counter, per-thread lists | `stress` (several threads), `continue_stopped_processes`, `terminate_all_processes` | threads race for the counter and the locks | a majority runs; nothing is left stopped; the run ends |
| command line, hosts and config files (`parser.hpp`, `hosts.hpp`, `config.hpp`) | what they contain | `parse`, the constructors | everything but what is checked is taken as it comes; an id is cast to `uint8_t` | a process that takes part has inputs that make sense |
| output file (`output.hpp`) | the stream's buffer and put pointer, the file | `write`, `flush` | a second thread or the signal handler comes in between | what was written when `flush` is called is in the file |
| start and end of a process (`m1.cpp`, `m2.cpp`, `main.cpp`) | globals, flags | `main`, `stop` | a thread that starts inside a constructor; a handler at any point, and the default action for the second signal | nothing is used before it exists but what is listed |
| `send_buffer.hpp` | | | dead code that does not compile | not modelled |
| `performance.py`, `tc.py`, `test.sh` | | | scripts | not modelled |

The parts call one another downwards (`frb.broadcast`, `urb.broadcast`,
`beb.broadcast`, `pl.send`, `link.send`) from the main thread, and upwards by
callbacks from the one receiving thread of a process. The upper layers relay
and answer from inside the callback, so `pl.send` is called by both threads.
Processes share nothing but the network; `stop()` ends one at any time, and
nothing is read back when a process starts again.

## Modules

```
ReliableLink       <=implements=  PerfectLink
     | what is sent is delivered once, unless an end stops
UniformBroadcast   <=implements=  UniformReliableBroadcast
     | INSTANCE, as the layer below
UniformBroadcast   <=implements=  FifoBroadcast
LatticeDecisions   <=implements=  LatticeAgreement
                                       | extends
                                  LatticeMessages  --INSTANCE--  Wire
                                  StressTest
Inputs, OutputFile  <=extends=    Driver
```

A module `X` is checked with the instance `MCX` and proved about in `XProofs`
(`MCUniformBroadcast` is the instance of `UniformReliableBroadcast`,
`LatticeRoundsProofs` continues `LatticeAgreementProofs` and proves about
`LatticeMessages`, and `MCLatticeAgreement` evaluates both it and `Wire`). Where the inductive invariant of the proofs
is checked as well, `MCX` extends `XProofs`.

The layers are composed by their promises. `ReliableLink` and
`UniformBroadcast` say what a layer offers to the one above; each layer is
checked to implement its promise, and each is modelled on top of the promise of
the one below: `FifoBroadcast` takes the deliveries of urb from an INSTANCE of
`UniformBroadcast`, `UniformReliableBroadcast` and `LatticeAgreement` have a
variable `transit` that behaves as `ReliableLink` does.

**PerfectLink.** One action for each thing a thread does between two points
where another thread can see it: `LogSend`, `Send` (main thread), `Retire`,
`Transmit`, `Requeue` (sending thread), `ReceiveAck`, `ReceiveData`, `Deliver`,
`Discard` (receiving thread), `Lose` (network), `Stop` (signal handler),
`ReceiveError` (`recvfrom` fails: the receiving loop ends and closes the socket,
in which case the host goes on but neither sends nor receives; `ReliableLink`
calls such a host `cut`, and promises nothing about it). A
message that the sending thread has popped and not yet pushed back is in
`sending`; one that is acknowledged and not yet delivered is in `receiving`.
The network is a set: a datagram may be received any number of times until it
is lost. The seq number is taken modulo `SeqModulus`, 2^32 in the code.

**UniformReliableBroadcast.** `Broadcast` and `BebBroadcast` are the main
thread, before and after it has marked its message pending. The receiving
thread's `deliver` is one action with its three ways out: `Relay` (first
receipt), `UrbDeliver` (a majority has acked), `Record`.

**FifoBroadcast.** `UrbDeliver` is what `urbDeliver` does up to its loop:
`ReceiveBuffer::deliver` (`Taken`, the messages in order) and what it leaves to
write; `FrbDeliver` writes one line.

**LatticeAgreement.** `ProposeRound` is an iteration of the main loop. The
handler `bebDeliver` is split by what it receives and how it answers: `Accept`
and `Reject` of a proposal, `CountAck` and `CountNack` of an answer to the
current proposal with the tests that follow (`ProposeAgain`, `Decide`, `Wait`),
`Ignore` of an answer to an old one. `BufferDeliver` is
`LatticeReceiveBuffer::deliver`, `LaDecide` one line. The variable `accepts` is
history: it records what an acceptor has accepted and no guard reads it. Each
host has its own list of proposals, since each reads its own config file; a
host with an empty list only answers.

**Wire, LatticeMessages.** How a message is written and read. Memory is a sequence of cells, one
for each field of a message and each element of a payload, so that what can go
wrong is left: an offset that does not fit the one on the other side, a length
that counts too much, memory that is not written before it is sent, the receive
buffer with an older and longer datagram in it (`Received`).
`LatticeMessages` puts every message of lattice agreement through it: a proposal
inside a transport message, with its values in any order, read from a buffer that
another message has been in.

**Driver, OutputFile, Inputs.** One process of any of the three programs, from
its command line to its exit. The actions from `ParseArguments` to `SetGlobal`
are the statements of `main` in order, each of which may end the process;
`Inputs` says what each accepts, on files that are sequences of lines of words
and a table of what words are numbers. `TestFlag`, `Receive`, `LogDelivery`,
`CallbackReturns` are the receiving thread, alive from `ConstructLink` on;
`Signal`, `Flush`, `FlushReturns`, `Exit` are `stop`, which runs in place of
`main` and next to the receiving thread. What the protocols do is abstracted to
how many lines a datagram leads to. For what is used too early it counts what the
callback reaches: `Uses` says which objects, by how far the code gets before a
test ends it, and in lattice agreement that takes `active[round]`, which can be set
only once the main loop proposes (`MayBeActive`). `OutputFile` is the `std::ofstream`, in units
of lines: a write is two steps (`Copy` and `Bump`, or `WriteThrough` and
`Restart` if the buffer is full), and so is a flush. The variables `early`,
`late` and `flushed` are history. What is used before it is constructed has an
arbitrary effect (`Receive`): none, a thread that hangs, the end of the process.

**StressTest.** `Choose`, `GiveUp`, `Acquire`, `Signal` are an iteration of
`stress`, split where the lock of the process is taken and released;
`NextPhase`, `continue_stopped_processes` and `terminate_all_processes` are
`main`. What signals do to a process is external (`SendSignals`, `Exit`).

A definition whose name starts with `Mutant` is no part of a model. It is the
definition after it as it would read with a plausible bug; PROJECT.json names
for each property one that violates it when put in the other's place.

## What the runs check

| Run | Question | Instance | Result |
|---|---|---|---|
| `link` | Is anything lost, doubled or invented, does a message take more than one place in the queue, is every step one of `ReliableLink`? Do messages arrive, does retransmission end? Does the inductive invariant of the proofs hold? | one sender, one receiver, two messages, two values | holds |
| `link_wrap` | And when the counter wraps? | three messages, two values | **violated**, see Findings |
| `urb_safety` | Does a majority hold what is delivered, is a message that must be delivered under way as long as a majority runs, does every step get further (no relay that sets off relays for ever), is every step one of `UniformBroadcast`? Does the inductive invariant of the proofs hold? | three hosts, two of which broadcast, one stop | holds |
| `urb_liveness` | URB1 and URB4 | three hosts, one message, one stop | holds |
| `fifo` | FIFO order; does the buffer hold back only what it must? FRB1 to FRB4; the inductive invariant of the proofs | two hosts, two messages and one, both may stop | holds |
| `la_safety` | Do the counters count answers to the current proposal, does proposing end, has a majority accepted what is decided, are decided sets comparable? | three hosts, two of which propose incomparable sets | holds |
| `la_rounds` | Do the lines come out in the order of the rounds, as `LatticeDecisions` allows? Is every message read from its datagram as it was sent? Does the inductive invariant of the proofs hold? | two hosts, three rounds and one | holds |
| `la_liveness` | Is a round that is waited for never left without an answer to come? Does every running host decide, as `LatticeDecisions` demands? | three hosts, two of which propose, one rejected, one stop | holds |
| `la_blank` | And with a blank line in a config file? | two hosts, two rounds | **violated**, see Findings |
| `stress` | Does a majority run, are the recorded states the real ones, can the driver never hang, does the run end? | three processes, two threads, three signals each | holds |
| `driver` | In a process one thread of which writes: is what `stop` flushes in the file, is the file until then a prefix of what was written? In any: what runs too early or too late, with what inputs? | each program, 7 command lines, 4 hosts files, 6 config files | holds (501 thousand states) |
| `driver_race` | And with both threads of `m2.cpp` writing? | the same, valid inputs | **violated**, see Findings |

Deadlock is not checked in any run: every one of these programs ends in a state
where nothing is left to do, or where all hosts have stopped.

### Bounds, and why they are enough

* *Messages.* Two messages in one direction show reordering, cumulative
  mistakes and the confusion of two messages. The confusion of two senders that
  use the same seq numbers takes a third process or traffic both ways, which
  `link` leaves out; the proofs of the safety properties cover it.
* *Hosts.* Three hosts are the least with a majority that is neither all nor
  one, and with a minority that may stop. Two suffice below (a link has two
  ends) and for the buffers (a buffer is per source). An even number of
  hosts, where half of them is no majority, would take four, which are more than
  `urb_safety` can enumerate: there `MajorityHolds` rests on its theorem.
* *Stops.* `MaxStopped` is the largest minority where the algorithms assume a
  majority (`urb_*`, `la_liveness`), and all hosts elsewhere. In `la_safety` and
  `la_rounds` it is zero: a message that is never delivered has the same effect
  on the others as its receiver stopping, and every prefix of a run is covered.
* *Seq numbers.* `SeqModulus` is larger than the number of messages of a host in
  the passing runs and smaller in `link_wrap`.
* *Driver.* `Capacity` is 2 lines, some hundred in the code: a buffer that is
  empty, filling and full. `MaxLines` (3 lines of each thread) is one more than
  the buffer holds, `MaxBatch` (2 lines of a datagram) makes a signal come
  between two lines. Of the inputs each kind of mistake occurs once: an id that
  is negative, out of range, no number, too large for `uint8_t` (`IdLimit` is 4,
  `ULongLimit` 99999); arguments missing; a hosts file without the id, with a
  wrong port, with a blank line; a config file that is empty, has a zero count, a
  receiver that is not listed, a word that is no number.
* *Lattice.* Two incomparable sets are the least clash. `la_liveness` uses
  nested sets instead, which keeps one rejection and the space small enough for
  liveness with a stop.
* *Symmetry* is used in `urb_safety` only, over the two hosts with the same
  number of messages; it has no liveness property.

### Fairness, and why the code justifies it

* A thread of a process that has not stopped goes on (weak fairness of its
  steps): the loops have no exit but `stop`, the locks are held for a few
  statements.
* The network is a fair-loss one: a datagram sent again and again to a running
  host is received again and again. It is stated on the network and not as
  strong fairness of the receiving action, since a datagram waits in the socket
  while the receiving thread is busy.
* Above the link, a message from a running host to a running host is delivered,
  which is `Reliability` of `ReliableLink`. For lattice agreement it is enough
  that some thread goes on as long as there is something to do, because only
  finitely many messages are sent.
* In the stress test a thread that chooses at random some time chooses something
  that can be carried out (each operation having a positive weight), and one that
  waits for a lock again and again gets it.

Nothing obliges a host to stop, `recvfrom` to fail, a network to lose, or a
process to do more. A host whose socket is closed counts as stopped for what is
promised. `Driver` states no fairness: its properties are safety properties, and
what must happen in a process is the liveness of its protocol.

## Proofs

`PerfectLinkProofs` proves, for every set of hosts, workload and width of the
counter:

* `IndInvHolds`: the inductive invariant `IndInv`, from which the others follow.
* `TypeCorrect`, `NoDuplicationHolds` (PL2), `NoCreationHolds` (PL3).
* `NoMessageLostHolds`, under the assumption `NoWrap` that no host has more
  messages than the counter has values. The run `link_wrap` shows that the
  assumption is needed.
* `QueueBoundedHolds`: a message is never in the retransmission queue twice, or
  there and in the sending thread's hands, so that the queue is no longer than
  what was sent.
* `ImplementsReliableLink`: initial states are initial states of `ReliableLink`,
  every step is one of its steps or a stutter.

None of the three safety properties is inductive. `NoDuplication` needs that
whatever has a line is recorded in `delivered_messages`, under the seq number
its sender gave it; `NoCreation` needs that everything queued, held by a thread
or in flight was made by `Send` (`LinkInv`); `NoMessageLost` needs that an
acknowledgement, in flight or recorded, stands for a message that its receiver
has delivered or holds, and for that message only (`AckInv`), which is where
`NoWrap` comes in. `IndInv` is the conjunction of `TypeInv`, `LinkInv`, `LogInv`
and `AckInv`, and `link` checks it as an invariant as well. The proof
goes action by action.

`LatticeAgreementProofs` proves, for every set of hosts, number of rounds and
proposals, any order of delivery and any number of hosts that stop:

* `IndInvHolds`: the inductive invariant `IndInv`, checked by `la_rounds` too.
* `TypeCorrect`, `CountsAreAnswersHolds`, `NothingPendingHolds`,
  `AcceptedIsChainHolds`, `QuorumAcceptedHolds` and `AcceptedGrowsHolds`: what the
  counters and the acceptors keep.
* `ConsistencyHolds` and `ValidityHolds`: what `check_agreement` tests.
* `ImplementsLatticeDecisions`: every line a host writes is a decision of
  `LatticeDecisions`, every other step one of its steps or a stutter.

The argument is that of a quorum: two decided sets of a round have each been
accepted by a majority, some host has accepted both, and what one host accepts is
a chain. What takes an inductive invariant is the first half, since a proposer
only has counters. `ExchangeInv` says that a proposal and its answer are never in
transit together, so that a counted answer is the answer of a host that has not
been counted (`CountsAreAnswers`); `MessageInv` and `AnswerInv` say that as long
as `nack_count` is 0, the hosts counted have accepted the proposal that is
current, and that an acknowledgement carries it, which is why the code may hand
`pm.proposal` to the buffer. `BufferInv` ties the lines to the buffer's map, and
`ValueInv` is Validity before the decision. The only assumption is
`LatticeAssumption`: finitely many hosts, no more lines than rounds, and nothing
about the values, which may be infinitely many.

`LatticeRoundsProofs` adds four theorems.

* `EveryProposalGrowsHolds`, why the rounds end: among finitely many values a
  host proposes at most once, and once more for each value it has added. The
  strengthening `GrowsInv` says that a rejection carries a value that the rejected
  proposal did not have, and that this value is in `active_proposal` once
  `nack_count` is above 0.
* `NoRoundStuckHolds`, why no round stays undecided: as long as a majority runs,
  the round of a running host's next line is decided, or its proposal, or an answer
  to it, is on its way between running hosts. `WaitsInv` and `PursuedInv` say that
  the buffer waits for a set it does not have and that such a round is active;
  then the counters are short of a quorum (`NothingPending`) and count who has
  answered (`CountsAreAnswers`), which is not everybody who runs.
* `EveryStepIsNewHolds`, why a run ends: a step begins a round, receives a proposal
  or an answer for the first time, writes a line or stops a host, and undoes none
  of that. A new proposal has a number no exchange has had, and at most one message
  of an exchange is in transit (`ExchangeInv`); so a message received ends its step
  of the exchange for good. With `EveryProposalGrows` there are finitely many
  exchanges.
* `MessagesSurviveHolds`: every message in transit is read as it was sent. It
  takes the types of the messages from `TypeCorrect` and rests on
  `TransportRead` and `ProposalRead` of `WireProofs`, whose instance it is.

That the values are finitely many is the hypothesis of the first and the last
only: the sets of the code are finite.

`UniformReliableBroadcastProofs` proves, for every finite set of hosts, any
number of messages and of hosts that stop:

* `IndInvHolds`, the inductive invariant that `urb_safety` checks as well.
* `MajorityHoldsAlways` and `PendingIsRelayedAlways`.
* `SentOnceHolds`: a message goes from one host to another once.
* `NoDeliveryStuckHolds`: as long as a majority runs, a message that a running
  host has seen, or that anybody has delivered, has been delivered by all running
  hosts or is on its way between running hosts.
* `EveryStepIsNewHolds`: a step adds to what has been broadcast, pushed to all hosts
  or received, or stops a host, and takes nothing away. No relay sets off another
  round of relays, whatever the messages cross: there are finitely many steps.
* `ImplementsUniformBroadcast`: URB2 and URB3, and that only hosts of which a
  majority holds it deliver a message.

`MajorityHolds` is about `pending_messages` of all hosts, and a host counts in its
own `acked_messages` only. What relates the two is `HolderInv`: whoever has a copy
in transit, or is counted as having acked, has the message pending. With the test of
`can_deliver`, at least `n / 2 + 1` hosts counted, this gives a majority.

`NoDeliveryStuck` is about the receipt after which nothing comes any more:
`deliver` tests for a majority on every receipt but the first. When nothing of a
message is under way between running hosts, every running host has the relays of
all of them (`QuietIsAcked`), its own included, and these are a majority.
`SettledInv` says that a host that has counted a majority, itself among it, has
delivered: it sends to itself only what is pending, so its own relay is never a
first receipt, and neither is what comes after it. That a message delivered by a
host that has stopped is not lost with it is `MajorityHolds`: one of the majority
runs.

`FifoBroadcastProofs` proves, for every order in which urb may deliver:

* `IndInvHolds`, the inductive invariant that `fifo` checks as well.
* `FifoOrderHolds` (FRB5) and `NothingWithheldHolds`.
* `LinesAgreeHolds`: hosts to which urb has delivered the same messages, in whatever
  orders, and which have nothing left to write, have written the same lines.
* `ImplementsUniformBroadcast`: FRB2 and FRB3 are still there above the buffer.

`HeldInv` says that what urb has delivered of a source is what is below
`next_seq_nums` and what is in the heap, `LinesInv` that the lines, with those
about to be written, are the former in ascending order. The n-th line about a
source is then its n-th message by a counting argument: the lines up to it are
in bijection with an interval. `RunLength`, how far the loop over the heap gets,
exists by the well-foundedness of the natural numbers.

`StressTestProofs` proves `MajorityRunsHolds`, `StateIsKnownHolds`,
`NoneLeftStoppedHolds` and `NothingHangsHolds` for any number of processes, threads
and attempts. Between the test of the counter and the signal the counter is ahead of
the processes that have been terminated: `CountInv` says that it is the number of
those terminated or reserved by a thread that holds their lock, `LockInv` that a lock
is held by one thread, whose choice is possible in the recorded state. That a thread
always has something to choose is `SelectInv`: the processes it no longer chooses
from are terminated or about to be, and the counter keeps these fewer than all.

`DriverProofs` proves all six properties of the run `driver` for any contents of
the command line and the files, any number of lines and any `Capacity` of the
stream's buffer. `TakesPartHolds` and `EarlyUseHolds` follow from how far `main`
has got (`StageInv`, `InputsInv`), `OneMoreDatagramHolds` from the flag being
tested between two datagrams (`LateInv`). For the file, `PrefixInv` says that it
and the buffer together are what the one writer has written, in each of the
states of a write that is going on; `FlushedInv` says what is left of that once
the signal handler flushes while the receiving thread may be in the middle of a
write.

The two properties of the file are about a process of which one thread writes.
`OneWriterHolds` says which these are: all of m1, whose receiver sends nothing and
whose senders deliver nothing, and all of m3, whose main thread writes no line. Of
m2 with both threads writing they say nothing: `driver_race` shows a line lost
there. `FileIsPrefix` stops where `stop` flushes, since the handler may flush
a second time what an interrupted write has just written through; what is left then
is `NothingLost`. `TakesPart` likewise leaves an id out that does not fit
`uint8_t`: it says that the host it becomes is in the hosts file, not that it is
the one of the command line.

`WireProofs` proves `TransportRead`, `ProposalRead`, `BroadcastRead` and
`StringRead`: whatever is in a message and whatever the receive buffer held
before, the fields read are those written.

Liveness stays with TLC: TLAPS has no ENABLED, on which fairness rests. Only
model-checked are thus `ReliableDelivery`, `RetransmissionEnds`, `EveryProcessExits`
and the refinements with liveness (`UniformBroadcastSpec`, `FifoIsUniform`,
`LatticeDecisionsSpec`). That the link implements all of `ReliableLink` is
`ReliableLinkSafety`, which is proved, together with `ReliableDelivery`, which is its
`Reliability`. What is proved of the liveness properties is what the code
contributes. Progress takes three things: a state in which something is still
missing has a step to come (`NoDeliveryStuckHolds`, `NoRoundStuckHolds`,
`NothingHangsHolds`, and below them `NoMessageLostHolds`, `NothingWithheldHolds`);
steps are finitely many (`EveryStepIsNewHolds` of both protocols, `SentOnceHolds`,
`EveryProposalGrowsHolds`); and one that can be taken is taken, which is the
fairness, assumed. What is not proved is the last conclusion, from finite sets that
every step adds to, to the end of the run: it is an induction.

Every invariant and every action property that a passing run checks is stated by a
theorem. `SentOnceHolds`, `PendingIsRelayedAlways`, `AcceptedIsChainHolds` and
`NothingPendingHolds` are about invariants that no run checks by name: the first
three are conjuncts of an `IndInv` that is checked, on the last `NoRoundStuckHolds`
rests. `LinesAgree`, `OneWriter` and the `EveryStepIsNew` of lattice agreement are no
properties of a run either, their theorems stand alone. The inductive invariant of `StressTestProofs` is proved, and is no property
of a run.

## Findings

* **The seq number of link messages wraps** (`message.hpp:285`). Seq numbers come
  from a 32-bit counter, and what has been acknowledged and delivered is
  remembered for ever by seq number. After 2^32 link messages of a process a new
  message gets an old number, is taken for acknowledged and dropped, or is taken
  for delivered and discarded. Milestone 1 sends at most 2^31 - 1 messages;
  milestone 2 sends a link message per host for each of its own messages and
  for each one it relays, so that 2^32 is not out of reach of its
  configurations.
* **An empty decision blocks the rounds after it** (`receive_buffer.hpp:96`).
  The buffer takes the empty set for "not decided yet". If all hosts propose
  nothing in a round, which is what a blank or missing line of a config file
  means, the decided set of that round is never written, nor is that of any
  later round. `check_agreement` asserts that every round is decided.
* **Two threads write one stream** (`m2.cpp:69`). The main thread's "b" lines and
  the receiving thread's "d" lines go to one `std::ofstream` without a lock, a
  data race. In `driver_race` both copy their line to the same place of the
  buffer, and a "b" line is missing in a file that `check_fifo` asserts to count
  up without a gap. In `m1.cpp` and `main.cpp` one thread of a process writes,
  which `OneWriterHolds` proves and `NothingLost` and `FileIsPrefix` take.

Two more things the model of the output file has, and no property forbids: a
signal between the two steps of a write that empties the buffer makes `stop`
flush the same lines again, so that they are in the file twice; and the second
of SIGTERM and SIGINT, whose default action `stop` has restored, ends the process
before what is buffered is written.

## Not modelled

* Data races on `std::map` in lattice agreement (the unlocked half of the
  handler, while the main thread inserts other rounds): the outcomes are those of
  a broken tree. What becomes of the other hosts when it ends the process is
  covered, by `Stop`.
* What happens inside a protocol when it is used before it is constructed, beyond
  that a thread hangs, the process ends or nothing is noticed (`EarlyUse`).
* The bytes of a field, its padding, and `to_string()`. The size of a message:
  `sendto` refuses a datagram of more than 65507 bytes and its result is ignored,
  so that a lattice message of more than some 16000 values would never arrive.
  Nothing is truncated, since the receive buffer has 65535 bytes.
* Hosts files that list an id twice: the protocols take the hosts as a set.
  Addresses: a host has one or has none.
* How characters make up words and numbers; `Parser::hosts()`, which nothing
  calls; `send_buffer.hpp`, which nothing includes and which does not compile.
* `correctness.py` as code: what it asserts is stated as properties. The
  generation of configurations in `stress.py` and the measuring scripts.

## Plan

The modules planned are written, and every safety property a passing run checks has
been proved. Worth proving next:

1. That steps are finitely many of the two other protocols: of the FIFO buffer, as
   `EveryStepIsNew`; of the link, that what is retransmitted has yet to be
   acknowledged.
2. Of two layers at once: that two hosts for which nothing is under way any more
   have delivered the same messages of urb, and so (`LinesAgree`) written the same
   lines.

Beyond the tools or the model:

* Liveness of each layer, for every value of the constants: TLAPS proves no
  property that rests on fairness.
* The data races on `std::map` in lattice agreement, for which a model of a
  red-black tree under concurrent inserts would be needed, of libstdc++ and not
  of this repository.
* `stress.py` beyond the stress test itself: generating configurations and
  starting processes.
