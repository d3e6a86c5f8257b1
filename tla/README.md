# udpcast-rs: the transfer protocol in TLA+

udpcast sends one file from a sender to many receivers over UDP multicast.  This
directory holds models of the rendezvous, of the data phase with its error correction, and
of the ring buffer between the threads, the runs that model-check them with TLC, and
theorems proved with TLAPS.  Line numbers refer to the files under `src/src/`.

## 1. Inventory

### Components

| component | state it keeps | operations | modelled |
|---|---|---|---|
| sender data phase (`senddata.rs`) | slice table (8), pending list, next slice number, end flag, wait average, slice size | one loop: handle one answer, repeat CONNECT_REPLY, release acknowledged slices, retransmit, start a new round, cut and send a slice and its parity, wait, drop | `SendData`, `SliceSize` |
| return channel (`senddata.rs:170-366`) | bounded queue of 256 answers | thread: look the client up, queue its answer; dispatcher: pop, wait with timeout | `SendData` |
| participant table (`participants.rs`) | 1024 slots, counter, answer stamps | add, remove, look up, stamp | `Negotiate`, `Participants` |
| receiver data phase (`receivedata.rs`) | slice table (8), completed slices, end flags, timers | DATA, FEC, REQACK handlers, recover, complete a slice, seed late slices, time out, disconnect | `ReceiveData` |
| receiver session (`receiver.rs`) | late slices, threads | CONNECT_REQ/HELLO/CONNECT_REPLY, sniffer, start timeout, clean exit | `Negotiate`, `ReceiveData`, `Transfer` |
| local disk threads (`diskio.rs`) | none of their own | reader fills the ring, writer drains it | `Fifo`; in the data phase `SendData`, `Transfer` |
| ring and queues (`fifo.rs`, `produconsum.rs`) | cells, produced/consumed modulo 2*size, at_end, consumer_waiting | produce, consume (wait), consumed, produce_end | `Produconsum`, `Fifo`; by their promise in `SendData` and `ReceiveData` |
| UDP (`socklib.rs` and the kernel) | socket buffers | send, receive | `Udp`, external |
| negotiation (`negotiate.rs`) | sockets, HELLO tries, clocks of the waits | HELLO, CONNECT_REQ, DISCONNECT, GO, key press, start or give up | `Negotiate` |
| error correction (`fec.rs`, `senddata.rs:970-1069`, `receivedata.rs:474-628`) | parity blocks | encode, decode, recover | `Fec`, `SendData`, `ReceiveData` |
| rate governor (`rate.rs`) | queue and date of the maximum rate | delay | `RateGovernor`: the maximum rate |
| sender session (`sender.rs`) | options | put the options in order, start the threads | `SliceSize`: the slice sizes |
| packet formats, console, statistics, processes, option parsing | | | no: layout, terminal and process I/O |

### How they interact

* Sender: three threads.  The local reader moves blocks from the input into the
  ring (`free_mem_queue` -> `data`), the dispatcher cuts the ring into slices and
  multicasts them, the return-channel thread turns datagrams into queued
  answers.  They share the ring, two produce/consume queues, the answer queue
  and the participant table, each behind a lock of its own.
* Receiver: two threads.  The network thread collects slices in its ring and
  answers REQACKs with OK or with the map of blocks it has; the writer drains
  what was completed.
* Before the transfer the sender's one thread waits on its sockets and announces itself;
  receivers ask for a number, on the control address or, after a HELLO, of the sender itself.
* Between them: DATA and REQACK by multicast; OK, RETRANSMIT and DISCONNECT by
  unicast; CONNECT_REPLY by unicast, repeated for late joiners.

### What is hard

Concurrency of the threads (an answer is looked up under one lock and queued
under another); loss, overflow, duplication and delay of datagrams; timeouts that
expire while an answer is on its way; a budget of retries after which a
participant is dropped, while its answers are still queued; counters that wrap under two
threads, each of which waits for the other; blocks rebuilt from parity that came in any order;
receivers that join late, give up or die; full duplex, with several slices in flight; the end marker,
which reaches receivers that were dropped; requests, replies and farewells that cross or
are lost while the sender decides to start, and closes its listeners.  `PROJECT.json` lists them under
"hazards", each with its line and the properties aimed at it.

### What makes each part correct

* negotiation: the table has one slot per receiver that is in, and the counter follows;
  nobody that was told a number is lost; every receiver that asks gets an answer or
  the sender has gone; the wait ends when the options say so; who leaves is forgotten;
* sender: a slice is released exactly when every remaining participant has
  it; memory in flight is not overwritten or lost; nobody is dropped that
  answered; the loop ends;
* receiver: what the writer gets is the source, in order and once; no truncated file
  is reported complete; a delivered slice is not opened again; no thread is left
  waiting for ever;
* ring: every byte comes out once, in order; no queue overflows; no wakeup is lost;
* error correction: with as many parity blocks as losses a stripe is rebuilt, and what is
  rebuilt is what was lost;
* together: when the sender ends without having dropped anybody, every remaining
  receiver has everything; with finitely many losses everybody ends.

## 2. Modules

    Participants   Udp   Fec                              Produconsum
          \        |     /  \                                  |
           ---- SendData   |     Stream - - - - - - - - - -  Fifo ------ FifoProofs
               /   |  \    |                                   |
    SendDataEnv    |   \  ReceiveData                        MCFifo
      |   |   SendDataProofs   \
      |   |      /        \     \    Broadcast            SliceSize   RateGovernor
      |  ReleaseProofs     \     \   /
      |                     \   Transfer -- MCTransfer    Udp -- Negotiate -- MCNegotiate
    MCSendData               \    /                                 |
                 TransferProofs, FecProofs                   NegotiateProofs

A line is EXTENDS; Stream and Broadcast are abstract specifications that Fifo and Transfer
instantiate.

**Participants** is the table, its actions the methods of `ParticipantsDb`.  A
client is its slot number; `valid` is the set of used slots and `nrParticipants`
the counter kept beside it, so that they can disagree.

**Udp** is external: a queue of at most `ChanCap` datagrams per receiver.

**SendData** is the dispatcher loop with the return channel and the local reader.
`pc` says where the dispatcher is: the loop tests the answer queue only at its
top, so a stage is an action whose guard says that the earlier stages had nothing
to do.  `AtAck`, `AtRexmit`, `AtReqack` and `AtFill` are these guards, and
"acking", "rexmitting", "reqacking" and "fill" are the points inside a stage at which other
threads can get in between.  `BlockOnData` is the wait in `data.consume`,
during which no answer is read.  `rcHeld` is an answer that was looked up and is not
queued yet.  Data is counted in blocks; source block k is the number k, so that a
wrong block is visible.  With `LastShort` the input ends inside its last block: `Padded` is what the
encoder makes of that block (it fills it with zeros), `NoByte` what its packet brings (nothing, so far as the
byte goes that stands for a block), and a slice is cut to whole blocks, so that a short block is a slice
of its own (`SliceSizes`, `senddata.rs:568-570`).  The size of a slice is any size up to `MaxSlice`: that covers whatever
the adaptive slice size (`ack_slice`, `send_reqack`) comes to.  `FecPackets` is the parity of a
slice, sent behind its blocks: block i belongs to stripe i modulo the number of stripes, computed over `StripeContents`.  `AsyncModes` holds
the settings of FLAG_ASYNC a run looks at.

**SendDataEnv** closes it with receivers that may send anything a receiver's code can
send: OK for any slice seen so far, RETRANSMIT with any map for a slice they have
not acknowledged, DISCONNECT, or nothing.  Its history variables `okd`, `left` and
`dropped` are what the properties are stated with.

**ReceiveData** has one operator per packet handler: it maps a receiver record to
the receiver after the packet and the answers sent.  `Stalls` is the sleep in
`new_slice`.  `Seed` is the late join.  `CheckComplete` tries `Recover` when every stripe has as
many parity blocks as blocks missing; `RecoverStripe` picks rows as the code does, in the order
they arrived, and solves for the missing blocks in the field of `Fec`, from whatever the ring holds at the
places of the others: a cell of the ring is never cleared, so behind a short block lies what an earlier
lap left there.  Parity is kept with the slice and not
in the ring; the slot's bitmap of FEC blocks and its list of them are the sequence `fec`.

**Transfer** composes the sender, one receiver per participant and the network;
receivers time out (`TimesOut`, `DrainExit`), are killed, and finish.  Datagrams are lost, or
repeated at once or late (`DupDown`, `DeliverCopy`).

**Broadcast** is what the transfer promises, without a packet in it: outputs that grow as prefixes
of the source, receivers that are done only with the whole of it, a sender that ends only when
all it still counts have everything.  Transfer maps to it (`ImplementsBroadcast`): what a receiver
has is the blocks its network thread completed, the participants are the sender's table.

**Fec** is the field GF(256) by its tables, encoding and decoding by Gaussian elimination (with the
pivot search of `invert_mat`).  One byte stands for a block, the same byte of each: the bytes of a block do not
meet in any step.  They go through the same steps as long as the block is whole.  Of a short block the byte is one behind its
end, where sender and receiver differ (zero, and what the ring held); the bytes before its end are like those of a whole block.

**Produconsum** is the queue as a record and its methods as operators on it, each one critical
section: counters modulo 2 * Size, the overflow tests in wrapping unsigned arithmetic, the
`consumer_waiting` flag, the wait and its spurious wakeups.

**Fifo** puts the two queues, the ring and the two threads of one side together, byte by byte: on the
sender's side the local reader fills and the dispatcher empties, on the receiver's side the network
thread fills and the writer empties.  A thread's steps are its critical sections in the order of the
code, which differs by side: the reader claims memory before it stores into it, the network thread
after; the writer consumes after it wrote, the dispatcher before it sends.  **Stream** is what it
implements (`ImplementsStream`).

**SliceSize** and **RateGovernor** are two numeric state machines the data phase abstracts
from: the adaptive slice size, with its options, and the maximum bit rate's account of what was
sent.  They have theorems and no run.  RateGovernor says what `wait` lets through: the caller
(`senddata.rs:893`) waits for up to 1024 packets and then hands them to the kernel at once.

**Negotiate** is the rendezvous.  The sender's `pc` follows the dispatcher: "announce", "top"
of a round, "select", "drain" of the sockets.  A receiver is its address, so the table maps slots to
receivers; the sender has a "main" and a "control" socket, and an answer takes
the path the code sends it by.  `Started` and `GoTo` are what follows the decision to
start, up to the first answers in the data phase (`RcRead`, `ReReply`, `Answer`): there
the listeners are closed and replies are repeated to receivers that never answered, but not by an asynchronous
sender, which acknowledges the first slice itself as soon as it is sent (`senddata.rs:473`, `1177-1180`).
The console is absent, typed on, or at end of file; in the last case each select returns at once
and the sockets are read (`ConsoleAtEof`), and none times out.  A receiver may be run again after it was killed,
gave up or was refused (`Launch`), also before its farewell was read; it is `hasty` then.
It stands beside Transfer, which begins where it ends: with a set of participants, some of
which (`LateReceivers`) still wait for their number.

## 3. Runs

| run | question | bounds | states |
|---|---|---|---|
| MCSendHalf | is the sender's bookkeeping right in half duplex and asynchronous mode, whatever the receivers send? | 2 receivers, 3 blocks, ring of 2, slices of 1 or 2, drop after round 0, answers repeated at will | 1.5M |
| MCSendFull | the same with two slices in flight; does the sender always end? | 2 receivers, 1 block and the end marker in flight together, drop after round 1, no block asked for again after round 0 | 0.5M |
| MCTransferLoss | does everybody get the source, in order and once, on a lossy network? Does Transfer implement Broadcast? | 2 receivers, 2 blocks, slices of 1 or 2, a receiver's ring of 3, 1 loss and buffers of 3 | 0.33M |
| MCTransferLate | what if one receiver starts late, gives up or dies? | 2 receivers, 1 block, a ring of 1, 1 loss, drop after round 1, buffers of 1 | 1.6M |
| MCTransferFec | are blocks recovered, and only from enough parity? Is a REQACK that comes late harmless? | 1 receiver, 4 blocks, the last one short, in slices of up to 3, rings of 3, 2 stripes with 2 parity blocks each, with and without a return channel, a receiver with one slot, 2 losses, 1 late copy | 1.6M |
| MCFifo | is the ring a stream, and do both threads end? | a ring of 12 bytes, disk blocks of 4, network blocks of 3, slices of up to 6, inputs of 0, 5 and 26 bytes | 20k |
| MCTransferLive | does everybody finish? | 2 receivers, 2 blocks, rings of 1, 1 loss, buffers of 1 | 94k |
| MCNegotiate | do receivers get in, and out, and does the sender start? | 2 receivers, one of which may give up, 2 slots, twelve sets of options, 1 datagram lost or 1 receiver killed | 196k |
| MCSendRing | finding 1 | 2 receivers, 3 blocks, ring of 2, two slices in flight | |
| MCForgotten | finding 2 | 2 receivers that may give up, default options, 1 loss | |
| MCLateData | finding 3 | 1 receiver, 3 blocks, 4 slices in 2 slots, 1 loss, 1 late copy | |
| MCHang | finding 4 | 2 receivers, 1 block, 1 loss, 2 early timeouts | |

Why the bounds are enough: a ring smaller than the input makes every
cell and every slice slot be reused; two receivers are the fewest for which one can
hold up, or stand in for, another; `RetriesUntilDrop` 0 or 1 reaches every arm of the
budget test, including a stamp of an earlier round; a queue of one answer is full as soon
as it is used; where order is the question a receiver's ring is larger than the
room it waits for, so that the writer can lag behind the slices being received; small socket buffers overflow when a retransmission
(each block is sent twice) meets an unread round.  One datagram lost at any place suffices for each arm of the retransmission, two (MCTransferFec) for a
loss that meets the retransmission of another.  Two stripes with two parity rows are the fewest in which a stripe of two blocks can lose both, rows
of two stripes arrive mixed, and one stripe is complete while the other is not.  A ring of 3 makes the receiver's fourth block
land where an earlier one was, so that a short last block has an old byte behind its end; with one slot each slice recycles that
of the slice before.  In MCTransferLive the receiver's
ring has one cell: `new_slice` waits for the writer before the second block, while datagrams overflow the socket.  In MCFifo
12 is the least multiple of both block sizes that leaves room for a disk block beside the largest slice; 26 bytes go round
the ring twice, so that both queues' counters wrap at 24, and are no multiple of either block; 5 is less than
the dispatcher waits for.  `MaxRound` bounds how long the
receivers of SendDataEnv keep asking for blocks; without it they could ask for
ever, as in the code.  In Negotiate the seconds of the waits are 0, 1 or 2: a rule is met at
once, by the clock, or after one that competes with it; two slots are full with two
receivers, and with `--pointopoint` one is; a receiver that was killed, gave up or was refused may be run again and ask
from the same address.  Each set of options is the defaults with a rule, alone or with one it competes with,
and three have a console.

Deadlock is checked wherever the system has to come to its end.  It is not in MCTransferLate and
MCHang, where a dropped or late receiver with no start or receive timeout waits for ever by design
(both default to "wait for ever"), in MCTransferFec, where in asynchronous mode a receiver that lost
too much does so too, nor in MCNegotiate and MCForgotten, which end when the data phase has begun or
no receiver is run.

### Assumptions about time

The code waits in real time.  In MCSend* the dispatcher's wait may end at any
moment.  In Transfer a wait of the dispatcher, the exit-wait and the timeouts of a
receiver outlast whatever is on its way, except for `MaxEarly` of them: the dispatcher's
wait starts at 10 ms, grows with the round-trip average and by a second after ten
rounds, the exit-wait is half a second by default.  `MaxEarly` is 0 where the property
is about healthy receivers (nobody is dropped that answers in time) and 2 in
MCHang, enough to use up the retries of a receiver that is alive.

In Negotiate seconds pass at any moment, but a HELLO interval, the second between two requests or
two farewells, and a receiver's start timeout outlast what is on its way
(`NothingToRead`, `Silence`): a datagram is either lost or read within a second.

### Fairness

`FairSpec` of SendDataEnv assumes that the dispatcher and the local reader are
scheduled, which the operating system does for threads that can run; receivers
owe nothing.  `FairSpec` of Transfer adds the return-channel thread and, for every receiver, its
threads.  Loss needs no fairness: a run loses at most
`MaxLoss` datagrams and whatever overflows.  `FairSpec` of Negotiate assumes that the sender's thread
and the receivers that run are scheduled and that the clock goes on; nobody need run a receiver
or press a key.  Reading what is on its way to the sender has strong fairness: a round can end before a
datagram comes, with a console at end of file any number of them, but each drain reads the sockets until they are empty, so
a datagram that stays there is read.  `FairSpec` of Fifo assumes that both threads are scheduled; a spurious wakeup
is owed by nobody, and `Abandon` (all participants dropped) need not happen.

### Properties

* `CountersMatch`: nr_ready, nr_answered and nr_participants are the sizes of the sets
  they stand for, although a disconnection, a drop and answers of the same client
  update them in any order.
* `ReadyAccounted`: only who acknowledged a slice is marked on it, and whoever is
  marked is a participant or was dropped.
* `ReleaseRule`: a slice is released only when all remaining participants
  acknowledged it, or a dropped one's mark stands in (section 4).
* `RingIntact`, `MemoryConserved`: a slice in flight keeps its blocks; no memory
  is lost or released twice.
* `DropRule`: nobody is dropped that acknowledged everything, unless its answer is still queued.
* `Termination`: the sender ends whatever the receivers do.
* `OutputIsPrefix`, `CompleteMeansWhole`: what is written is the source; a receiver that
  reports success wrote all of it.  Of a receiver that was dropped, and in asynchronous mode, the first is said once
  it reports success (section 4).
* `FecSuffices`: a slice whose every stripe has as many parity rows as blocks missing is
  complete, in whatever order they came.
* `ImplementsBroadcast`, `ImplementsStream`: the refinements.
* `MemoryShared`: every byte of the ring is free, full or in one thread's hand.
* `NoLostWakeup`, `BothEnd`: no thread sleeps on what is there, and both end.
* `CompletedInOrder`, `WriterReleased`, `SuccessMeansDelivered`, `NeverReopened`,
  `Delivery`: see the comments in `Transfer`.

* `TableCounted`, `JoinedAreParticipants`: the counter is the number of slots in use, one
  per receiver; whoever was told a number and has not left holds that slot, unless it was run again
  before its farewell was read (section 4).
* `UnicastAlone`: the sender switches to unicast only if nobody else was told to expect data.
  A `--passive` receiver is told nothing and may be left out.
* `AskersAreServed`, `StartsOnceEnough`, `StartTimeoutDecides`, `LeaverForgotten`: who asks is
  answered, the wait ends, who leaves is forgotten by a sender whose address it knew.  The first leaves out
  asynchronous senders that have started, the third a console at end of file (section 4).

## 4. Findings

1. **Full duplex overwrites slices in flight** (MCSendRing).  Releasing a later
   slice first gives the local reader the memory of the earlier one.
2. **A receiver that gave up is not heard** (MCForgotten).  It was registered, its replies
   were lost, and it knows only the control address to say farewell to.  The sender has
   closed the listeners on it (`socks.extra.clear()`, `negotiate.rs:516`) and waits for the
   receiver with its first slice until the retries run out.
3. **A late copy of a DATA packet delivers a slice twice** (MCLateData).  `process_data_block`
   (`receivedata.rs:429`) opens a slice for any number that is not in the table, also for one that was
   delivered and whose slot was recycled; only `process_reqack` looks at `completed_slices`.  The
   output becomes 1, 2, 3, 1.
4. **A dropped receiver hangs** (MCHang).  It completes the end marker, its
   network thread leaves after the exit-wait, and the writer waits for an end that
   nobody announces; the receive timeout it is said to wait for went with
   the thread.

Not runs of their own, and seen by changing a constant or a property of one:

* In full duplex a receiver fills one region of its ring twice: `new_slice`
  (`receivedata.rs:395-410`) does not claim the memory it waited for.  A later slice may
  also be completed, and written, first.  With `MaxInFlight = 2` MCTransferLoss
  fails in `CompletedInOrder` and in `OutputIsPrefix`.  For the same reason, in asynchronous mode a receiver that
  lost more of a slice than the parity covers puts a later slice where the lost one would have been, and
  a dropped receiver in either mode.  The comment there says that the wait keeps slices from sharing memory.  Such a
  receiver never reports success; `OutputIsPrefix` without its condition fails in MCTransferFec.
* A console at end of file (stdin is `/dev/null`, and no `--nokbd`) is readable for ever: every select
  of `dispatch_round` returns at once with the key flag set, and the branch for a
  wait that timed out (`negotiate.rs:283-302`) is never reached.  No HELLO is repeated, `--autostart` does not start and
  `--start-timeout` does not end the wait, and the loop does not sleep.  The comments (`negotiate.rs:305-307`, `console.rs:131-136`) name
  the case, as one in which nothing is to be started.  `StartTimeoutDecides` without its exception fails in MCNegotiate.
* An asynchronous sender repeats no CONNECT_REPLY: the repetition asks for a first slice that is not
  acknowledged (`senddata.rs:473`), and `send_reqack` acknowledges it at once (`senddata.rs:1177-1180`).  A receiver whose reply was
  lost, and that missed the HELLOs, is in the table, and keeps asking on an address nobody reads any more.
* A receiver that gave up and is run again before its farewell was read may be told a number and have no slot: the
  sockets are drained one after the other (`negotiate.rs:325-355`), so a DISCONNECT on the control address is read after a
  newer CONNECT_REQ on the main one, the answer to a HELLO.  The request it began with, behind the farewell on the control
  address, gives it a slot again, unless that is lost.  `JoinedAreParticipants` without `hasty` fails in MCNegotiate
  with `MaxFaults = 2`.
* With `-H -1`, no rule, no timeout and no keyboard the sender may never start: a receiver that
  connects is noted only when the next round begins (`negotiate.rs:240`), and the select of
  that round has no limit.  The comment at `negotiate.rs:359` says the check is made "whenever
  a receiver has connected".  `StartsOnceEnough` without its last disjunct fails for
  these options.
* A dropped participant stands in for another.  An OK that was queued when its sender was dropped is
  counted all the same (`senddata.rs:771-791`), and a bit it had stays, against a lower
  `nr_participants`.  The test `tests/multi_receiver.rs:9` promises that a slice is freed "once ALL
  participants have acked it".  In MCSendHalf without answers repeated `FreedOnlyWhenAllAcked`
  fails; `ReleaseRule` says what holds instead.  With `MaxEarly = 1` and `RetriesUntilDrop = 0`
  MCTransferLate fails in `CompletedInOrder` for this reason.
* A parity block that arrives twice is counted twice (`receivedata.rs:507`): the copy goes on the list
  of the slice, recovery picks two equal rows and the matrix is singular.  With
  `Duplicable = {"FEC"}` MCTransferFec fails in `FecSuffices`: a slice that has enough parity waits for a
  retransmission, or, in asynchronous mode, for ever.  The repository's `README.md:24` says that "a
  receiver can reconstruct up to `redundancy` lost blocks per stripe without a retransmission round".
* A loss raises a slice size below 32 to 32 (`senddata.rs:1192`), also over `--max-slice-size`, and
  `--min-slice-size` is not looked at when the size is reduced; `-F 8x2/0` sets a size of 0 and
  sends nothing.  `SizeBounded` allows for the first; `Options` leaves the last out.

## 5. Proofs

For every value of the constants that satisfies the named assumptions (`ReceiversAssumption`,
`SizesAssumption`, `FifoAssumption`, ...; TLC evaluates them in every run):

| module | theorem | says | inductive invariant |
|---|---|---|---|
| ReleaseProofs | `TypeCorrect` | Spec => []TypeOK | `EnvInv` |
| | `CountersCorrect` | Spec => []CountersMatch | `EnvInv` |
| | `MemoryIsConserved` | Spec => []MemoryConserved | `EnvInv` |
| | `RingStaysIntact` | Spec => []RingIntact, in half duplex | `EnvInv`, `HalfInv` |
| | `ReadyIsAccounted` | Spec => []ReadyAccounted, if Reorder = FALSE | `ReleaseInv` |
| | `ReleaseCorrect` | Spec => ReleaseRule, if Reorder = FALSE | `ReleaseInv` |
| | `DropsCorrect` | Spec => DropRule | `DropInv` |
| TransferProofs | `TransferTypes` | Spec => []TypeOK | `TransferInv` |
| | `FinishedHasWhole` | Spec => []CompleteMeansWhole | `TransferInv` |
| | `DeliversInOrder` | Spec => [](Undisturbed => CompletedInOrder /\ WriterReleased) | `StepInv` |
| | `OrderWhenPatient` | Spec => []CompletedInOrder, if MaxEarly = 0 | `StepInv` |
| | `WriterWhenPatient` | Spec => []WriterReleased, if MaxEarly = 0 | `StepInv` |
| | `WritesSource` | Spec => [](Undisturbed => OutputIsPrefix) | `StepInv` |
| | `SuccessDelivers` | Spec => []SuccessMeansDelivered | `StepInv` |
| | `TransferIsBroadcast` | Spec /\ [](dropped = {}) => ImplementsBroadcast, the refinement | `StepInv` |
| FecProofs | `FecDecodes` | `fec_decode` gives back what was erased, for stripes of up to 128 blocks | |
| | `FecRecovers` | Spec => []FecSuffices, if "FEC" is not in Duplicable | `FecInv` |
| FifoProofs | `CountersInRange` | Spec => []TypeOK: no queue ends the program | `FifoInv` |
| | `RingShared` | Spec => []MemoryShared | `FifoInv` |
| | `WakeupsKept` | Spec => []NoLostWakeup | `FifoInv` |
| | `FifoIsStream` | Spec => ImplementsStream, the refinement | `FifoInv` |
| NegotiateProofs | `NegotiationTyped` | Spec => []TypeOK | `NegotiateInv` |
| | `SlotsCounted` | Spec => []TableCounted | `NegotiateInv` |
| | `NumbersHold` | Spec => []JoinedAreParticipants | `NegotiateInv` |
| | `UnicastReachesAll` | Spec => []UnicastAlone | `NegotiateInv` |
| SliceSize | `SizeStaysPositive` | the slice size is never 0 | `SizeInv` |
| | `SizeStaysBounded` | nor above its maximum, or 32 | `SizeInv` |
| RateGovernor | `RateIsKept` | the rate is kept up to 40 ms of it, a microsecond and the last packet | `RateInv` |
| | `RateIsAccounted` | no cast of a negative queue | `RateInv` |

### The sender

`SendDataProofs` proves what holds of the sender whoever its receivers are, so that it serves
both compositions: `SenderMoves` is all the sender may do when an answer is any message, and
`SenderInv`, the conjunction of three invariants, is kept by it (`SenderStep`).
`ReleaseProofs` and `TransferProofs` show that each step of SendDataEnv and of Transfer is such a
move.  All of it holds for any finite set of receivers, any number of slices in flight, slots,
blocks and retries, and for both modes, `HalfInv` excepted.

* `CoreInv` is `SenderTypeOK /\ CountersMatch /\ Numbered`.  None of the parts is inductive alone:
  that nr_ready stays a natural number when a disconnection lowers it
  follows from the set having an element to remove, and the numbers of slices
  in flight are needed for the messages about them.
* `MemoryInv` adds to `MemoryConserved` that a slice is cut from what was read and that a free slot
  accounts for no blocks.  The sum over the slices in flight is a fold; what one slot adds to it is
  proved from the recursive function the fold is made of, by induction up to n (`UpTo`): the
  library's induction takes an operator, so the induction is over the set of the numbers that have the property.
* `StreamInv` says that the part of the ring that is not free holds the blocks read last (`LiveCells`)
  and that only the last slice may be empty, the end marker.
* `HalfInv`, with `MaxInFlight = 1`: the slice in flight is the last that was cut and ends where
  the next one begins, so that its blocks are among the live cells.  It is what full duplex breaks (finding 1).

`ReleaseInv` adds what is known of the answers under way: an OK in the queue, or
held by the return-channel thread, is from a receiver that acknowledged the slice
(`QueueHonest`), every client in it is a participant, was dropped, or disconnects
earlier in the queue (`QueueKnown`), and nothing follows a receiver's DISCONNECT
(`DisconnectLast`).  The last needs that one receiver's answers arrive in order: the assumption
`Reorder = FALSE` is on the network, and with `Reorder = TRUE` a late OK of a receiver that
disconnected would leave a mark behind.

`DropInv` says that no acknowledgement is lost between the socket and the slice table (`NoOkLost`): of
a slice in flight that a participant acknowledged, the mark is there or the OK is among the
unseen answers.  It needs no assumption on their order.

### The whole data phase

`TransferProofs` holds for any number of receivers, blocks, slices, slots, losses and early timeouts, whoever is
killed or gives up and with late receivers, under `Setting`:

* `MaxInFlight = 1`: half duplex, the default.  In full duplex the properties fail (section 4).
* `FecRedundancy = 0`: no parity, the default.  With parity the blocks a receiver puts into its ring come out
  of `FecDecode`.  `FecDecodes` shows that these are the blocks lost; that the ring and the list of parity blocks
  meet its hypotheses in every state of Transfer is not proved.
* `Duplicable = {}`: the network makes no copies.  With copies of DATA the output is wrong (finding 3).
* `~LastShort`: the input is a whole number of blocks.  Without parity a short block only restricts where slices are cut.
* `MaxSlice <= WaitFree`: the room `new_slice` waits for holds the largest slice, as the constants of the code have it
  (1024 blocks both).

`HalfDuplex` adds `AsyncModes = {FALSE}`, for what depends on answers.  Nothing is assumed of the order
in which the network delivers to different receivers, nor of when datagrams are lost.

Neither side keeps the sizes of the slices that are through.  The invariants therefore speak of a
function `start`, known only to exist: slice no holds blocks start[no] + 1 to start[no + 1] of
the source.  A step that cuts a slice extends the function (`HistoryKept`), every other keeps it.  Relative to
it `TransferInv` says that packets on their way tell the truth about their slice (`Truthful`) and come in the order of
slices (`Channel`), that the slots of a receiver agree with it (`SlotTable`), that no more was handed to the
writer than the delivered slices hold (`Delivered`), that the data ends only when the end marker and all before it
are there (`Ends`), and, the conditional part, that a receiver that delivered exactly the slices
before c has the source up to start[c] in its ring and its output (`Prefix`).  The condition is what
makes it inductive without knowing the order: a receiver that was dropped may
deliver out of order, and then `CompleteMeansWhole` still holds, because `produced` falls behind
and `dataEnd` is not set.  The handlers are folds over slots and packets; `Iteration` proves of a fold what
its step keeps.

`SyncInv` is about sender and receivers together: answers tell of slices delivered (`AnswersHonest`), nothing but
disconnections follows a disconnection (`DisconnectLast`), a ready mark stands for a
participant that has the slice (`ReadyHonest`), every participant has all but what is in flight, and who
is none any more was dropped or has ended (`InStep`).  It cannot hold without a condition: an OK that was looked up before
its sender was dropped is counted when it is taken from the queue, stands in for one that is missing, and the slice is
released though a participant lacks it (section 4; `MaxEarly = 3` and an input of 2 blocks make
MCTransferLate fail in `CompletedInOrder`).  The condition, `Undisturbed`, is that nobody was dropped, or that
no timeout is early (`MaxEarly = 0`, as in MCTransferLate, where participants are dropped).  In the second case
`QuietInv` makes the drop harmless: when the dispatcher acts on a timeout, there is nothing on its way but disconnections.
`SyncInv` is then about the receivers that were not dropped (`Kept`).

`TransferIsBroadcast` maps each step: a packet that completes a slice is `Receive`, the writer's step `Write`, the ends of a receiver
`Finish` and `Fail`, the dispatcher taking a disconnection `Leave` (whose receiver has failed or has everything,
as its answers come in order), the end of the loop `End` (`InStep` says that all participants have
everything), every other step a stutter.  The hypothesis `[](dropped = {})` is what Broadcast speaks of: a participant
leaves it only by itself.  MCTransferLoss checks it with timeouts that drop nobody.

### Error correction

`FecProofs` has two parts.  The first is about the decoder alone and ends in `FecDecodes`.  It rests on one
assumption on tables, `GfTables` of `Fec`: the powers of the generator run through the 255 bytes
that are not 0, doubling a power gives the next one, and the logarithm inverts them.  These are facts about two tables of 255 entries
that follow from their definitions, and TLC evaluates them in every run that uses `Fec`; all else is derived.

* A sum of bytes is taken digit by digit (`XorBits`), so the laws of addition are those of digits modulo 2.
  Doubling distributes over it, hence so does multiplication by any power of the generator, which is
  every byte but 0: the bytes form a field.
* The coefficient of a row and a column is the inverse of the sum of a row number below 128 and a column number from
  128: a Cauchy matrix.  Every square part of it with different rows and different columns is regular
  (`CauchyRegular`), by induction on its size: a combination of the columns that vanishes in every row gives,
  when the last row and column are eliminated, one of the smaller matrix, its coefficients multiplied by
  factors that are not 0 (`CauchyStep`).
* The columns the code eliminates are steps that keep the solutions of the system (row exchange,
  scaling, clearing); in a regular system the search finds a pivot in each column, and after the last column the
  right-hand sides are the solution (`SolveRegular`).  The parity of what is missing is the parity received minus the parity of what
  is there, and that is the system `fec_decode` sets up.

The bound of 128 is the one the code asserts (`fec.rs:230-231`).

The second part is `FecRecovers`, over all of Transfer.  Its hypotheses are `Encodable`, that no stripe has more than 128
blocks or rows, the same two assertions, and that the network makes no copies of parity blocks: with copies
the property is false (section 4).  It needs neither half duplex nor anything about timeouts, drops or other
copies.  `FecInv` speaks of the sizes of the slices, a function known to exist, as `TransferProofs` does of their starts:

* `Cut`: every slice in flight has the size the function gives it.
* `Link`: packets on their way to a receiver agree with it, and bring no parity block a second time, neither twice
  in the queue nor one the receiver has taken.  This is where the copies are excluded; a slice's parity is sent
  once, behind its blocks, and a retransmission sends data only.
* `Sound` and `SlotSound`: a receiver's slots agree with it, no parity block is twice in a slot's list, so that its
  rows in a stripe differ, and a slot that has parity for every stripe's losses has been settled.

A handler that adds a block or a row calls `check_slice_complete` afterwards (`CheckSettles`).  With fewer rows in all than
blocks missing it does nothing, and then some stripe lacks rows.  Otherwise it looks at every stripe: one with
enough rows is solved, because rows and columns that differ make the system regular whatever the blocks hold
(`DecodeAnswers`), and has no block missing afterwards; one without is left as it is.  In the end all blocks are there and the
slice is complete, or one is missing, and its stripe lacks rows (`Recovers`).

### The ring, the rendezvous, the numbers

The proof for the ring has two layers.  The first lemmas of `FifoProofs` show what each method does to the amount in a
queue, `(produced - consumed)` modulo twice the size: it counts exactly as long as it stays within the size.
`SafeInv` then says that each thread's bytes are covered by the queue it consumes (`FillerCovered`,
`DrainerCovered`), and that whoever sleeps has announced it (`Announced`); with `MemoryShared` this keeps every
produce within the buffer.  `OrderInv`, relative to it, says that the two queues and the two threads mean the same
cells (`Places`), and that the cells from the next byte to come out hold the stream (`Contents`).  The refinement
maps each step of Fifo to one of Stream or to a stutter: the reader's bytes are accepted when they are
published, and the emptying thread is finished, or gone, when it leaves its loop.

`NegotiateInv` adds to the types, and to `TableCounted`, what the properties rest on.  A number on its way to a receiver that has
not said farewell names the slot that receiver holds (`ToldTruly`), because the sender sends it with the
table in that state and takes a slot back only for a DISCONNECT, which only a receiver that has given
up sends.  A receiver that is run again may have one on its way, and is `hasty` then: no DISCONNECT of
any other receiver that asks or has joined is on its way (`NoFarewell`).  That the first
free slot exists whenever there is one is well-foundedness of the natural numbers.
`UnicastToOne` is the same for the start: who was told to expect data is in the table then, and the table
had one entry.

`RateInv` bounds the two parts of what was let through: what left the queue had its time before `date_us`
but for the rounding of each call (`AccountKept`), and what is ahead of the last packet in the queue is
due within 40 ms (`QueueShort`), as all but that is slept.  `SizeInv` needs that a block
number in a slice is below the largest slice that was cut.

### Model-checked only

* Liveness under fairness (`Termination`, `Delivery`, `BothEnd`, `AskersAreServed`, `StartsOnceEnough`,
  `StartTimeoutDecides`, `LeaverForgotten`) is out of the prover's reach.
* The properties of Transfer with parity, `FecSuffices` excepted: `OutputIsPrefix` and `CompleteMeansWhole` are proved
  without parity only.  The recursive functions of `Fec` (sums, tables, columns) are reasoned about by
  induction over sets of numbers, as `UpTo` is above.
* `NeverReopened`, and `CompleteMeansWhole` and `OutputIsPrefix` with a REQACK delivered again late (MCTransferFec):
  a copy breaks the order in which `Channel` has the packets.  Without copies `NeverReopened` says nothing: packets
  come in the order of their slices, and none of a delivered slice comes after its slot was recycled.
* The short last block (`LastShort`).

## 6. Not modelled, and the plan

Planned, in this order:

1. Proofs: `CompleteMeansWhole` with parity, and it and `NeverReopened` with copies of REQACKs, which rest on the numbers of
   slices and not on their contents; `OutputIsPrefix` with parity, which joins `FecDecodes` to the ring: the blocks of a
   stripe that are there are the source's, and the parity is of the same blocks.
2. Full duplex in Transfer: several slices in flight on both sides, with a full slot table
   (`receivedata.rs:742`) and an end marker that overtakes data (`receivedata.rs:673`).  The
   disagreements above are what stands in the way: the properties fail for causes already known.
3. The automatic rate (`AutoRateData`), which polls the kernel's send queue.

Left out for good: the bytes of packets (a model uses the fields), statistics, terminal, file and
process handling, option parsing, socket set-up: no state of theirs takes part in the protocol.
`consume_any` and `consume_any_with_timeout` of `produconsum.rs` have no caller.  The wait average of the dispatcher
sets how long a wait takes and is covered by waits that may end at any moment.
