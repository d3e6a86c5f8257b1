------------------------------- MODULE Fifo -------------------------------
(***************************************************************************)
(* The ring between a disk thread and a network thread (fifo.rs) and its   *)
(* two produce/consume queues, byte by byte.  On the sender's side the     *)
(* local reader fills the ring and the dispatcher empties it; on the       *)
(* receiver's side the network thread fills it and the writer empties it   *)
(* (diskio.rs).  A step is one critical section of one thread.  Of the     *)
(* network threads only the use they make of the ring is here; SendData    *)
(* and ReceiveData have the rest.  The dispatcher has one slice in flight, *)
(* as in half duplex.                                                      *)
(*                                                                         *)
(* Byte k of the stream is the number k.                                   *)
(***************************************************************************)
EXTENDS Produconsum, Sequences

CONSTANTS
  DiskBlock,    \* BLOCKSIZE of diskio.rs (4096)
  NetBlock,     \* block_size
  MinTake,      \* bytes the dispatcher waits for (10 blocks)
  MaxSlice,     \* bytes in the largest slice, and the free room a receiver waits for
  Inputs        \* lengths of the input

\* The ring holds block_size * 4096 bytes.  The last conjuncts say that the two
\* threads of a side are never both left waiting for more than the ring has.
ASSUME FifoAssumption ==
  /\ DiskBlock \in Nat \ {0} /\ NetBlock \in Nat \ {0}
  /\ MinTake \in Nat \ {0} /\ MaxSlice \in Nat \ {0}
  /\ Inputs \subseteq Nat
  /\ Size % DiskBlock = 0 /\ Size % NetBlock = 0 /\ MaxSlice % NetBlock = 0
  /\ DiskBlock + MinTake <= Size + 1
  /\ DiskBlock + MaxSlice <= Size + 1

VARIABLES
  side,      \* "sender" or "receiver"
  length,    \* bytes of the input
  free,      \* free_mem_queue
  data,      \* the data queue
  ring,      \* the buffer
  filled,    \* bytes the filling thread has taken from its source
  filler,    \* the filling thread: where it is, the bytes it moves and from where
  drainer,   \* the emptying thread, likewise
  out,       \* what it wrote or sent
  fatal      \* a queue ended the program

queueVars == <<free, data>>
fifoVars  == <<side, length, free, data, ring, filled, filler, drainer, out, fatal>>

At(pc, pos, bytes) == [pc |-> pc, pos |-> pos, bytes |-> bytes]

Init ==
  /\ side \in {"sender", "receiver"} /\ length \in Inputs
  /\ free = Produce(NewQueue, Size) /\ data = NewQueue
  /\ ring = [i \in 0..Size - 1 |-> 0]
  /\ filled = 0 /\ out = <<>> /\ fatal = FALSE
  /\ filler = At("start", 0, 0) /\ drainer = At("start", 0, 0)

\* Cell i of the region that begins at cell pos, and which of its cells c is.
Cell(pos, i) == Index(pos + i)
Offset(pos, c) == IF c >= pos THEN c - pos ELSE c + Size - pos

\* A thread that moves whole disk blocks leaves the rest for later.
WholeBlocks(pos, bytes) ==
  LET remainder == (pos + bytes) % DiskBlock
  IN  IF bytes > remainder /\ remainder # 0 THEN bytes - remainder ELSE bytes

-----------------------------------------------------------------------------
(* The filling thread.  The free memory queue is the one it consumes.       *)

FillMin == IF side = "sender" THEN DiskBlock ELSE MaxSlice

\* It asks the queue, or is woken by it.  A wakeup may be spurious.
AskFree ==
  \/ filler.pc = "start"
  \/ filler.pc = "sleep" /\ ~free.asleep

FillWait ==
  /\ IF Satisfied(free, FillMin)
     THEN /\ free' = Return(free)
          /\ filler' = At("got", ConsumerPosition(free), ProducedAmount(free))
     ELSE free' = Sleep(free) /\ filler' = [filler EXCEPT !.pc = "sleep"]
  /\ UNCHANGED <<side, length, data, ring, filled, drainer, out, fatal>>

FillAsk      == AskFree /\ FillWait
FillSpurious == filler.pc = "sleep" /\ free.asleep /\ FillWait

\* read returns any part of what was asked for.
Readable ==
  LET most == WholeBlocks(filler.pos, Contiguous(free, filler.bytes))
  IN  {n \in 1..most : n <= length - filled}

\* The bytes of the slice the network thread completes: as the sender cut it.
SliceBytes(left) ==
  {n \in 1..MaxSlice : n <= left /\ (n % NetBlock = 0 \/ (n = left /\ n < NetBlock))}

\* The local reader ends when there is no room although it asked for some.
ReaderStops ==
  /\ filler.pc = "got" /\ side = "sender"
  /\ filler.bytes = 0
  /\ filler' = [filler EXCEPT !.pc = "done"]
  /\ UNCHANGED <<side, length, queueVars, ring, filled, drainer, out, fatal>>

\* The end of the input, or the end marker.
FillEnd ==
  /\ filler.pc = "got" /\ (side = "sender" => filler.bytes > 0)
  /\ filled = length
  /\ data' = ProduceEnd(data)
  /\ filler' = [filler EXCEPT !.pc = "done"]
  /\ UNCHANGED <<side, length, free, ring, filled, drainer, out, fatal>>

\* The reader claims what it has read before it stores it; the network thread
\* stores a slice where its region begins and claims it when it is complete.
FillTake(n) ==
  /\ filler.pc = "got"
  /\ n \in IF side = "sender" THEN Readable ELSE SliceBytes(length - filled)
  /\ filler' = [filler EXCEPT !.pc = IF side = "sender" THEN "claim" ELSE "store", !.bytes = n]
  /\ UNCHANGED <<side, length, queueVars, ring, filled, drainer, out, fatal>>

FillClaim ==
  /\ filler.pc = "claim"
  /\ free' = Consumed(free, filler.bytes)
  /\ filler' = [filler EXCEPT !.pc = IF side = "sender" THEN "store" ELSE "publish"]
  /\ UNCHANGED <<side, length, data, ring, filled, drainer, out, fatal>>

\* write_at
FillStore ==
  /\ filler.pc = "store"
  /\ ring' = [c \in DOMAIN ring |->
       IF Offset(filler.pos, c) < filler.bytes THEN filled + Offset(filler.pos, c) + 1 ELSE ring[c]]
  /\ filler' = [filler EXCEPT !.pc = IF side = "sender" THEN "publish" ELSE "claim"]
  /\ UNCHANGED <<side, length, queueVars, filled, drainer, out, fatal>>

FillPublish ==
  /\ filler.pc = "publish"
  /\ IF Overflows(data, filler.bytes) THEN fatal' = TRUE /\ UNCHANGED data
     ELSE data' = Produce(data, filler.bytes) /\ UNCHANGED fatal
  /\ filled' = filled + filler.bytes
  /\ filler' = [filler EXCEPT !.pc = "start"]
  /\ UNCHANGED <<side, length, free, ring, drainer, out>>

-----------------------------------------------------------------------------
(* The emptying thread.  The data queue is the one it consumes.             *)

DrainMin == IF side = "sender" THEN MinTake ELSE DiskBlock

AskData ==
  \/ drainer.pc = "start"
  \/ drainer.pc = "sleep" /\ ~data.asleep

DrainWait ==
  /\ IF Satisfied(data, DrainMin)
     THEN /\ data' = Return(data)
          /\ drainer' = At("got", ConsumerPosition(data), ProducedAmount(data))
     ELSE data' = Sleep(data) /\ drainer' = [drainer EXCEPT !.pc = "sleep"]
  /\ UNCHANGED <<side, length, free, ring, filled, filler, out, fatal>>

DrainAsk      == AskData /\ DrainWait
DrainSpurious == drainer.pc = "sleep" /\ data.asleep /\ DrainWait

\* Mutant: whole disk blocks only, also at the end of the stream.
WriterWholeBlocks ==
  LET bytes == Contiguous(data, drainer.bytes)
  IN  IF drainer.pos + bytes # Size THEN bytes - ((drainer.pos + bytes) % DiskBlock) ELSE bytes

\* The writer writes whole disk blocks up to the end of the buffer.
WriterBytes ==
  LET bytes == Contiguous(data, drainer.bytes)
  IN  IF drainer.pos + bytes # Size THEN WholeBlocks(drainer.pos, bytes) ELSE bytes

\* The dispatcher cuts whole network blocks, up to any slice size.
CutBytes ==
  {n \in 0..drainer.bytes :
     \E size \in {s \in 1..MaxSlice : s % NetBlock = 0} :
       LET most == IF drainer.bytes > size THEN size ELSE drainer.bytes
       IN  n = IF most > NetBlock THEN most - (most % NetBlock) ELSE most}

DrainTake(n) ==
  /\ drainer.pc = "got"
  /\ IF side = "sender" THEN n \in CutBytes ELSE n = WriterBytes
  /\ drainer' = [drainer EXCEPT !.bytes = n,
                   !.pc = IF n = 0 THEN (IF side = "sender" THEN "end" ELSE "done")
                          ELSE IF side = "sender" THEN "consumed" ELSE "write"]
  /\ UNCHANGED <<side, length, queueVars, ring, filled, filler, out, fatal>>

\* The writer marks as consumed what it has written; the dispatcher marks a
\* slice as consumed before it sends it.
DrainConsumed ==
  /\ drainer.pc = "consumed"
  /\ data' = Consumed(data, drainer.bytes)
  /\ drainer' = [drainer EXCEPT !.pc = IF side = "sender" THEN "write" ELSE "release"]
  /\ UNCHANGED <<side, length, free, ring, filled, filler, out, fatal>>

\* write_all, or the last time the slice is sent.
DrainWrite ==
  /\ drainer.pc = "write"
  /\ out' = out \o [i \in 1..drainer.bytes |-> ring[Cell(drainer.pos, i - 1)]]
  /\ drainer' = [drainer EXCEPT !.pc = IF side = "sender" THEN "release" ELSE "consumed"]
  /\ UNCHANGED <<side, length, queueVars, ring, filled, filler, fatal>>

DrainRelease ==
  /\ drainer.pc = "release"
  /\ IF Overflows(free, drainer.bytes) THEN fatal' = TRUE /\ UNCHANGED free
     ELSE free' = Produce(free, drainer.bytes) /\ UNCHANGED fatal
  /\ drainer' = [drainer EXCEPT !.pc = "start"]
  /\ UNCHANGED <<side, length, data, ring, filled, filler, out>>

\* Every participant was dropped while a slice was in flight.
Abandon ==
  /\ side = "sender" /\ drainer.pc \in {"write", "release"}
  /\ drainer' = [drainer EXCEPT !.pc = "end"]
  /\ UNCHANGED <<side, length, queueVars, ring, filled, filler, out, fatal>>

\* The dispatcher leaves its loop: the free memory queue is ended.
DrainEnd ==
  /\ drainer.pc = "end"
  /\ free' = ProduceEnd(free)
  /\ drainer' = [drainer EXCEPT !.pc = "done"]
  /\ UNCHANGED <<side, length, data, ring, filled, filler, out, fatal>>

-----------------------------------------------------------------------------
Filling ==
  /\ ~fatal
  /\ FillAsk \/ ReaderStops \/ FillEnd \/ FillClaim \/ FillStore \/ FillPublish
     \/ \E n \in 1..Size : FillTake(n)

Draining ==
  /\ ~fatal
  /\ DrainAsk \/ DrainConsumed \/ DrainWrite \/ DrainRelease \/ DrainEnd
     \/ \E n \in 0..Size : DrainTake(n)

Done == filler.pc = "done" /\ drainer.pc = "done" /\ UNCHANGED fifoVars

Next ==
  \/ Filling \/ Draining
  \/ ~fatal /\ (FillSpurious \/ DrainSpurious \/ Abandon)
  \/ Done

Spec == Init /\ [][Next]_fifoVars

\* Both threads are scheduled.  Nothing owes a spurious wakeup.
FairSpec == Spec /\ WF_fifoVars(Filling) /\ WF_fifoVars(Draining)

-----------------------------------------------------------------------------
(* Properties. *)

\* The queues keep their counters in range, and no queue ends the program: no
\* produce goes beyond the buffer, however the counters wrap.
TypeOK ==
  /\ free \in Queue /\ data \in Queue
  /\ filler.pos \in 0..Size - 1 /\ filler.bytes \in 0..Size
  /\ drainer.pos \in 0..Size - 1 /\ drainer.bytes \in 0..Size
  /\ filled \in Nat /\ fatal = FALSE

\* Bytes that are in neither queue: claimed by the filling thread and not yet
\* published, or taken by the emptying thread and not yet released (for ever
\* when the dispatcher left them).
Claimed ==
  IF filler.pc = "publish" \/ (side = "sender" /\ filler.pc = "store") THEN filler.bytes ELSE 0

Taken ==
  IF drainer.pc = "release" \/ (side = "sender" /\ drainer.pc \in {"write", "end", "done"})
  THEN drainer.bytes ELSE 0

InHand == Claimed + Taken

\* Every byte of the ring is free, full or in the hand of one thread: the two
\* queues, whose counters wrap independently, never drift apart.
MemoryShared == ProducedAmount(free) + ProducedAmount(data) + InHand = Size

\* produce notifies only a consumer that announced that it waits; none sleeps
\* on although what it waits for is there.
NoLostWakeup ==
  /\ free.asleep => ~Satisfied(free, FillMin)
  /\ data.asleep => ~Satisfied(data, DrainMin)

\* What the emptying thread delivers is the stream, in order and without a gap,
\* at most the size of the ring behind, and it is told of the end after the last byte.
Reader ==
  IF drainer.pc \notin {"end", "done"} THEN "reading"
  ELSE IF drainer.bytes = 0 THEN "finished" ELSE "gone"

S == INSTANCE Stream WITH
       Capacity <- Size, accepted <- filled, delivered <- out,
       closed <- data.atEnd, reader <- Reader

ImplementsStream == S!Spec

\* Neither thread is left waiting: both come to their end, also when the
\* dispatcher leaves a reader behind that waits for memory.
BothEnd == <>(filler.pc = "done" /\ drainer.pc = "done")
=============================================================================
