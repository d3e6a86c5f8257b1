---------------------------- MODULE FifoProofs ----------------------------
(***************************************************************************)
(* The ring and its queues for every size of the ring, of its blocks and   *)
(* of the input: no queue ever ends the program, no wakeup is lost, and    *)
(* what comes out is the stream that went in.                              *)
(***************************************************************************)
EXTENDS Fifo, TLAPS, SequenceTheorems

-----------------------------------------------------------------------------
(* What the methods of a produce/consume queue do to its amount and to its *)
(* positions: the counters that run modulo twice the size count exactly    *)
(* while the amount stays within the size.                                 *)

\* Where a position comes to, modulo the size of the buffer.
LEMMA PositionMoves ==
  ASSUME NEW p \in Positions, NEW n \in 0..Size
  PROVE  /\ Advanced(p, n) \in Positions
         /\ Advanced(p, 0) = p
         /\ Index(p) \in 0..Size - 1
         /\ Index(Advanced(p, n)) = Index(Index(p) + n)
BY SizeAssumption, SMT DEF Positions, Advanced, Index

\* The amount is a number below two sizes, and the distance of the positions.
LEMMA AmountType ==
  ASSUME NEW q \in Queue
  PROVE  /\ ProducedAmount(q) \in 0..2 * Size - 1
         /\ q.produced \in Positions /\ q.consumed \in Positions
         /\ ConsumerPosition(q) = Index(q.consumed)
         /\ ConsumerPosition(q) \in 0..Size - 1
         /\ ProducedAmount(q) <= Size
              => Index(ConsumerPosition(q) + ProducedAmount(q)) = Index(q.produced)
<1>1. q.produced \in 0..2 * Size - 1 /\ q.consumed \in 0..2 * Size - 1
  BY DEF Queue, Positions
<1> QED BY <1>1, SizeAssumption, SMT DEF Positions, ProducedAmount, ConsumerPosition, Index

\* produce: the amount grows by n and the program does not end, if there is room;
\* whoever sleeps having said so is woken.
LEMMA ProduceAdds ==
  ASSUME NEW q \in Queue, NEW n \in 0..Size
  PROVE  /\ Produce(q, n) \in Queue
         /\ Produce(q, n).produced = Advanced(q.produced, n)
         /\ Produce(q, n).consumed = q.consumed
         /\ Produce(q, n).atEnd = q.atEnd
         /\ Produce(q, n).consumerWaiting = q.consumerWaiting
         /\ (q.asleep => q.consumerWaiting) => ~Produce(q, n).asleep
         /\ ProducedAmount(q) + n <= Size =>
              /\ ProducedAmount(Produce(q, n)) = ProducedAmount(q) + n
              /\ ~Overflows(q, n)
<1>1. /\ q.produced \in Positions /\ q.consumed \in Positions
      /\ q.atEnd \in BOOLEAN /\ q.consumerWaiting \in BOOLEAN /\ q.asleep \in BOOLEAN
  BY DEF Queue
<1>2. Advanced(q.produced, n) \in Positions
  BY <1>1, PositionMoves
<1>3. /\ Produce(q, n) \in Queue
      /\ Produce(q, n).produced = Advanced(q.produced, n)
      /\ Produce(q, n).consumed = q.consumed
      /\ Produce(q, n).atEnd = q.atEnd
      /\ Produce(q, n).consumerWaiting = q.consumerWaiting
      /\ Produce(q, n).asleep = (q.asleep /\ ~q.consumerWaiting)
  BY <1>1, <1>2 DEF Produce, Notified, Queue
<1>4. ASSUME ProducedAmount(q) + n <= Size
      PROVE  /\ ProducedAmount(Produce(q, n)) = ProducedAmount(q) + n
             /\ ~Overflows(q, n)
  BY <1>1, <1>3, <1>4, SizeAssumption, SMT DEF ProducedAmount, Advanced, Overflows, Positions
<1> QED BY <1>1, <1>3, <1>4

\* consumed: the amount falls by what is taken of it.
LEMMA ConsumedTakes ==
  ASSUME NEW q \in Queue, NEW n \in 0..Size, n <= ProducedAmount(q)
  PROVE  /\ Consumed(q, n) \in Queue
         /\ Consumed(q, n).produced = q.produced
         /\ Consumed(q, n).consumed = Advanced(q.consumed, n)
         /\ Consumed(q, n).atEnd = q.atEnd
         /\ Consumed(q, n).consumerWaiting = q.consumerWaiting
         /\ Consumed(q, n).asleep = q.asleep
         /\ ProducedAmount(Consumed(q, n)) = ProducedAmount(q) - n
<1>1. /\ q.produced \in Positions /\ q.consumed \in Positions
      /\ q.atEnd \in BOOLEAN /\ q.consumerWaiting \in BOOLEAN /\ q.asleep \in BOOLEAN
  BY DEF Queue
<1>2. (IF q.consumed >= 2 * Size - n THEN q.consumed + n - 2 * Size ELSE q.consumed + n)
        = Advanced(q.consumed, n)
  BY <1>1, SizeAssumption DEF Positions, Advanced
<1>3. Advanced(q.consumed, n) \in Positions
  BY <1>1, PositionMoves
<1>4. /\ Consumed(q, n) \in Queue
      /\ Consumed(q, n).produced = q.produced
      /\ Consumed(q, n).consumed = Advanced(q.consumed, n)
      /\ Consumed(q, n).atEnd = q.atEnd
      /\ Consumed(q, n).consumerWaiting = q.consumerWaiting
      /\ Consumed(q, n).asleep = q.asleep
  BY <1>1, <1>2, <1>3 DEF Consumed, Queue
<1>5. ProducedAmount(Consumed(q, n)) = ProducedAmount(q) - n
  BY <1>1, <1>4, SizeAssumption, SMT DEF ProducedAmount, Advanced, Positions
<1> QED BY <1>4, <1>5

\* The end leaves the counters alone, and wakes whoever sleeps having said so.
LEMMA EndKeeps ==
  ASSUME NEW q \in Queue
  PROVE  /\ ProduceEnd(q) \in Queue /\ ProduceEnd(q).atEnd
         /\ ProduceEnd(q).produced = q.produced /\ ProduceEnd(q).consumed = q.consumed
         /\ ProducedAmount(ProduceEnd(q)) = ProducedAmount(q)
         /\ ProduceEnd(q).consumerWaiting = q.consumerWaiting
         /\ (q.asleep => q.consumerWaiting) => ~ProduceEnd(q).asleep
BY DEF ProduceEnd, Notified, Queue, ProducedAmount

\* So do the wait and the return from it.
LEMMA SleepKeeps ==
  ASSUME NEW q \in Queue
  PROVE  /\ Sleep(q) \in Queue /\ Sleep(q).atEnd = q.atEnd
         /\ Sleep(q).produced = q.produced /\ Sleep(q).consumed = q.consumed
         /\ ProducedAmount(Sleep(q)) = ProducedAmount(q)
         /\ Sleep(q).asleep /\ Sleep(q).consumerWaiting
BY DEF Sleep, Queue, ProducedAmount

LEMMA ReturnKeeps ==
  ASSUME NEW q \in Queue
  PROVE  /\ Return(q) \in Queue /\ Return(q).atEnd = q.atEnd
         /\ Return(q).produced = q.produced /\ Return(q).consumed = q.consumed
         /\ ProducedAmount(Return(q)) = ProducedAmount(q)
         /\ ~Return(q).asleep /\ ~Return(q).consumerWaiting
BY DEF Return, Queue, ProducedAmount

-----------------------------------------------------------------------------
(* The inductive invariant of the ring. *)

FillerPlaces  == {"start", "sleep", "got", "claim", "store", "publish", "done"}
DrainerPlaces == {"start", "sleep", "got", "consumed", "write", "release", "end", "done"}

Types ==
  /\ TypeOK
  /\ side \in {"sender", "receiver"} /\ length \in Nat
  /\ filler \in [pc : FillerPlaces, pos : 0..Size - 1, bytes : 0..Size]
  /\ drainer \in [pc : DrainerPlaces, pos : 0..Size - 1, bytes : 0..Size]

\* The filling thread has what it means to take in the free queue until it has
\* claimed it, the network thread of a receiver at least a slice.
FillerCovered ==
  /\ filler.pc \in {"got", "claim"} \/ (side = "receiver" /\ filler.pc = "store")
       => filler.bytes <= ProducedAmount(free)
  /\ side = "receiver" => ~free.atEnd
  /\ side = "receiver" /\ filler.pc = "got" => MaxSlice <= filler.bytes

DrainerCovered ==
  /\ drainer.pc \in {"got", "consumed"} \/ (side = "receiver" /\ drainer.pc = "write")
       => drainer.bytes <= ProducedAmount(data)
  /\ side = "receiver" => drainer.pc # "end"

\* Who sleeps has said that it waits.
Announced ==
  /\ free.asleep => free.consumerWaiting
  /\ data.asleep => data.consumerWaiting

\* Inductive.
SafeInv == Types /\ FillerCovered /\ DrainerCovered /\ MemoryShared /\ Announced /\ NoLostWakeup

-----------------------------------------------------------------------------
(* What the operators of Fifo return. *)

LEMMA Sizes ==
  /\ Size \in Nat \ {0} /\ MaxSlice \in Nat \ {0} /\ MaxSlice <= Size
  /\ DiskBlock \in Nat \ {0} /\ NetBlock \in Nat \ {0} /\ MinTake \in Nat \ {0}
BY SizeAssumption, FifoAssumption

\* A thread that moves whole blocks moves something if there is something.
LEMMA WholeBlocksPart ==
  ASSUME NEW pos \in Nat, NEW bytes \in Nat
  PROVE  WholeBlocks(pos, bytes) \in 0..bytes /\ (bytes > 0 => WholeBlocks(pos, bytes) > 0)
<1>1. (pos + bytes) % DiskBlock \in Nat
  BY Sizes
<1> DEFINE r == (pos + bytes) % DiskBlock
<1>2. WholeBlocks(pos, bytes) = IF bytes > r /\ r # 0 THEN bytes - r ELSE bytes
  BY DEF WholeBlocks
<1> HIDE DEF r
<1>3. r \in Nat
  BY <1>1 DEF r
<1> QED BY <1>2, <1>3

LEMMA ContiguousPart ==
  ASSUME NEW q \in Queue, NEW n \in 0..Size
  PROVE  Contiguous(q, n) \in 0..n /\ (n > 0 => Contiguous(q, n) > 0)
<1>1. ConsumerPosition(q) \in 0..Size - 1
  BY AmountType
<1> QED BY <1>1, Sizes DEF Contiguous

\* The writer takes a part of what it saw, and nothing only if there is nothing.
LEMMA WriterPart ==
  ASSUME Types
  PROVE  WriterBytes \in 0..drainer.bytes /\ (drainer.bytes > 0 => WriterBytes > 0)
<1> DEFINE b == Contiguous(data, drainer.bytes)
<1>1. /\ drainer.pos \in Nat /\ drainer.bytes \in 0..Size /\ data \in Queue
  BY Sizes DEF Types, TypeOK
<1>2. b \in 0..drainer.bytes /\ (drainer.bytes > 0 => b > 0)
  BY <1>1, ContiguousPart
<1>3. b \in Nat
  BY <1>1, <1>2
<1> HIDE DEF b
<1>4. WholeBlocks(drainer.pos, b) \in 0..b /\ (b > 0 => WholeBlocks(drainer.pos, b) > 0)
  BY <1>1, <1>3, WholeBlocksPart
<1>5. WriterBytes = IF drainer.pos + b # Size THEN WholeBlocks(drainer.pos, b) ELSE b
  BY DEF WriterBytes, b
<1> QED BY <1>1, <1>2, <1>4, <1>5

\* The dispatcher cuts a part of what it saw, and nothing only if there is nothing.
LEMMA CutPart ==
  ASSUME Types, NEW n \in CutBytes
  PROVE  n \in 0..drainer.bytes /\ (drainer.bytes > 0 => n > 0)
<1>1. drainer.bytes \in 0..Size
  BY DEF Types, TypeOK
<1>2. PICK size \in {s \in 1..MaxSlice : s % NetBlock = 0} :
        LET most == IF drainer.bytes > size THEN size ELSE drainer.bytes
        IN  n = IF most > NetBlock THEN most - (most % NetBlock) ELSE most
  BY DEF CutBytes
<1> DEFINE most == IF drainer.bytes > size THEN size ELSE drainer.bytes
<1>3. most \in 0..drainer.bytes /\ (drainer.bytes > 0 => most > 0)
  BY <1>1, Sizes
<1>4. most % NetBlock \in 0..NetBlock - 1
  BY <1>1, <1>3, Sizes
<1>5. n = IF most > NetBlock THEN most - (most % NetBlock) ELSE most
  BY <1>2
<1> HIDE DEF most
<1> DEFINE r == most % NetBlock
<1>6. r \in 0..NetBlock - 1 /\ n = IF most > NetBlock THEN most - r ELSE most
  BY <1>4, <1>5
<1> HIDE DEF r
<1>7. n >= 0 /\ n <= drainer.bytes /\ n \in Int /\ (drainer.bytes > 0 => n > 0)
  BY <1>1, <1>3, <1>6, Sizes
<1> QED BY <1>7, <1>1

\* What the filling thread takes is in what it saw.
LEMMA FillPart ==
  ASSUME Types, FillerCovered, filler.pc = "got",
         NEW n \in IF side = "sender" THEN Readable ELSE SliceBytes(length - filled)
  PROVE  n \in 1..filler.bytes /\ filled + n <= length
<1>1. /\ filler.pos \in Nat /\ filler.bytes \in 0..Size /\ free \in Queue
      /\ filled \in Nat /\ length \in Nat
  BY Sizes DEF Types, TypeOK
<1>2. CASE side = "sender"
  <2> DEFINE b == Contiguous(free, filler.bytes)
  <2>1. b \in 0..filler.bytes /\ b \in Nat
    BY <1>1, ContiguousPart
  <2>2. n \in {k \in 1..WholeBlocks(filler.pos, b) : k <= length - filled}
    BY <1>2 DEF Readable
  <2> HIDE DEF b
  <2>3. WholeBlocks(filler.pos, b) \in 0..b
    BY <1>1, <2>1, WholeBlocksPart
  <2> QED BY <1>1, <2>1, <2>2, <2>3
<1>3. CASE side = "receiver"
  BY <1>1, <1>3, Sizes DEF SliceBytes, FillerCovered
<1> QED BY <1>2, <1>3 DEF Types

-----------------------------------------------------------------------------
(* Safety: the accounting of the memory and the wakeups.                    *)

LEMMA SafeInit == Init => SafeInv
<1> SUFFICES ASSUME Init PROVE SafeInv
  OBVIOUS
<1>1. NewQueue \in Queue /\ ProducedAmount(NewQueue) = 0 /\ ~NewQueue.asleep /\ ~NewQueue.atEnd
  BY Sizes DEF NewQueue, Queue, Positions, ProducedAmount
<1>2. /\ free \in Queue /\ ProducedAmount(free) = Size /\ ~free.asleep /\ ~free.atEnd
      /\ data \in Queue /\ ProducedAmount(data) = 0 /\ ~data.asleep
  <2>1. Size \in 0..Size /\ ProducedAmount(NewQueue) + Size <= Size
    BY <1>1, Sizes
  <2>2. /\ Produce(NewQueue, Size) \in Queue
        /\ ProducedAmount(Produce(NewQueue, Size)) = ProducedAmount(NewQueue) + Size
        /\ ~Produce(NewQueue, Size).asleep
        /\ Produce(NewQueue, Size).atEnd = NewQueue.atEnd
    BY <1>1, <2>1, ProduceAdds
  <2> QED BY <1>1, <2>2, Sizes DEF Init
<1>3. /\ filler = At("start", 0, 0) /\ drainer = At("start", 0, 0)
      /\ filled = 0 /\ fatal = FALSE /\ length \in Nat /\ side \in {"sender", "receiver"}
  BY FifoAssumption DEF Init
<1>4. Types
  BY <1>2, <1>3, Sizes DEF Types, TypeOK, At, FillerPlaces, DrainerPlaces
<1>5. Claimed = 0 /\ Taken = 0
  BY <1>3 DEF Claimed, Taken, At
<1> QED
  BY <1>2, <1>3, <1>4, <1>5, Sizes
  DEF SafeInv, FillerCovered, DrainerCovered, MemoryShared, InHand, Announced, NoLostWakeup, At

\* The amounts of the two queues and what the threads hold make up the ring.
LEMMA Amounts ==
  ASSUME SafeInv
  PROVE  /\ free \in Queue /\ data \in Queue
         /\ ProducedAmount(free) \in 0..Size /\ ProducedAmount(data) \in 0..Size
         /\ Claimed \in 0..Size /\ Taken \in 0..Size
         /\ ProducedAmount(free) + ProducedAmount(data) + Claimed + Taken = Size
<1>1. free \in Queue /\ data \in Queue
  BY DEF SafeInv, Types, TypeOK
<1>2. ProducedAmount(free) \in Nat /\ ProducedAmount(data) \in Nat
  BY <1>1, AmountType, Sizes
<1>3. Claimed \in 0..Size /\ Taken \in 0..Size
  BY Sizes DEF SafeInv, Types, TypeOK, Claimed, Taken
<1> QED BY <1>1, <1>2, <1>3, Sizes DEF SafeInv, MemoryShared, InHand

\* Asking a queue leaves its counters alone; a thread sleeps only when it is not satisfied.
LEMMA SafeFillWait ==
  ASSUME SafeInv, FillWait, filler.pc \in {"start", "sleep"}
  PROVE  SafeInv'
<1> USE Sizes, Amounts
<1>0. UNCHANGED <<side, length, data, ring, filled, drainer, out, fatal>>
  BY DEF FillWait
<1>1. /\ free' \in Queue /\ ProducedAmount(free') = ProducedAmount(free)
      /\ free'.atEnd = free.atEnd
      /\ free'.asleep => free'.consumerWaiting /\ ~Satisfied(free, FillMin)
  <2>1. CASE Satisfied(free, FillMin)
    BY <2>1, ReturnKeeps DEF FillWait
  <2>2. CASE ~Satisfied(free, FillMin)
    BY <2>2, SleepKeeps DEF FillWait
  <2> QED BY <2>1, <2>2
<1>2. \/ filler' = [filler EXCEPT !.pc = "sleep"]
      \/ /\ filler' = At("got", ConsumerPosition(free), ProducedAmount(free))
         /\ side = "receiver" => MaxSlice <= ProducedAmount(free)
  BY DEF FillWait, SafeInv, FillerCovered, Satisfied, FillMin
<1>3. ConsumerPosition(free) \in 0..Size - 1
  BY AmountType
<1>4. Types'
  <2>1. filler' \in [pc : FillerPlaces, pos : 0..Size - 1, bytes : 0..Size]
    BY <1>2, <1>3 DEF SafeInv, Types, At, FillerPlaces
  <2> QED BY <1>0, <1>1, <2>1 DEF SafeInv, Types, TypeOK
<1>5. FillerCovered' /\ DrainerCovered'
  BY <1>0, <1>1, <1>2 DEF SafeInv, Types, FillerCovered, DrainerCovered, At
<1>6. MemoryShared'
  <2>1. Claimed = 0 /\ Claimed' = 0 /\ Taken' = Taken
    BY <1>0, <1>2 DEF Claimed, Taken, At, SafeInv, Types
  <2> QED BY <1>0, <1>1, <2>1 DEF SafeInv, MemoryShared, InHand
<1>7. Announced' /\ NoLostWakeup'
  BY <1>0, <1>1 DEF SafeInv, Announced, NoLostWakeup, Satisfied, FillMin, DrainMin
<1> QED BY <1>4, <1>5, <1>6, <1>7 DEF SafeInv

LEMMA SafeDrainWait ==
  ASSUME SafeInv, DrainWait, drainer.pc \in {"start", "sleep"}
  PROVE  SafeInv'
<1> USE Sizes, Amounts
<1>0. UNCHANGED <<side, length, free, ring, filled, filler, out, fatal>>
  BY DEF DrainWait
<1>1. /\ data' \in Queue /\ ProducedAmount(data') = ProducedAmount(data)
      /\ data'.atEnd = data.atEnd
      /\ data'.asleep => data'.consumerWaiting /\ ~Satisfied(data, DrainMin)
  <2>1. CASE Satisfied(data, DrainMin)
    BY <2>1, ReturnKeeps DEF DrainWait
  <2>2. CASE ~Satisfied(data, DrainMin)
    BY <2>2, SleepKeeps DEF DrainWait
  <2> QED BY <2>1, <2>2
<1>2. \/ drainer' = [drainer EXCEPT !.pc = "sleep"]
      \/ drainer' = At("got", ConsumerPosition(data), ProducedAmount(data))
  BY DEF DrainWait
<1>3. ConsumerPosition(data) \in 0..Size - 1
  BY AmountType
<1>4. Types'
  <2>1. drainer' \in [pc : DrainerPlaces, pos : 0..Size - 1, bytes : 0..Size]
    BY <1>2, <1>3 DEF SafeInv, Types, At, DrainerPlaces
  <2> QED BY <1>0, <1>1, <2>1 DEF SafeInv, Types, TypeOK
<1>5. FillerCovered' /\ DrainerCovered'
  BY <1>0, <1>1, <1>2 DEF SafeInv, Types, FillerCovered, DrainerCovered, At
<1>6. MemoryShared'
  <2>1. Taken = 0 /\ Taken' = 0 /\ Claimed' = Claimed
    BY <1>0, <1>2 DEF Claimed, Taken, At, SafeInv, Types
  <2> QED BY <1>0, <1>1, <2>1 DEF SafeInv, MemoryShared, InHand
<1>7. Announced' /\ NoLostWakeup'
  BY <1>0, <1>1 DEF SafeInv, Announced, NoLostWakeup, Satisfied, FillMin, DrainMin
<1> QED BY <1>4, <1>5, <1>6, <1>7 DEF SafeInv

\* A step of the filling thread that leaves the queues alone: it takes, or it stores.
LEMMA SafeFillLocal ==
  ASSUME SafeInv, UNCHANGED <<side, length, queueVars, filled, drainer, fatal>>,
         filler' \in [pc : FillerPlaces, pos : 0..Size - 1, bytes : 0..Size],
         Claimed' = Claimed, FillerCovered'
  PROVE  SafeInv'
BY DEF SafeInv, Types, TypeOK, DrainerCovered, MemoryShared, InHand, Taken, Announced,
       NoLostWakeup, Satisfied, FillMin, DrainMin, queueVars

LEMMA SafeDrainLocal ==
  ASSUME SafeInv, UNCHANGED <<side, length, queueVars, filled, filler, fatal>>,
         drainer' \in [pc : DrainerPlaces, pos : 0..Size - 1, bytes : 0..Size],
         Taken' = Taken, DrainerCovered'
  PROVE  SafeInv'
BY DEF SafeInv, Types, TypeOK, FillerCovered, MemoryShared, InHand, Claimed, Announced,
       NoLostWakeup, Satisfied, FillMin, DrainMin, queueVars

\* The filling thread claims what it has seen to be free.
LEMMA SafeFillClaim == ASSUME SafeInv, FillClaim PROVE SafeInv'
<1> USE Sizes, Amounts
<1> DEFINE n == filler.bytes
<1>0. /\ UNCHANGED <<side, length, data, ring, filled, drainer, out, fatal>>
      /\ free' = Consumed(free, n)
      /\ filler' = [filler EXCEPT !.pc = IF side = "sender" THEN "store" ELSE "publish"]
      /\ filler.pc = "claim"
  BY DEF FillClaim
<1>1. n \in 0..Size /\ n <= ProducedAmount(free)
  BY <1>0 DEF SafeInv, Types, TypeOK, FillerCovered
<1>2. /\ free' \in Queue /\ ProducedAmount(free') = ProducedAmount(free) - n
      /\ free'.atEnd = free.atEnd /\ free'.asleep = free.asleep
      /\ free'.consumerWaiting = free.consumerWaiting
  BY <1>0, <1>1, ConsumedTakes
<1>3. Types'
  BY <1>0, <1>2 DEF SafeInv, Types, TypeOK, FillerPlaces
<1>4. FillerCovered' /\ DrainerCovered'
  BY <1>0, <1>2 DEF SafeInv, Types, FillerCovered, DrainerCovered
<1>5. MemoryShared'
  <2>1. Claimed = 0 /\ Claimed' = n /\ Taken' = Taken
    BY <1>0 DEF Claimed, Taken, SafeInv, Types
  <2> QED BY <1>0, <1>1, <1>2, <2>1 DEF SafeInv, MemoryShared, InHand
<1>6. Announced'
  BY <1>0, <1>2 DEF SafeInv, Announced
<1>7. NoLostWakeup'
  <2>1. FillMin \in Nat /\ FillMin' = FillMin /\ DrainMin' = DrainMin
    BY <1>0 DEF FillMin, DrainMin
  <2> QED BY <1>0, <1>1, <1>2, <2>1 DEF SafeInv, NoLostWakeup, Satisfied
<1> QED BY <1>3, <1>4, <1>5, <1>6, <1>7 DEF SafeInv

LEMMA SafeDrainConsumed == ASSUME SafeInv, DrainConsumed PROVE SafeInv'
<1> USE Sizes, Amounts
<1> DEFINE n == drainer.bytes
<1>0. /\ UNCHANGED <<side, length, free, ring, filled, filler, out, fatal>>
      /\ data' = Consumed(data, n)
      /\ drainer' = [drainer EXCEPT !.pc = IF side = "sender" THEN "write" ELSE "release"]
      /\ drainer.pc = "consumed"
  BY DEF DrainConsumed
<1>1. n \in 0..Size /\ n <= ProducedAmount(data)
  BY <1>0 DEF SafeInv, Types, TypeOK, DrainerCovered
<1>2. /\ data' \in Queue /\ ProducedAmount(data') = ProducedAmount(data) - n
      /\ data'.atEnd = data.atEnd /\ data'.asleep = data.asleep
      /\ data'.consumerWaiting = data.consumerWaiting
  BY <1>0, <1>1, ConsumedTakes
<1>3. Types'
  BY <1>0, <1>2 DEF SafeInv, Types, TypeOK, DrainerPlaces
<1>4. FillerCovered' /\ DrainerCovered'
  BY <1>0, <1>2 DEF SafeInv, Types, FillerCovered, DrainerCovered
<1>5. MemoryShared'
  <2>1. Taken = 0 /\ Taken' = n /\ Claimed' = Claimed
    BY <1>0 DEF Claimed, Taken, SafeInv, Types
  <2> QED BY <1>0, <1>1, <1>2, <2>1 DEF SafeInv, MemoryShared, InHand
<1>6. Announced'
  BY <1>0, <1>2 DEF SafeInv, Announced
<1>7. NoLostWakeup'
  <2>1. DrainMin \in Nat /\ FillMin' = FillMin /\ DrainMin' = DrainMin
    BY <1>0 DEF FillMin, DrainMin
  <2> QED BY <1>0, <1>1, <1>2, <2>1 DEF SafeInv, NoLostWakeup, Satisfied
<1> QED BY <1>3, <1>4, <1>5, <1>6, <1>7 DEF SafeInv

\* What was claimed fits into the data queue, which does not end the program.
LEMMA SafeFillPublish == ASSUME SafeInv, FillPublish PROVE SafeInv' /\ data' = Produce(data, filler.bytes)
<1> USE Sizes, Amounts
<1> DEFINE n == filler.bytes
<1>1. n \in 0..Size /\ Claimed = n /\ ProducedAmount(data) + n <= Size
  <2>1. Claimed = n
    BY DEF FillPublish, Claimed
  <2> QED BY <2>1
<1>2. /\ Produce(data, n) \in Queue /\ ~Overflows(data, n)
      /\ ProducedAmount(Produce(data, n)) = ProducedAmount(data) + n
      /\ Produce(data, n).atEnd = data.atEnd
      /\ ~Produce(data, n).asleep
  BY <1>1, ProduceAdds DEF SafeInv, Announced
<1>0. /\ UNCHANGED <<side, length, free, ring, drainer, out, fatal>>
      /\ data' = Produce(data, n) /\ filled' = filled + n
      /\ filler' = [filler EXCEPT !.pc = "start"]
      /\ filler.pc = "publish"
  BY <1>2 DEF FillPublish
<1>3. Types'
  BY <1>0, <1>1, <1>2 DEF SafeInv, Types, TypeOK, FillerPlaces
<1>4. FillerCovered' /\ DrainerCovered'
  <2>0. n \in Nat /\ filler.bytes \in Nat /\ drainer.bytes \in Nat
    BY <1>1 DEF SafeInv, Types
  <2>1. ProducedAmount(data') = ProducedAmount(data) + n /\ data'.atEnd = data.atEnd
    BY <1>0, <1>2
  <2>2. FillerCovered'
    BY <1>0, <2>0, <2>1 DEF SafeInv, Types, FillerCovered
  <2>3. DrainerCovered'
    BY <1>0, <2>0, <2>1 DEF SafeInv, Types, DrainerCovered
  <2> QED BY <2>2, <2>3
<1>5. MemoryShared'
  <2>1. Claimed' = 0 /\ Taken' = Taken
    BY <1>0 DEF Claimed, Taken, SafeInv, Types
  <2> QED BY <1>0, <1>1, <1>2, <2>1 DEF SafeInv, MemoryShared, InHand
<1>6. Announced' /\ NoLostWakeup'
  BY <1>0, <1>2 DEF SafeInv, Announced, NoLostWakeup, Satisfied, FillMin, DrainMin
<1> QED BY <1>0, <1>3, <1>4, <1>5, <1>6 DEF SafeInv

LEMMA SafeDrainRelease == ASSUME SafeInv, DrainRelease PROVE SafeInv' /\ free' = Produce(free, drainer.bytes)
<1> USE Sizes, Amounts
<1> DEFINE n == drainer.bytes
<1>1. n \in 0..Size /\ Taken = n /\ ProducedAmount(free) + n <= Size
  <2>1. Taken = n
    BY DEF DrainRelease, Taken
  <2> QED BY <2>1
<1>2. /\ Produce(free, n) \in Queue /\ ~Overflows(free, n)
      /\ ProducedAmount(Produce(free, n)) = ProducedAmount(free) + n
      /\ Produce(free, n).atEnd = free.atEnd
      /\ ~Produce(free, n).asleep
  BY <1>1, ProduceAdds DEF SafeInv, Announced
<1>0. /\ UNCHANGED <<side, length, data, ring, filled, filler, out, fatal>>
      /\ free' = Produce(free, n)
      /\ drainer' = [drainer EXCEPT !.pc = "start"]
      /\ drainer.pc = "release"
  BY <1>2 DEF DrainRelease
<1>3. Types'
  BY <1>0, <1>1, <1>2 DEF SafeInv, Types, TypeOK, DrainerPlaces
<1>4. FillerCovered' /\ DrainerCovered'
  <2>0. n \in Nat /\ filler.bytes \in Nat /\ drainer.bytes \in Nat
    BY <1>1 DEF SafeInv, Types
  <2>1. ProducedAmount(free') = ProducedAmount(free) + n /\ free'.atEnd = free.atEnd
    BY <1>0, <1>2
  <2>2. FillerCovered'
    BY <1>0, <2>0, <2>1 DEF SafeInv, Types, FillerCovered
  <2>3. DrainerCovered'
    BY <1>0, <2>0, <2>1 DEF SafeInv, Types, DrainerCovered
  <2> QED BY <2>2, <2>3
<1>5. MemoryShared'
  <2>1. Taken' = 0 /\ Claimed' = Claimed
    BY <1>0 DEF Claimed, Taken, SafeInv, Types
  <2> QED BY <1>0, <1>1, <1>2, <2>1 DEF SafeInv, MemoryShared, InHand
<1>6. Announced' /\ NoLostWakeup'
  BY <1>0, <1>2 DEF SafeInv, Announced, NoLostWakeup, Satisfied, FillMin, DrainMin
<1> QED BY <1>0, <1>3, <1>4, <1>5, <1>6 DEF SafeInv

\* The end of either queue.
LEMMA SafeFillEnd == ASSUME SafeInv, FillEnd PROVE SafeInv'
<1> USE Sizes, Amounts
<1>0. /\ UNCHANGED <<side, length, free, ring, filled, drainer, out, fatal>>
      /\ data' = ProduceEnd(data)
      /\ filler' = [filler EXCEPT !.pc = "done"]
      /\ filler.pc = "got"
  BY DEF FillEnd
<1>1. /\ data' \in Queue /\ ProducedAmount(data') = ProducedAmount(data) /\ ~data'.asleep
  BY <1>0, EndKeeps DEF SafeInv, Announced
<1>2. Types'
  BY <1>0, <1>1 DEF SafeInv, Types, TypeOK, FillerPlaces
<1>3. FillerCovered' /\ DrainerCovered'
  BY <1>0, <1>1 DEF SafeInv, Types, FillerCovered, DrainerCovered
<1>4. MemoryShared'
  <2>1. Claimed = 0 /\ Claimed' = 0 /\ Taken' = Taken
    BY <1>0 DEF Claimed, Taken, SafeInv, Types
  <2> QED BY <1>0, <1>1, <2>1 DEF SafeInv, MemoryShared, InHand
<1>5. Announced' /\ NoLostWakeup'
  BY <1>0, <1>1 DEF SafeInv, Announced, NoLostWakeup, Satisfied, FillMin, DrainMin
<1> QED BY <1>2, <1>3, <1>4, <1>5 DEF SafeInv

LEMMA SafeDrainEnd == ASSUME SafeInv, DrainEnd PROVE SafeInv'
<1> USE Sizes, Amounts
<1>0. /\ UNCHANGED <<side, length, data, ring, filled, filler, out, fatal>>
      /\ free' = ProduceEnd(free)
      /\ drainer' = [drainer EXCEPT !.pc = "done"]
      /\ drainer.pc = "end" /\ side = "sender"
  BY DEF DrainEnd, SafeInv, Types, DrainerCovered
<1>1. /\ free' \in Queue /\ ProducedAmount(free') = ProducedAmount(free) /\ ~free'.asleep
  BY <1>0, EndKeeps DEF SafeInv, Announced
<1>2. Types'
  BY <1>0, <1>1 DEF SafeInv, Types, TypeOK, DrainerPlaces
<1>3. FillerCovered' /\ DrainerCovered'
  BY <1>0, <1>1 DEF SafeInv, Types, FillerCovered, DrainerCovered
<1>4. MemoryShared'
  <2>1. Taken' = Taken /\ Claimed' = Claimed
    BY <1>0 DEF Claimed, Taken, SafeInv, Types
  <2> QED BY <1>0, <1>1, <2>1 DEF SafeInv, MemoryShared, InHand
<1>5. Announced' /\ NoLostWakeup'
  BY <1>0, <1>1 DEF SafeInv, Announced, NoLostWakeup, Satisfied, FillMin, DrainMin
<1> QED BY <1>2, <1>3, <1>4, <1>5 DEF SafeInv

\* The filling thread takes a part of what it saw; storing it changes no queue.
LEMMA SafeFillTake == ASSUME SafeInv, NEW n \in 1..Size, FillTake(n) PROVE SafeInv'
<1> USE Sizes, Amounts
<1>0. /\ UNCHANGED <<side, length, queueVars, ring, filled, drainer, out, fatal>>
      /\ filler' = [filler EXCEPT !.pc = IF side = "sender" THEN "claim" ELSE "store", !.bytes = n]
      /\ filler.pc = "got"
  BY DEF FillTake
<1>1. n \in 1..filler.bytes
  BY FillPart DEF SafeInv, FillTake
<1>2. filler.bytes \in Nat /\ filler.bytes <= ProducedAmount(free)
  BY <1>0 DEF SafeInv, Types, FillerCovered
<1>3. filler' \in [pc : FillerPlaces, pos : 0..Size - 1, bytes : 0..Size]
  <2>1. n \in 0..Size
    OBVIOUS
  <2> QED BY <1>0, <2>1 DEF SafeInv, Types, FillerPlaces
<1>4. Claimed' = Claimed
  BY <1>0 DEF Claimed, SafeInv, Types
<1>5. FillerCovered'
  <2>1. n <= ProducedAmount(free)
    BY <1>1, <1>2
  <2> QED BY <1>0, <2>1 DEF SafeInv, Types, FillerCovered, queueVars
<1> QED BY <1>0, <1>3, <1>4, <1>5, SafeFillLocal

LEMMA SafeFillStore == ASSUME SafeInv, FillStore PROVE SafeInv'
<1>0. /\ UNCHANGED <<side, length, queueVars, filled, drainer, out, fatal>>
      /\ filler' = [filler EXCEPT !.pc = IF side = "sender" THEN "publish" ELSE "claim"]
      /\ filler.pc = "store"
  BY DEF FillStore
<1>1. filler' \in [pc : FillerPlaces, pos : 0..Size - 1, bytes : 0..Size]
  BY <1>0 DEF SafeInv, Types, FillerPlaces
<1>2. Claimed' = Claimed
  BY <1>0 DEF Claimed, SafeInv, Types
<1>3. FillerCovered'
  BY <1>0 DEF SafeInv, Types, FillerCovered, queueVars
<1> QED BY <1>0, <1>1, <1>2, <1>3, SafeFillLocal

LEMMA SafeReaderStops == ASSUME SafeInv, ReaderStops PROVE SafeInv'
<1>0. /\ UNCHANGED <<side, length, queueVars, ring, filled, drainer, out, fatal>>
      /\ filler' = [filler EXCEPT !.pc = "done"]
      /\ filler.pc = "got"
  BY DEF ReaderStops
<1>1. filler' \in [pc : FillerPlaces, pos : 0..Size - 1, bytes : 0..Size]
  BY <1>0 DEF SafeInv, Types, FillerPlaces
<1>2. Claimed' = Claimed
  BY <1>0 DEF Claimed, SafeInv, Types
<1>3. FillerCovered'
  BY <1>0 DEF SafeInv, Types, FillerCovered, queueVars
<1> QED BY <1>0, <1>1, <1>2, <1>3, SafeFillLocal

\* So does the emptying thread.
LEMMA SafeDrainTake == ASSUME SafeInv, NEW n \in 0..Size, DrainTake(n) PROVE SafeInv'
<1> USE Sizes, Amounts
<1>0. /\ UNCHANGED <<side, length, queueVars, ring, filled, filler, out, fatal>>
      /\ drainer' = [drainer EXCEPT !.bytes = n,
                       !.pc = IF n = 0 THEN (IF side = "sender" THEN "end" ELSE "done")
                              ELSE IF side = "sender" THEN "consumed" ELSE "write"]
      /\ drainer.pc = "got"
      /\ IF side = "sender" THEN n \in CutBytes ELSE n = WriterBytes
  BY DEF DrainTake
<1>1. n \in 0..drainer.bytes
  BY <1>0, CutPart, WriterPart DEF SafeInv
<1>2. drainer.bytes \in Nat /\ drainer.bytes <= ProducedAmount(data)
  BY <1>0 DEF SafeInv, Types, DrainerCovered
<1>3. drainer' \in [pc : DrainerPlaces, pos : 0..Size - 1, bytes : 0..Size]
  BY <1>0 DEF SafeInv, Types, DrainerPlaces
<1>4. Taken = 0 /\ Taken' = 0
  BY <1>0 DEF Taken, SafeInv, Types
<1>5. DrainerCovered'
  <2>1. n <= ProducedAmount(data)
    BY <1>1, <1>2
  <2> QED BY <1>0, <2>1 DEF SafeInv, Types, DrainerCovered, queueVars
<1> QED BY <1>0, <1>3, <1>4, <1>5, SafeDrainLocal

LEMMA SafeDrainWrite == ASSUME SafeInv, DrainWrite PROVE SafeInv'
<1>0. /\ UNCHANGED <<side, length, queueVars, ring, filled, filler, fatal>>
      /\ drainer' = [drainer EXCEPT !.pc = IF side = "sender" THEN "release" ELSE "consumed"]
      /\ drainer.pc = "write"
  BY DEF DrainWrite
<1>1. drainer' \in [pc : DrainerPlaces, pos : 0..Size - 1, bytes : 0..Size]
  BY <1>0 DEF SafeInv, Types, DrainerPlaces
<1>2. Taken' = Taken
  BY <1>0 DEF Taken, SafeInv, Types
<1>3. DrainerCovered'
  BY <1>0 DEF SafeInv, Types, DrainerCovered, queueVars
<1> QED BY <1>0, <1>1, <1>2, <1>3, SafeDrainLocal

\* What the dispatcher abandons stays in its hand.
LEMMA SafeAbandon == ASSUME SafeInv, Abandon PROVE SafeInv'
<1>0. /\ UNCHANGED <<side, length, queueVars, ring, filled, filler, out, fatal>>
      /\ drainer' = [drainer EXCEPT !.pc = "end"]
      /\ drainer.pc \in {"write", "release"} /\ side = "sender"
  BY DEF Abandon
<1>1. drainer' \in [pc : DrainerPlaces, pos : 0..Size - 1, bytes : 0..Size]
  BY <1>0 DEF SafeInv, Types, DrainerPlaces
<1>2. Taken' = Taken
  BY <1>0 DEF Taken, SafeInv, Types
<1>3. DrainerCovered'
  BY <1>0 DEF SafeInv, Types, DrainerCovered, queueVars
<1> QED BY <1>0, <1>1, <1>2, <1>3, SafeDrainLocal

LEMMA SafeStep == ASSUME SafeInv, [Next]_fifoVars PROVE SafeInv'
<1>1. CASE FillAsk \/ FillSpurious
  BY <1>1, SafeFillWait DEF FillAsk, AskFree, FillSpurious
<1>2. CASE DrainAsk \/ DrainSpurious
  BY <1>2, SafeDrainWait DEF DrainAsk, AskData, DrainSpurious
<1>3. CASE ReaderStops \/ FillEnd \/ FillClaim \/ FillStore \/ FillPublish
  BY <1>3, SafeReaderStops, SafeFillEnd, SafeFillClaim, SafeFillStore, SafeFillPublish
<1>4. CASE \E n \in 1..Size : FillTake(n)
  BY <1>4, SafeFillTake
<1>5. CASE DrainConsumed \/ DrainWrite \/ DrainRelease \/ DrainEnd \/ Abandon
  BY <1>5, SafeDrainConsumed, SafeDrainWrite, SafeDrainRelease, SafeDrainEnd, SafeAbandon
<1>6. CASE \E n \in 0..Size : DrainTake(n)
  BY <1>6, SafeDrainTake
<1>7. CASE UNCHANGED fifoVars
  BY <1>7
  DEF fifoVars, queueVars, SafeInv, Types, TypeOK, FillerCovered, DrainerCovered, MemoryShared,
      InHand, Claimed, Taken, Announced, NoLostWakeup, Satisfied, FillMin, DrainMin
<1> QED BY <1>1, <1>2, <1>3, <1>4, <1>5, <1>6, <1>7 DEF Next, Filling, Draining, Done

LEMMA SafeInvariant == Spec => []SafeInv
<1>1. SafeInv /\ [Next]_fifoVars => SafeInv'
  BY SafeStep
<1> QED BY <1>1, SafeInit, PTL DEF Spec

\* For a ring of any size and any input: the counters modulo twice the size stay in range
\* and the overflow test never ends the program.
THEOREM CountersInRange == Spec => []TypeOK
<1>1. SafeInv => TypeOK
  BY DEF SafeInv, Types
<1> QED BY <1>1, SafeInvariant, PTL

\* The two queues share the ring exactly: no byte is free and full at once, none is lost.
THEOREM RingShared == Spec => []MemoryShared
<1>1. SafeInv => MemoryShared
  BY DEF SafeInv
<1> QED BY <1>1, SafeInvariant, PTL

\* The flag that saves a notification never loses one: nobody sleeps on what is there.
THEOREM WakeupsKept == Spec => []NoLostWakeup
<1>1. SafeInv => NoLostWakeup
  BY DEF SafeInv
<1> QED BY <1>1, SafeInvariant, PTL

-----------------------------------------------------------------------------
(* Order: what comes out is what went in.                                   *)

Reading == drainer.pc \notin {"end", "done"}

\* Where the next byte to come out lies, and how many bytes of the stream lie
\* there that are no longer, or still, in the data queue.
Start ==
  IF side = "sender" /\ drainer.pc = "write" THEN drainer.pos
  ELSE IF side = "receiver" /\ drainer.pc = "consumed" THEN Index(drainer.pos + drainer.bytes)
  ELSE Index(data.consumed)

Pending ==
  IF side = "sender" /\ drainer.pc = "write" THEN drainer.bytes
  ELSE IF side = "receiver" /\ drainer.pc = "consumed" THEN 0 - drainer.bytes ELSE 0

Unread == filled - Len(out)

\* The two queues and the two threads mean the same cells.
Places ==
  /\ free.consumed = Advanced(data.produced, Claimed)
  /\ filler.pc \in {"got", "claim", "store", "publish"} => filler.pos = Index(data.produced)
  /\ drainer.pc \in {"got", "consumed"} \/ (side = "receiver" /\ drainer.pc = "write")
       => drainer.pos = Index(data.consumed)
  /\ side = "sender" /\ drainer.pc = "write"
       => Index(data.consumed) = Index(drainer.pos + drainer.bytes)

Moving ==
  /\ filler.pc \in {"claim", "store", "publish"} => filler.bytes > 0
  /\ drainer.pc \in {"consumed", "write", "release"} => drainer.bytes > 0

Ending ==
  /\ data.atEnd => filler.pc = "done"
  /\ drainer.pc = "got" /\ drainer.bytes = 0 => data.atEnd /\ ProducedAmount(data) = 0

Counted ==
  /\ out \in Seq(Nat)
  /\ Unread >= 0 /\ Unread <= ProducedAmount(data) + Taken
  /\ Reading => Unread = ProducedAmount(data) + Pending

\* The cells hold the next bytes of the stream, and what is about to be published follows them.
Contents ==
  /\ ring \in [0..Size - 1 -> Nat]
  /\ Reading => \A c \in 0..Size - 1 :
       Offset(Start, c) < Unread => ring[c] = Len(out) + Offset(Start, c) + 1
  /\ filler.pc = "publish" \/ (side = "receiver" /\ filler.pc = "claim") => \A c \in 0..Size - 1 :
       Offset(filler.pos, c) < filler.bytes => ring[c] = filled + Offset(filler.pos, c) + 1

\* Inductive, relative to SafeInv.
OrderInv == Places /\ Moving /\ Ending /\ Counted /\ Contents

LEMMA OrderInit == Init => OrderInv
<1> SUFFICES ASSUME Init PROVE OrderInv
  OBVIOUS
<1> USE Sizes
<1>1. /\ NewQueue \in Queue /\ ProducedAmount(NewQueue) = 0 /\ ~NewQueue.atEnd
      /\ NewQueue.produced = 0 /\ NewQueue.consumed = 0
  BY DEF NewQueue, Queue, Positions, ProducedAmount
<1>2. Size \in 0..Size
  OBVIOUS
<1>3. Produce(NewQueue, Size).consumed = 0
  BY <1>1, <1>2, ProduceAdds
<1>4. /\ data = NewQueue /\ free.consumed = 0 /\ filled = 0 /\ out = <<>>
      /\ filler = At("start", 0, 0) /\ drainer = At("start", 0, 0)
      /\ ring = [i \in 0..Size - 1 |-> 0]
  BY <1>3 DEF Init
<1>5. filler.pc = "start" /\ drainer.pc = "start"
  BY <1>4 DEF At
<1>6. Claimed = 0 /\ Taken = 0 /\ Pending = 0
  BY <1>5 DEF Claimed, Taken, Pending
<1>7. Places
  BY <1>1, <1>4, <1>5, <1>6 DEF Places, Advanced
<1>8. Moving /\ Ending
  BY <1>1, <1>4, <1>5 DEF Moving, Ending
<1>9. Unread = 0
  BY <1>4 DEF Unread
<1>10. Counted
  BY <1>1, <1>4, <1>6, <1>9 DEF Counted
<1>11. Contents
  <2>1. \A c \in 0..Size - 1 : ~(Offset(Start, c) < Unread)
    BY <1>1, <1>4, <1>5, <1>9 DEF Start, Offset, Index
  <2> QED BY <1>4, <1>5, <2>1 DEF Contents
<1> QED BY <1>7, <1>8, <1>10, <1>11 DEF OrderInv

\* What lies in the ring ends where the filling thread puts the next bytes.
LEMMA Joined ==
  ASSUME SafeInv, OrderInv, Reading
  PROVE  /\ Start \in 0..Size - 1 /\ Unread \in 0..Size
         /\ Index(data.produced) \in 0..Size - 1
         /\ Index(Start + Unread) = Index(data.produced)
         /\ Unread + Claimed <= Size
         /\ side = "receiver" => Unread <= ProducedAmount(data)
<1> USE Sizes, Amounts
<1> DEFINE a == ProducedAmount(data) b == drainer.bytes c == Index(data.consumed)
           p == Index(data.produced)
<1>1. /\ c \in 0..Size - 1 /\ p \in 0..Size - 1 /\ a \in 0..Size /\ Index(c + a) = p
  BY AmountType, PositionMoves
<1>2. b \in 0..Size /\ drainer.pos \in 0..Size - 1
  BY DEF SafeInv, Types
<1>3. Unread = a + Pending /\ Unread >= 0 /\ Unread <= a + Taken
  BY DEF OrderInv, Counted
<1> DEFINE G == /\ Start \in 0..Size - 1 /\ Unread \in 0..Size /\ Index(Start + Unread) = p
                /\ Unread + Claimed <= Size /\ (side = "receiver" => Unread <= a)
<1>7. Claimed \in Nat
  OBVIOUS
<1>4. ASSUME side = "sender" /\ drainer.pc = "write" PROVE G
  <2>1. Start = drainer.pos /\ Unread = a + b /\ Taken = b /\ c = Index(drainer.pos + b)
    BY <1>3, <1>4 DEF Start, Pending, Taken, OrderInv, Places
  <2>2. a + b + Claimed <= Size
    BY <2>1
  <2> HIDE DEF a, b, c, p
  <2> QED BY <1>1, <1>2, <1>4, <1>7, <2>1, <2>2 DEF Index
<1>5. ASSUME side = "receiver" /\ drainer.pc = "consumed" PROVE G
  <2>1. Start = Index(drainer.pos + b) /\ Unread = a - b /\ Taken = 0 /\ c = drainer.pos /\ b <= a
    BY <1>3, <1>5, <1>2, <1>1 DEF Start, Pending, Taken, OrderInv, Places, SafeInv, DrainerCovered
  <2>2. a + Claimed <= Size
    OBVIOUS
  <2> HIDE DEF a, b, c, p
  <2>3. b \in Int /\ a \in Int /\ c \in 0..Size - 1 /\ b >= 0 /\ a <= Size
    BY <1>1, <1>2
  <2>4. Start \in 0..Size - 1 /\ Unread \in 0..Size /\ Unread <= a
    BY <2>1, <2>3 DEF Index
  <2>5. Index(Start + Unread) = Index(c + a)
    BY <2>1, <2>3 DEF Index
  <2> QED BY <1>1, <1>7, <2>1, <2>2, <2>3, <2>4, <2>5
<1>6. ASSUME ~(side = "sender" /\ drainer.pc = "write"), ~(side = "receiver" /\ drainer.pc = "consumed")
      PROVE  G
  <2>1. Start = c /\ Unread = a
    BY <1>1, <1>3, <1>6 DEF Start, Pending
  <2>2. a + Claimed <= Size
    OBVIOUS
  <2> HIDE DEF a, b, c, p
  <2> QED BY <1>1, <1>7, <2>1, <2>2
<1> QED BY <1>1, <1>4, <1>5, <1>6

\* A step that moves neither the emptying thread nor the bytes.
LEMMA StillOrder ==
  ASSUME OrderInv, UNCHANGED <<side, ring, filled, drainer, out>>,
         data'.produced = data.produced, data'.consumed = data.consumed,
         ProducedAmount(data') = ProducedAmount(data)
  PROVE  /\ Counted'
         /\ Start' = Start /\ Unread' = Unread /\ Reading' = Reading
BY DEF OrderInv, Counted, Unread, Pending, Taken, Start, Reading

LEMMA OrderFillWait ==
  ASSUME SafeInv, OrderInv, FillWait, filler.pc \in {"start", "sleep"}
  PROVE  OrderInv'
<1> USE Sizes, Amounts
<1>0. UNCHANGED <<side, length, data, ring, filled, drainer, out, fatal>>
  BY DEF FillWait
<1>1. free'.consumed = free.consumed
  <2>1. CASE Satisfied(free, FillMin)
    BY <2>1, ReturnKeeps DEF FillWait
  <2>2. CASE ~Satisfied(free, FillMin)
    BY <2>2, SleepKeeps DEF FillWait
  <2> QED BY <2>1, <2>2
<1>2. \/ filler' = [filler EXCEPT !.pc = "sleep"]
      \/ filler' = At("got", ConsumerPosition(free), ProducedAmount(free))
  BY DEF FillWait
<1>3. Claimed = 0 /\ Claimed' = 0 /\ data.produced \in Positions /\ filler'.pc \in {"sleep", "got"}
  BY <1>0, <1>2, AmountType DEF Claimed, At, SafeInv, Types
<1>4. free.consumed = data.produced /\ Advanced(data.produced, 0) = data.produced
  BY <1>3, PositionMoves DEF OrderInv, Places
<1>5. Places'
  <2>1. filler'.pc = "got" => filler'.pos = Index(data.produced)
    BY <1>2, <1>4 DEF At, ConsumerPosition, SafeInv, Types
  <2> QED BY <1>0, <1>1, <1>3, <1>4, <2>1 DEF OrderInv, Places
<1>6. ~data.atEnd
  BY DEF OrderInv, Ending
<1>7. Moving' /\ Ending'
  BY <1>0, <1>3, <1>6 DEF OrderInv, Moving, Ending
<1>8. Counted' /\ Start' = Start /\ Unread' = Unread /\ Reading' = Reading
  BY <1>0, StillOrder
<1>9. Contents'
  BY <1>0, <1>3, <1>8 DEF OrderInv, Contents
<1> QED BY <1>5, <1>7, <1>8, <1>9 DEF OrderInv

LEMMA OrderFillLocal ==
  ASSUME SafeInv, OrderInv,
         UNCHANGED <<side, length, queueVars, ring, filled, drainer, out, fatal>>,
         filler.pc = "got", filler'.pc \in {"claim", "store", "done"}, filler'.pos = filler.pos,
         filler'.pc = "done" \/ filler'.bytes > 0,
         filler'.pc = "claim" => side = "sender", filler'.pc = "store" => side = "receiver"
  PROVE  OrderInv'
<1>1. Claimed' = 0 /\ Claimed = 0
  BY DEF Claimed
<1>2. Places'
  BY <1>1 DEF OrderInv, Places, queueVars
<1>3. ~data.atEnd
  BY DEF OrderInv, Ending
<1>4. Moving' /\ Ending'
  BY <1>3 DEF OrderInv, Moving, Ending, queueVars
<1>5. Counted' /\ Start' = Start /\ Unread' = Unread /\ Reading' = Reading
  BY StillOrder DEF queueVars
<1>6. Contents'
  BY <1>5 DEF OrderInv, Contents
<1> QED BY <1>2, <1>4, <1>5, <1>6 DEF OrderInv

LEMMA OrderFillTake ==
  ASSUME SafeInv, OrderInv, NEW n \in 1..Size, FillTake(n)
  PROVE  OrderInv'
<1>1. /\ UNCHANGED <<side, length, queueVars, ring, filled, drainer, out, fatal>>
      /\ filler' = [filler EXCEPT !.pc = IF side = "sender" THEN "claim" ELSE "store", !.bytes = n]
      /\ filler.pc = "got"
  BY DEF FillTake
<1>2. /\ filler'.pc \in {"claim", "store"} /\ filler'.pos = filler.pos /\ filler'.bytes = n
      /\ filler'.pc = "claim" => side = "sender"
      /\ filler'.pc = "store" => side = "receiver"
  BY <1>1 DEF SafeInv, Types
<1>3. n > 0
  BY Sizes
<1> QED BY <1>1, <1>2, <1>3, OrderFillLocal

LEMMA OrderReaderStops == ASSUME SafeInv, OrderInv, ReaderStops PROVE OrderInv'
<1>1. /\ UNCHANGED <<side, length, queueVars, ring, filled, drainer, out, fatal>>
      /\ filler' = [filler EXCEPT !.pc = "done"] /\ filler.pc = "got"
  BY DEF ReaderStops
<1>2. filler'.pc = "done" /\ filler'.pos = filler.pos
  BY <1>1 DEF SafeInv, Types
<1> QED BY <1>1, <1>2, OrderFillLocal

LEMMA OrderFillEnd == ASSUME SafeInv, OrderInv, FillEnd PROVE OrderInv'
<1> USE Amounts
<1>0. /\ UNCHANGED <<side, length, free, ring, filled, drainer, out, fatal>>
      /\ data' = ProduceEnd(data)
      /\ filler' = [filler EXCEPT !.pc = "done"]
      /\ filler.pc = "got"
  BY DEF FillEnd
<1>1. /\ data'.produced = data.produced /\ data'.consumed = data.consumed /\ data'.atEnd
      /\ ProducedAmount(data') = ProducedAmount(data)
  BY <1>0, EndKeeps
<1>2. filler'.pc = "done" /\ Claimed = 0 /\ Claimed' = 0
  BY <1>0 DEF SafeInv, Types, Claimed
<1>3. Places'
  BY <1>0, <1>1, <1>2 DEF OrderInv, Places
<1>4. Moving' /\ Ending'
  BY <1>0, <1>1, <1>2 DEF OrderInv, Moving, Ending
<1>5. Counted' /\ Start' = Start /\ Unread' = Unread /\ Reading' = Reading
  BY <1>0, <1>1, StillOrder
<1>6. Contents'
  BY <1>0, <1>2, <1>5 DEF OrderInv, Contents
<1> QED BY <1>3, <1>4, <1>5, <1>6 DEF OrderInv

LEMMA OrderFillClaim == ASSUME SafeInv, OrderInv, FillClaim PROVE OrderInv'
<1> USE Sizes, Amounts
<1> DEFINE n == filler.bytes
<1>0. /\ UNCHANGED <<side, length, data, ring, filled, drainer, out, fatal>>
      /\ free' = Consumed(free, n)
      /\ filler' = [filler EXCEPT !.pc = IF side = "sender" THEN "store" ELSE "publish"]
      /\ filler.pc = "claim"
  BY DEF FillClaim
<1>1. n \in 0..Size /\ n <= ProducedAmount(free)
  BY <1>0 DEF SafeInv, Types, TypeOK, FillerCovered
<1>2. free'.consumed = Advanced(free.consumed, n)
  BY <1>0, <1>1, ConsumedTakes
<1>3. /\ filler'.pc = IF side = "sender" THEN "store" ELSE "publish"
      /\ filler'.pos = filler.pos /\ filler'.bytes = n
      /\ side \in {"sender", "receiver"}
  BY <1>0 DEF SafeInv, Types
<1>4. Claimed = 0 /\ Claimed' = n /\ data.produced \in Positions
  BY <1>0, <1>3, AmountType DEF Claimed
<1>5. free.consumed = data.produced
  BY <1>4, PositionMoves DEF OrderInv, Places
<1>6. Places'
  BY <1>0, <1>2, <1>3, <1>4, <1>5 DEF OrderInv, Places
<1>7. Moving' /\ Ending'
  BY <1>0, <1>3 DEF OrderInv, Moving, Ending
<1>8. Counted' /\ Start' = Start /\ Unread' = Unread /\ Reading' = Reading
  BY <1>0, StillOrder
<1>9. Contents'
  BY <1>0, <1>3, <1>8 DEF OrderInv, Contents
<1> QED BY <1>6, <1>7, <1>8, <1>9 DEF OrderInv

\* The bytes are stored beyond the end of those that wait in the ring.
LEMMA OrderFillStore == ASSUME SafeInv, OrderInv, FillStore PROVE OrderInv'
<1> USE Sizes, Amounts
<1> DEFINE n == filler.bytes e == filler.pos
<1>0. /\ UNCHANGED <<side, length, free, data, filled, drainer, out, fatal>>
      /\ ring' = [c \in DOMAIN ring |->
           IF Offset(e, c) < n THEN filled + Offset(e, c) + 1 ELSE ring[c]]
      /\ filler' = [filler EXCEPT !.pc = IF side = "sender" THEN "publish" ELSE "claim"]
      /\ filler.pc = "store"
  BY DEF FillStore, queueVars
<1>1. /\ filler'.pc = IF side = "sender" THEN "publish" ELSE "claim"
      /\ filler'.pos = e /\ filler'.bytes = n
      /\ side \in {"sender", "receiver"}
      /\ e \in 0..Size - 1 /\ n \in 0..Size /\ filled \in Nat
  BY <1>0 DEF SafeInv, Types, TypeOK
<1>2. Claimed' = Claimed
  BY <1>0, <1>1 DEF Claimed
<1>3. Places'
  BY <1>0, <1>1, <1>2 DEF OrderInv, Places
<1>4. Moving' /\ Ending'
  BY <1>0, <1>1 DEF OrderInv, Moving, Ending
<1>5. /\ Counted'
      /\ Start' = Start /\ Unread' = Unread /\ Reading' = Reading
  BY <1>0 DEF OrderInv, Counted, Unread, Pending, Taken, Start, Reading
<1>6. Contents'
  <2>0. ring \in [0..Size - 1 -> Nat]
    BY DEF OrderInv, Contents
  <2>1. \A c \in 0..Size - 1 :
          ring'[c] = IF Offset(e, c) < n THEN filled + Offset(e, c) + 1 ELSE ring[c]
    BY <1>0, <2>0
  <2>2. ring' \in [0..Size - 1 -> Nat]
    <3>1. ASSUME NEW c \in 0..Size - 1
          PROVE  (IF Offset(e, c) < n THEN filled + Offset(e, c) + 1 ELSE ring[c]) \in Nat
      <4>1. e \in 0..Size - 1 /\ filled \in Nat
        BY <1>1
      <4>2. Offset(e, c) \in Nat
        BY <4>1 DEF Offset
      <4>3. ring[c] \in Nat
        BY <2>0
      <4> QED BY <4>1, <4>2, <4>3
    <3>2. DOMAIN ring = 0..Size - 1
      BY <2>0
    <3> QED BY <1>0, <3>1, <3>2
  <2>3. ASSUME Reading, NEW c \in 0..Size - 1, Offset(Start, c) < Unread
        PROVE  ring'[c] = Len(out) + Offset(Start, c) + 1
    <3>1. /\ Start \in 0..Size - 1 /\ Unread \in 0..Size /\ Index(Start + Unread) = e
      BY <2>3, <1>0, Joined DEF OrderInv, Places
    <3>2. Unread + n <= Size
      <4>1. CASE side = "sender"
        BY <4>1, <1>0, <1>1, <2>3, <3>1, Joined DEF Claimed
      <4>2. CASE side = "receiver"
        <5>1. n <= ProducedAmount(free) /\ Unread <= ProducedAmount(data)
          BY <4>2, <1>0, <2>3, Joined DEF SafeInv, FillerCovered
        <5> QED BY <1>1, <3>1, <5>1
      <4> QED BY <4>1, <4>2, <1>1
    <3>3. ~(Offset(e, c) < n)
      BY <1>1, <2>3, <3>1, <3>2 DEF Offset, Index
    <3>4. ring[c] = Len(out) + Offset(Start, c) + 1
      BY <2>3 DEF OrderInv, Contents
    <3> QED BY <2>1, <3>3, <3>4
  <2> QED BY <1>0, <1>1, <1>5, <2>1, <2>2, <2>3 DEF Contents
<1> QED BY <1>3, <1>4, <1>5, <1>6 DEF OrderInv

LEMMA OrderFillPublish ==
  ASSUME SafeInv, OrderInv, FillPublish
  PROVE  OrderInv' /\ filled' = filled + filler.bytes /\ filled' <= Len(out) + Size
                   /\ UNCHANGED <<out, drainer>> /\ data'.atEnd = data.atEnd
<1> USE Sizes, Amounts
<1> DEFINE n == filler.bytes e == filler.pos
<1>0. /\ UNCHANGED <<side, length, free, ring, drainer, out>>
      /\ data' = Produce(data, n) /\ filled' = filled + n
      /\ filler' = [filler EXCEPT !.pc = "start"]
      /\ filler.pc = "publish"
  BY SafeFillPublish DEF FillPublish
<1>1. /\ filler'.pc = "start" /\ Claimed = n /\ Claimed' = 0
      /\ e \in 0..Size - 1 /\ n \in 0..Size /\ filled \in Nat
  BY <1>0 DEF Claimed, SafeInv, Types, TypeOK
<1>2. ProducedAmount(data) + n <= Size
  BY <1>1
<1>3. /\ data'.produced = Advanced(data.produced, n) /\ data'.consumed = data.consumed
      /\ data'.atEnd = data.atEnd /\ ProducedAmount(data') = ProducedAmount(data) + n
  BY <1>0, <1>1, <1>2, ProduceAdds
<1>4. free.consumed = data'.produced /\ data'.produced \in Positions
  BY <1>1, <1>3, AmountType, PositionMoves DEF OrderInv, Places
<1>5. Places'
  <2>1. Advanced(data'.produced, 0) = data'.produced
    BY <1>4, PositionMoves
  <2> QED BY <1>0, <1>1, <1>3, <1>4, <2>1 DEF OrderInv, Places
<1>6. Moving' /\ Ending'
  <2>1. ~data.atEnd
    BY <1>0 DEF OrderInv, Ending
  <2>2. ~data'.atEnd
    BY <1>3, <2>1
  <2> QED BY <1>0, <1>1, <2>2, <2>1 DEF OrderInv, Moving, Ending
<1>7. /\ Start' = Start /\ Pending' = Pending /\ Taken' = Taken /\ Reading' = Reading
  BY <1>0, <1>3 DEF Pending, Taken, Start, Reading
<1>8. Unread \in Int /\ Len(out) \in Nat /\ Unread' = Unread + n
  <2>1. Len(out) \in Nat
    BY LenProperties DEF OrderInv, Counted
  <2>2. filled \in Int /\ n \in Int /\ filled' = filled + n /\ out' = out
    BY <1>0, <1>1
  <2> HIDE DEF n
  <2> QED BY <2>1, <2>2 DEF Unread
<1>9. Counted'
  <2>1. Pending \in Int
    BY DEF Pending, SafeInv, Types
  <2> DEFINE a == ProducedAmount(data) b == ProducedAmount(data')
  <2>2. a \in Int /\ b = a + n /\ Taken \in Int /\ n \in Int
    BY <1>1, <1>3
  <2>3. Unread >= 0 /\ Unread <= a + Taken /\ (Reading => Unread = a + Pending)
    BY DEF OrderInv, Counted
  <2> HIDE DEF a, b, n
  <2>4. Unread + n >= 0 /\ Unread + n <= b + Taken /\ (Reading => Unread + n = b + Pending)
    <3>1. n >= 0
      BY <1>1 DEF n
    <3> QED BY <1>8, <2>1, <2>2, <2>3, <3>1
  <2>5. out' \in Seq(Nat)
    BY <1>0 DEF OrderInv, Counted
  <2> QED BY <1>7, <1>8, <2>4, <2>5 DEF Counted, b
<1>10. Contents'
  <2>1. ASSUME Reading, NEW c \in 0..Size - 1, Offset(Start, c) < Unread + n
        PROVE  ring[c] = Len(out) + Offset(Start, c) + 1
    <3>1. /\ Start \in 0..Size - 1 /\ Unread \in 0..Size /\ Index(Start + Unread) = e
          /\ Unread + n <= Size
      BY <2>1, <1>0, <1>1, Joined DEF OrderInv, Places
    <3>2. CASE Offset(Start, c) < Unread
      BY <2>1, <3>2 DEF OrderInv, Contents
    <3>3. CASE ~(Offset(Start, c) < Unread)
      <4>1. Offset(e, c) = Offset(Start, c) - Unread /\ Offset(e, c) < n
        BY <1>1, <2>1, <3>1, <3>3 DEF Offset, Index
      <4>2. ring[c] = filled + Offset(e, c) + 1
        BY <1>0, <4>1 DEF OrderInv, Contents
      <4>3. Offset(Start, c) \in Int
        BY <3>1 DEF Offset
      <4> QED BY <1>1, <1>8, <3>1, <4>1, <4>2, <4>3 DEF Unread
    <3> QED BY <3>2, <3>3
  <2> QED BY <1>0, <1>1, <1>7, <1>8, <2>1 DEF OrderInv, Contents
<1>11. filled' <= Len(out) + Size
  <2>1. Unread <= ProducedAmount(data) + Taken
    BY DEF OrderInv, Counted
  <2>2. Unread + n <= Size
    BY <1>1, <1>8, <2>1
  <2>3. filled' = filled + n /\ filled \in Int /\ n \in Int /\ Len(out) \in Int
    BY <1>0, <1>1, <1>8
  <2> HIDE DEF n
  <2> QED BY <2>2, <2>3, Sizes DEF Unread
<1> QED BY <1>0, <1>3, <1>5, <1>6, <1>9, <1>10, <1>11 DEF OrderInv

-----------------------------------------------------------------------------
(* The emptying thread. *)

\* A step that moves neither the filling thread nor the bytes: what it has to show is
\* where the next byte lies, and how many lie there.
LEMMA StillFilled ==
  ASSUME OrderInv, UNCHANGED <<side, ring, filled, filler, out>>,
         free'.consumed = free.consumed, data'.produced = data.produced,
         Reading' => Reading /\ Start' = Start
  PROVE  /\ Contents' /\ Unread' = Unread
         /\ free'.consumed = Advanced(data'.produced, Claimed')
         /\ filler'.pc \in {"got", "claim", "store", "publish"} => filler'.pos = Index(data'.produced)
         /\ filler'.pc \in {"claim", "store", "publish"} => filler'.bytes > 0
<1>1. Claimed' = Claimed /\ Unread' = Unread
  BY DEF Claimed, Unread
<1>2. Contents'
  BY <1>1 DEF OrderInv, Contents
<1> QED BY <1>1, <1>2 DEF OrderInv, Places, Moving

LEMMA OrderDrainWait ==
  ASSUME SafeInv, OrderInv, DrainWait, drainer.pc \in {"start", "sleep"}
  PROVE  OrderInv'
<1> USE Sizes, Amounts
<1>0. UNCHANGED <<side, length, free, ring, filled, filler, out, fatal>>
  BY DEF DrainWait
<1>1. /\ data'.produced = data.produced /\ data'.consumed = data.consumed
      /\ data'.atEnd = data.atEnd /\ ProducedAmount(data') = ProducedAmount(data)
  <2>1. CASE Satisfied(data, DrainMin)
    BY <2>1, ReturnKeeps DEF DrainWait
  <2>2. CASE ~Satisfied(data, DrainMin)
    BY <2>2, SleepKeeps DEF DrainWait
  <2> QED BY <2>1, <2>2
<1>2. \/ drainer' = [drainer EXCEPT !.pc = "sleep"]
      \/ /\ drainer' = At("got", ConsumerPosition(data), ProducedAmount(data))
         /\ ProducedAmount(data) = 0 => data.atEnd
  <2>1. DrainMin > 0 /\ DrainMin \in Int
    BY DEF DrainMin
  <2>2. Satisfied(data, DrainMin) /\ ProducedAmount(data) = 0 => data.atEnd
    BY <2>1 DEF Satisfied
  <2> QED BY <2>2 DEF DrainWait
<1>3. /\ drainer'.pc \in {"sleep", "got"}
      /\ drainer'.pc = "got" => /\ drainer'.pos = Index(data.consumed)
                                /\ drainer'.bytes = ProducedAmount(data)
                                /\ ProducedAmount(data) = 0 => data.atEnd
  BY <1>2 DEF At, SafeInv, Types, ConsumerPosition
<1>4. Pending = 0 /\ Pending' = 0 /\ Start' = Start /\ Taken = 0 /\ Taken' = 0 /\ Reading /\ Reading'
  BY <1>0, <1>1, <1>3 DEF Pending, Start, Taken, Reading
<1>5. /\ Contents' /\ Unread' = Unread
      /\ free'.consumed = Advanced(data'.produced, Claimed')
      /\ filler'.pc \in {"got", "claim", "store", "publish"} => filler'.pos = Index(data'.produced)
      /\ filler'.pc \in {"claim", "store", "publish"} => filler'.bytes > 0
  BY <1>0, <1>1, <1>4, StillFilled
<1>6. Places'
  BY <1>0, <1>1, <1>3, <1>5 DEF Places
<1>7. Moving' /\ Ending'
  BY <1>0, <1>1, <1>3, <1>5 DEF OrderInv, Moving, Ending
<1>8. Counted'
  BY <1>0, <1>1, <1>4, <1>5 DEF OrderInv, Counted
<1> QED BY <1>5, <1>6, <1>7, <1>8 DEF OrderInv

\* Taking nothing means that there is nothing and that the end was announced.
LEMMA OrderDrainTake ==
  ASSUME SafeInv, OrderInv, NEW n \in 0..Size, DrainTake(n)
  PROVE  /\ OrderInv' /\ UNCHANGED <<filled, out, data>> /\ drainer.pc = "got" /\ drainer'.bytes = n
         /\ IF n = 0 THEN /\ drainer'.pc \in {"end", "done"}
                          /\ data.atEnd /\ Len(out) = filled
            ELSE drainer'.pc \in {"consumed", "write"}
<1> USE Sizes, Amounts
<1>0. /\ UNCHANGED <<side, length, free, data, ring, filled, filler, out, fatal>>
      /\ drainer' = [drainer EXCEPT !.bytes = n,
                       !.pc = IF n = 0 THEN (IF side = "sender" THEN "end" ELSE "done")
                              ELSE IF side = "sender" THEN "consumed" ELSE "write"]
      /\ drainer.pc = "got"
  BY DEF DrainTake, queueVars
<1>1. drainer.bytes > 0 => n > 0
  BY CutPart, WriterPart DEF SafeInv, DrainTake
<1>2. /\ drainer'.pc = IF n = 0 THEN (IF side = "sender" THEN "end" ELSE "done")
                       ELSE IF side = "sender" THEN "consumed" ELSE "write"
      /\ drainer'.pos = drainer.pos /\ drainer'.bytes = n
      /\ side \in {"sender", "receiver"} /\ drainer.bytes \in Nat
  BY <1>0 DEF SafeInv, Types
<1>3. Pending = 0 /\ Pending' = 0 /\ Taken = 0 /\ Taken' = 0 /\ Reading /\ (Reading' => Start' = Start)
  BY <1>0, <1>2 DEF Pending, Start, Taken, Reading
<1>4. /\ Contents' /\ Unread' = Unread
      /\ free'.consumed = Advanced(data'.produced, Claimed')
      /\ filler'.pc \in {"got", "claim", "store", "publish"} => filler'.pos = Index(data'.produced)
      /\ filler'.pc \in {"claim", "store", "publish"} => filler'.bytes > 0
  BY <1>0, <1>3, StillFilled
<1>5. Places'
  BY <1>0, <1>2, <1>4 DEF OrderInv, Places
<1>6. Moving' /\ Ending'
  BY <1>0, <1>2, <1>4 DEF OrderInv, Moving, Ending
<1>7. Counted'
  BY <1>0, <1>3, <1>4 DEF OrderInv, Counted
<1>8. n = 0 => data.atEnd /\ Len(out) = filled
  <2>1. ASSUME n = 0 PROVE data.atEnd /\ Unread = 0
    BY <2>1, <1>0, <1>1, <1>2, <1>3 DEF OrderInv, Ending, Counted
  <2>2. filled \in Nat /\ Len(out) \in Nat
    BY LenProperties DEF SafeInv, Types, TypeOK, OrderInv, Counted
  <2> QED BY <2>1, <2>2 DEF Unread
<1> QED BY <1>0, <1>2, <1>4, <1>5, <1>6, <1>7, <1>8 DEF OrderInv

LEMMA OrderDrainConsumed == ASSUME SafeInv, OrderInv, DrainConsumed PROVE OrderInv'
<1> USE Sizes, Amounts
<1> DEFINE n == drainer.bytes
<1>0. /\ UNCHANGED <<side, length, free, ring, filled, filler, out, fatal>>
      /\ data' = Consumed(data, n)
      /\ drainer' = [drainer EXCEPT !.pc = IF side = "sender" THEN "write" ELSE "release"]
      /\ drainer.pc = "consumed"
  BY DEF DrainConsumed
<1>1. n \in 0..Size /\ n <= ProducedAmount(data)
  BY <1>0 DEF SafeInv, Types, TypeOK, DrainerCovered
<1>2. /\ data'.produced = data.produced /\ data'.consumed = Advanced(data.consumed, n)
      /\ data'.atEnd = data.atEnd /\ ProducedAmount(data') = ProducedAmount(data) - n
  BY <1>0, <1>1, ConsumedTakes
<1>3. /\ drainer'.pc = IF side = "sender" THEN "write" ELSE "release"
      /\ drainer'.pos = drainer.pos /\ drainer'.bytes = n
      /\ side \in {"sender", "receiver"}
  BY <1>0 DEF SafeInv, Types
<1>4. Index(data'.consumed) = Index(drainer.pos + n) /\ drainer.pos = Index(data.consumed)
  <2>1. drainer.pos = Index(data.consumed)
    BY <1>0 DEF OrderInv, Places
  <2>2. data.consumed \in Positions
    BY AmountType
  <2>3. Index(Advanced(data.consumed, n)) = Index(Index(data.consumed) + n)
    BY <1>1, <2>2, PositionMoves
  <2> QED BY <1>2, <2>1, <2>3
<1>5. /\ Start' = Start /\ Reading /\ Reading' /\ Taken = 0 /\ Taken' = n
  BY <1>0, <1>3, <1>4 DEF Start, Reading, Taken
<1>6. Pending' = Pending + n
  BY <1>0, <1>1, <1>3 DEF Pending
<1>7. /\ Contents' /\ Unread' = Unread
      /\ free'.consumed = Advanced(data'.produced, Claimed')
      /\ filler'.pc \in {"got", "claim", "store", "publish"} => filler'.pos = Index(data'.produced)
      /\ filler'.pc \in {"claim", "store", "publish"} => filler'.bytes > 0
  BY <1>0, <1>2, <1>5, StillFilled
<1>8. Places'
  BY <1>0, <1>3, <1>4, <1>7 DEF Places
<1>9. Moving' /\ Ending'
  BY <1>0, <1>2, <1>3, <1>7 DEF OrderInv, Moving, Ending
<1>10. Counted'
  <2> DEFINE a == ProducedAmount(data) b == ProducedAmount(data')
  <2>1. a \in Int /\ b = a - n /\ n \in Int /\ Pending \in Int
    BY <1>1, <1>2 DEF Pending
  <2>2. Unread >= 0 /\ Unread <= a + Taken /\ Unread = a + Pending
    BY <1>5 DEF OrderInv, Counted
  <2>3. out' \in Seq(Nat)
    BY <1>0 DEF OrderInv, Counted
  <2> HIDE DEF a, b, n
  <2>4. Unread >= 0 /\ Unread <= b + Taken' /\ Unread = b + Pending'
    BY <1>5, <1>6, <2>1, <2>2
  <2> QED BY <1>7, <2>3, <2>4 DEF Counted, b
<1> QED BY <1>7, <1>8, <1>9, <1>10 DEF OrderInv

\* A region that begins n cells later has its cells n places earlier.
LEMMA RegionShifts ==
  ASSUME NEW p \in 0..Size - 1, NEW n \in 0..Size, NEW k \in 0..Size, NEW c \in 0..Size - 1,
         n <= k, Offset(Index(p + n), c) < k - n
  PROVE  /\ Offset(p, c) = n + Offset(Index(p + n), c)
         /\ Offset(p, c) < k
         /\ Offset(Index(p + n), c) \in Int
BY Sizes DEF Offset, Index

LEMMA RegionCell ==
  ASSUME NEW p \in 0..Size - 1, NEW i \in 0..Size - 1
  PROVE  Cell(p, i) \in 0..Size - 1 /\ Offset(p, Cell(p, i)) = i
BY Sizes DEF Cell, Offset, Index

\* What is written is the next bytes of the stream.
LEMMA OrderDrainWrite ==
  ASSUME SafeInv, OrderInv, DrainWrite
  PROVE  /\ OrderInv' /\ UNCHANGED <<filled, data>>
         /\ drainer.pc = "write" /\ drainer'.pc \in {"release", "consumed"}
         /\ Len(out') = Len(out) + drainer.bytes /\ Len(out') \in Len(out) + 1..filled
         /\ out' = out \o [i \in 1..drainer.bytes |-> Len(out) + i]
<1> USE Sizes, Amounts
<1> DEFINE n == drainer.bytes
<1>0. /\ UNCHANGED <<side, length, free, data, ring, filled, filler, fatal>>
      /\ out' = out \o [i \in 1..n |-> ring[Cell(drainer.pos, i - 1)]]
      /\ drainer' = [drainer EXCEPT !.pc = IF side = "sender" THEN "release" ELSE "consumed"]
      /\ drainer.pc = "write"
  BY DEF DrainWrite, queueVars
<1>1. /\ drainer'.pc = IF side = "sender" THEN "release" ELSE "consumed"
      /\ drainer'.pos = drainer.pos /\ drainer'.bytes = n
      /\ side \in {"sender", "receiver"} /\ n \in 0..Size /\ n > 0 /\ filled \in Nat
      /\ drainer.pos \in 0..Size - 1
  BY <1>0 DEF SafeInv, Types, TypeOK, OrderInv, Moving
<1>2. /\ Start = drainer.pos /\ Start' = Index(drainer.pos + n)
      /\ Reading /\ Reading'
  <2>1. CASE side = "sender"
    BY <1>0, <1>1, <2>1 DEF Start, Reading, OrderInv, Places
  <2>2. CASE side = "receiver"
    BY <1>0, <1>1, <2>2 DEF Start, Reading, OrderInv, Places
  <2> QED BY <1>1, <2>1, <2>2
<1>3. Pending' = Pending - n /\ Pending \in Int /\ Taken' = Taken
  BY <1>0, <1>1 DEF Pending, Taken
<1>4. /\ Unread \in 0..Size /\ Len(out) \in Nat /\ n <= Unread
  <2>1. Unread = ProducedAmount(data) + Pending /\ Unread \in 0..Size
    BY <1>2, Joined DEF OrderInv, Counted
  <2>2. n <= ProducedAmount(data) + Pending
    BY <1>0, <1>1 DEF Pending, SafeInv, DrainerCovered
  <2> QED BY <2>1, <2>2, LenProperties DEF OrderInv, Counted
<1>5. \A i \in 1..n : ring[Cell(drainer.pos, i - 1)] = Len(out) + i
  <2> TAKE i \in 1..n
  <2> DEFINE c == Cell(drainer.pos, i - 1)
  <2>1. i \in Int /\ i >= 1 /\ i <= n /\ n <= Size
    BY <1>1
  <2>2. i - 1 \in 0..Size - 1
    BY <2>1, <1>1
  <2>3. c \in 0..Size - 1 /\ Offset(Start, c) = i - 1
    BY <1>1, <1>2, <2>2, RegionCell
  <2>4. Offset(Start, c) < Unread
    BY <1>1, <1>4, <2>1, <2>3
  <2>5. ring[c] = Len(out) + Offset(Start, c) + 1
    BY <1>2, <2>3, <2>4 DEF OrderInv, Contents
  <2> QED BY <1>4, <2>1, <2>3, <2>5
<1> DEFINE new == [i \in 1..n |-> Len(out) + i]
<1>6. out' = out \o new
  BY <1>0, <1>5
<1>7. new \in Seq(Nat) /\ Len(new) = n
  <2>1. n \in Nat
    BY <1>1
  <2>2. \A i \in 1..n : Len(out) + i \in Nat
    BY <1>4, <2>1
  <2> HIDE DEF n
  <2> QED BY <2>1, <2>2
<1>8. out' \in Seq(Nat) /\ Len(out') = Len(out) + n
  BY <1>6, <1>7, ConcatProperties DEF OrderInv, Counted
<1>9. Unread' = Unread - n
  <2>1. filled' = filled /\ filled \in Int /\ n \in Int
    BY <1>0, <1>1
  <2> HIDE DEF n
  <2> QED BY <1>4, <1>8, <2>1 DEF Unread
<1>10. Places'
  BY <1>0, <1>1 DEF OrderInv, Places, Claimed
<1>11. Moving' /\ Ending'
  BY <1>0, <1>1 DEF OrderInv, Moving, Ending
<1>12. Counted'
  <2> DEFINE a == ProducedAmount(data)
  <2>1. a \in Int /\ Taken \in Int /\ n \in Int /\ a' = a
    BY <1>0, <1>1
  <2>2. Unread <= a + Taken /\ Unread = a + Pending
    BY <1>2 DEF OrderInv, Counted
  <2> HIDE DEF a, n
  <2>3. Unread' >= 0 /\ Unread' <= a + Taken' /\ Unread' = a + Pending'
    <3>1. n >= 0
      BY <1>1 DEF n
    <3> QED BY <1>3, <1>4, <1>9, <2>1, <2>2, <3>1
  <2> QED BY <1>8, <2>1, <2>3 DEF Counted, a
<1>13. Contents'
  <2>1. ASSUME NEW c \in 0..Size - 1, Offset(Start', c) < Unread - n
        PROVE  ring[c] = Len(out) + n + Offset(Start', c) + 1
    <3>1. /\ Offset(Start, c) = n + Offset(Start', c) /\ Offset(Start, c) < Unread
          /\ Offset(Start', c) \in Int
      <4>1. Offset(Index(drainer.pos + n), c) < Unread - n
        BY <1>2, <2>1
      <4>2. n \in 0..Size /\ n <= Unread /\ Unread \in 0..Size /\ drainer.pos \in 0..Size - 1
        BY <1>1, <1>4
      <4> HIDE DEF n
      <4>3. /\ Offset(drainer.pos, c) = n + Offset(Index(drainer.pos + n), c)
            /\ Offset(drainer.pos, c) < Unread
            /\ Offset(Index(drainer.pos + n), c) \in Int
        BY <4>1, <4>2, RegionShifts
      <4> QED BY <1>2, <4>3
    <3>2. ring[c] = Len(out) + Offset(Start, c) + 1
      BY <1>2, <3>1 DEF OrderInv, Contents
    <3> QED BY <1>1, <1>4, <3>1, <3>2
  <2> QED BY <1>0, <1>8, <1>9, <2>1 DEF OrderInv, Contents
<1>14. Len(out') \in Len(out) + 1..filled
  <2>1. Len(out) + n <= filled
    BY <1>1, <1>4 DEF Unread
  <2> QED BY <1>1, <1>4, <1>8, <2>1
<1> QED BY <1>0, <1>1, <1>6, <1>8, <1>10, <1>11, <1>12, <1>13, <1>14 DEF OrderInv

LEMMA OrderDrainRelease == ASSUME SafeInv, OrderInv, DrainRelease PROVE OrderInv'
<1> USE Sizes, Amounts
<1> DEFINE n == drainer.bytes
<1>0. /\ UNCHANGED <<side, length, data, ring, filled, filler, out>>
      /\ free' = Produce(free, n)
      /\ drainer' = [drainer EXCEPT !.pc = "start"]
      /\ drainer.pc = "release"
  BY SafeDrainRelease DEF DrainRelease
<1>1. n \in 0..Size /\ Taken = n /\ drainer'.pc = "start" /\ Taken' = 0
  BY <1>0 DEF SafeInv, Types, Taken
<1>2. free'.consumed = free.consumed
  BY <1>0, <1>1, ProduceAdds
<1>3. Pending = 0 /\ Pending' = 0 /\ Start' = Start /\ Reading /\ Reading'
  BY <1>0, <1>1 DEF Pending, Start, Reading
<1>4. /\ Contents' /\ Unread' = Unread
      /\ free'.consumed = Advanced(data'.produced, Claimed')
      /\ filler'.pc \in {"got", "claim", "store", "publish"} => filler'.pos = Index(data'.produced)
      /\ filler'.pc \in {"claim", "store", "publish"} => filler'.bytes > 0
  BY <1>0, <1>2, <1>3, StillFilled
<1>5. Places'
  BY <1>0, <1>1, <1>4 DEF Places
<1>6. Moving' /\ Ending'
  BY <1>0, <1>1, <1>4 DEF OrderInv, Moving, Ending
<1>7. Counted'
  BY <1>0, <1>1, <1>3, <1>4 DEF OrderInv, Counted
<1> QED BY <1>4, <1>5, <1>6, <1>7 DEF OrderInv

\* The dispatcher leaves its loop, having read the end or not.
LEMMA OrderAbandon == ASSUME SafeInv, OrderInv, Abandon PROVE OrderInv'
<1>0. /\ UNCHANGED <<side, length, free, data, ring, filled, filler, out>>
      /\ drainer' = [drainer EXCEPT !.pc = "end"]
      /\ drainer.pc \in {"write", "release"} /\ side = "sender"
  BY DEF Abandon, queueVars
<1>1. drainer'.pc = "end" /\ drainer'.bytes = drainer.bytes
  BY <1>0 DEF SafeInv, Types
<1>2. ~Reading' /\ Taken' = Taken
  BY <1>0, <1>1 DEF Reading, Taken
<1>3. /\ Contents' /\ Unread' = Unread
      /\ free'.consumed = Advanced(data'.produced, Claimed')
      /\ filler'.pc \in {"got", "claim", "store", "publish"} => filler'.pos = Index(data'.produced)
      /\ filler'.pc \in {"claim", "store", "publish"} => filler'.bytes > 0
  BY <1>0, <1>2, StillFilled
<1>4. Places' /\ Moving' /\ Ending'
  BY <1>0, <1>1, <1>3 DEF OrderInv, Places, Moving, Ending
<1>5. Counted'
  BY <1>0, <1>2, <1>3 DEF OrderInv, Counted
<1> QED BY <1>3, <1>4, <1>5 DEF OrderInv

LEMMA OrderDrainEnd == ASSUME SafeInv, OrderInv, DrainEnd PROVE OrderInv'
<1>0. /\ UNCHANGED <<side, length, data, ring, filled, filler, out>>
      /\ free' = ProduceEnd(free)
      /\ drainer' = [drainer EXCEPT !.pc = "done"]
      /\ drainer.pc = "end" /\ side = "sender"
  BY DEF DrainEnd, SafeInv, Types, DrainerCovered
<1>1. drainer'.pc = "done" /\ drainer'.bytes = drainer.bytes
  BY <1>0 DEF SafeInv, Types
<1>2. ~Reading' /\ Taken' = Taken
  BY <1>0, <1>1 DEF Reading, Taken
<1>3. free'.consumed = free.consumed
  BY <1>0, Amounts, EndKeeps
<1>4. /\ Contents' /\ Unread' = Unread
      /\ free'.consumed = Advanced(data'.produced, Claimed')
      /\ filler'.pc \in {"got", "claim", "store", "publish"} => filler'.pos = Index(data'.produced)
      /\ filler'.pc \in {"claim", "store", "publish"} => filler'.bytes > 0
  BY <1>0, <1>2, <1>3, StillFilled
<1>5. Places' /\ Moving' /\ Ending'
  BY <1>0, <1>1, <1>4 DEF OrderInv, Places, Moving, Ending
<1>6. Counted'
  BY <1>0, <1>2, <1>4 DEF OrderInv, Counted
<1> QED BY <1>4, <1>5, <1>6 DEF OrderInv

LEMMA OrderStep == ASSUME SafeInv, OrderInv, [Next]_fifoVars PROVE OrderInv'
<1>1. CASE FillAsk \/ FillSpurious
  BY <1>1, OrderFillWait DEF FillAsk, AskFree, FillSpurious
<1>2. CASE DrainAsk \/ DrainSpurious
  BY <1>2, OrderDrainWait DEF DrainAsk, AskData, DrainSpurious
<1>3. CASE ReaderStops \/ FillEnd \/ FillClaim \/ FillStore \/ FillPublish
  BY <1>3, OrderReaderStops, OrderFillEnd, OrderFillClaim, OrderFillStore, OrderFillPublish
<1>4. CASE \E n \in 1..Size : FillTake(n)
  BY <1>4, OrderFillTake
<1>5. CASE DrainConsumed \/ DrainWrite \/ DrainRelease \/ DrainEnd \/ Abandon
  BY <1>5, OrderDrainConsumed, OrderDrainWrite, OrderDrainRelease, OrderDrainEnd, OrderAbandon
<1>6. CASE \E n \in 0..Size : DrainTake(n)
  BY <1>6, OrderDrainTake
<1>7. CASE UNCHANGED fifoVars
  <2>1. UNCHANGED <<side, length, free, data, ring, filled, filler, drainer, out>>
    BY <1>7 DEF fifoVars, queueVars
  <2> QED BY <2>1
    DEF OrderInv, Places, Moving, Ending, Counted, Contents, Reading, Start, Pending, Unread, Claimed, Taken
<1> QED BY <1>1, <1>2, <1>3, <1>4, <1>5, <1>6, <1>7 DEF Next, Filling, Draining, Done

LEMMA OrderInvariant == Spec => [](SafeInv /\ OrderInv)
<1>1. (SafeInv /\ OrderInv) /\ [Next]_fifoVars => (SafeInv /\ OrderInv)'
  BY SafeStep, OrderStep
<1>2. Init => SafeInv /\ OrderInv
  BY SafeInit, OrderInit
<1> QED BY <1>1, <1>2, PTL DEF Spec

-----------------------------------------------------------------------------
(* The refinement. *)

LEMMA StreamInitial == Init => S!StreamInit
BY DEF Init, S!StreamInit, Reader, NewQueue, At

\* What any other step does to the stream: nothing.
LEMMA Unseen ==
  ASSUME UNCHANGED <<side, filled, out>>, data'.atEnd = data.atEnd,
         Reader' = Reader
  PROVE  UNCHANGED S!streamVars
BY DEF S!streamVars

LEMMA StreamStep == ASSUME SafeInv, OrderInv, [Next]_fifoVars PROVE [S!StreamNext]_(S!streamVars)
<1> USE Sizes, Amounts
<1>1. CASE FillAsk \/ FillSpurious
  <2>1. FillWait
    BY <1>1 DEF FillAsk, FillSpurious
  <2> QED BY <2>1, Unseen DEF FillWait, Reader
<1>2. CASE DrainAsk \/ DrainSpurious
  <2>1. DrainWait /\ drainer.pc \in {"start", "sleep"}
    BY <1>2 DEF DrainAsk, AskData, DrainSpurious
  <2>2. data'.atEnd = data.atEnd
    <3>1. CASE Satisfied(data, DrainMin)
      BY <2>1, <3>1, ReturnKeeps DEF DrainWait
    <3>2. CASE ~Satisfied(data, DrainMin)
      BY <2>1, <3>2, SleepKeeps DEF DrainWait
    <3> QED BY <3>1, <3>2
  <2>3. drainer'.pc \in {"sleep", "got"}
    BY <2>1 DEF DrainWait, At, SafeInv, Types
  <2> QED BY <2>1, <2>2, <2>3, Unseen DEF DrainWait, Reader
<1>3. CASE ReaderStops \/ FillClaim \/ FillStore \/ \E n \in 1..Size : FillTake(n)
  BY <1>3, Unseen DEF ReaderStops, FillClaim, FillStore, FillTake, queueVars, Reader
<1>4. CASE FillEnd
  <2>1. data'.atEnd /\ UNCHANGED <<filled, out, drainer>>
    BY <1>4, EndKeeps DEF FillEnd
  <2>2. data'.atEnd = TRUE
    <3>1. data' \in Queue
      BY <1>4, EndKeeps DEF FillEnd
    <3> QED BY <2>1, <3>1 DEF Queue
  <2>3. S!Close
    BY <2>1, <2>2 DEF S!Close, Reader
  <2> QED BY <2>3 DEF S!StreamNext
<1>5. CASE FillPublish
  <2>1. /\ filled' = filled + filler.bytes /\ filled' <= Len(out) + Size
        /\ UNCHANGED <<out, drainer>> /\ data'.atEnd = data.atEnd
    BY <1>5, OrderFillPublish
  <2>2. filler.bytes \in Nat /\ filler.bytes > 0 /\ ~data.atEnd /\ filled \in Nat /\ Len(out) \in Nat
    BY <1>5, LenProperties DEF FillPublish, OrderInv, Moving, Ending, Counted, SafeInv, Types, TypeOK
  <2>3. filled' \in filled + 1..Len(out) + Size
    BY <2>1, <2>2
  <2>4. S!Accept
    BY <2>1, <2>2, <2>3 DEF S!Accept, Reader
  <2> QED BY <2>4 DEF S!StreamNext
<1>6. CASE DrainWrite
  <2>1. /\ UNCHANGED <<filled, data>>
        /\ drainer.pc = "write" /\ drainer'.pc \in {"release", "consumed"}
        /\ Len(out') = Len(out) + drainer.bytes /\ Len(out') \in Len(out) + 1..filled
        /\ out' = out \o [i \in 1..drainer.bytes |-> Len(out) + i]
    BY <1>6, OrderDrainWrite
  <2>2. Len(out') - Len(out) = drainer.bytes
    BY <2>1, LenProperties DEF OrderInv, Counted, SafeInv, Types
  <2>3. Reader = "reading" /\ Reader' = "reading"
    BY <2>1 DEF Reader
  <2>4. S!Deliver
    BY <2>1, <2>2, <2>3 DEF S!Deliver
  <2> QED BY <2>4 DEF S!StreamNext
<1>7. CASE \E n \in 0..Size : DrainTake(n)
  <2>1. PICK n \in 0..Size : DrainTake(n)
    BY <1>7
  <2>2. /\ UNCHANGED <<filled, out, data>> /\ drainer.pc = "got" /\ drainer'.bytes = n
        /\ IF n = 0 THEN /\ drainer'.pc \in {"end", "done"}
                         /\ data.atEnd /\ Len(out) = filled
           ELSE drainer'.pc \in {"consumed", "write"}
    BY <2>1, OrderDrainTake
  <2>3. Reader = "reading" /\ Reader' = IF n = 0 THEN "finished" ELSE "reading"
    BY <2>2 DEF Reader
  <2>4. CASE n = 0
    <3>1. S!Finish
      BY <2>2, <2>3, <2>4 DEF S!Finish
    <3> QED BY <3>1 DEF S!StreamNext
  <2>5. CASE n # 0
    BY <2>2, <2>3, <2>5 DEF S!streamVars
  <2> QED BY <2>4, <2>5
<1>8. CASE DrainConsumed
  <2>1. data'.atEnd = data.atEnd
    <3>1. drainer.bytes \in 0..Size /\ drainer.bytes <= ProducedAmount(data)
      BY <1>8 DEF DrainConsumed, SafeInv, Types, DrainerCovered
    <3> QED BY <1>8, <3>1, ConsumedTakes DEF DrainConsumed
  <2>2. drainer.pc = "consumed" /\ drainer'.pc \in {"write", "release"}
    BY <1>8 DEF DrainConsumed, SafeInv, Types
  <2> QED BY <1>8, <2>1, <2>2, Unseen DEF DrainConsumed, Reader
<1>9. CASE DrainRelease
  <2>1. drainer.pc = "release" /\ drainer'.pc = "start" /\ UNCHANGED <<filled, out, data, side>>
    BY <1>9 DEF DrainRelease, SafeInv, Types
  <2> QED BY <2>1, Unseen DEF Reader
<1>10. CASE DrainEnd
  <2>1. /\ drainer.pc = "end" /\ drainer'.pc = "done" /\ drainer'.bytes = drainer.bytes
        /\ UNCHANGED <<filled, out, data, side>>
    BY <1>10 DEF DrainEnd, SafeInv, Types
  <2> QED BY <2>1, Unseen DEF Reader
<1>11. CASE Abandon
  <2>1. /\ drainer.pc \in {"write", "release"} /\ drainer'.pc = "end"
        /\ drainer'.bytes = drainer.bytes /\ drainer.bytes # 0
        /\ UNCHANGED <<filled, out, data, side>>
    BY <1>11 DEF Abandon, queueVars, SafeInv, Types, OrderInv, Moving
  <2>2. Reader = "reading" /\ Reader' = "gone"
    BY <2>1 DEF Reader
  <2>3. S!Leave
    BY <2>1, <2>2 DEF S!Leave
  <2> QED BY <2>3 DEF S!StreamNext
<1>12. CASE UNCHANGED fifoVars
  BY <1>12, Unseen DEF fifoVars, queueVars, Reader
<1> QED BY <1>1, <1>2, <1>3, <1>4, <1>5, <1>6, <1>7, <1>8, <1>9, <1>10, <1>11, <1>12
  DEF Next, Filling, Draining, Done

\* On either side, for any ring, blocks and input: what comes out of the ring is the stream that
\* went in, in order and without a gap, and its end is announced after the last byte.
THEOREM FifoIsStream == Spec => ImplementsStream
<1>1. SafeInv /\ OrderInv /\ [Next]_fifoVars => [S!StreamNext]_(S!streamVars)
  BY StreamStep
<1> QED BY <1>1, StreamInitial, OrderInvariant, PTL DEF Spec, ImplementsStream, S!Spec
=============================================================================
