---------------------------- MODULE Produconsum ----------------------------
(***************************************************************************)
(* The produce/consume queue (produconsum.rs): two counters that run       *)
(* modulo twice the size of the buffer, an end flag, and a condition       *)
(* variable for its one consumer.  A queue is a record; each operator is   *)
(* what a method does to it while it holds the queue's mutex.              *)
(***************************************************************************)
EXTENDS Integers

CONSTANT Size   \* bytes the buffer holds

ASSUME SizeAssumption == Size \in Nat \ {0}

Positions == 0..2 * Size - 1

\* asleep: the consumer is in the wait of the condition variable and no
\* notification has reached it.
Queue == [produced : Positions, consumed : Positions, atEnd : BOOLEAN,
          consumerWaiting : BOOLEAN, asleep : BOOLEAN]

NewQueue == [produced |-> 0, consumed |-> 0, atEnd |-> FALSE,
             consumerWaiting |-> FALSE, asleep |-> FALSE]

\* Mutant: one lap of the buffer instead of two.
ProducedAmountOneLap(q) ==
  IF q.produced < q.consumed THEN q.produced + Size - q.consumed
  ELSE q.produced - q.consumed

ProducedAmount(q) ==
  IF q.produced < q.consumed THEN q.produced + 2 * Size - q.consumed
  ELSE q.produced - q.consumed

\* A position is an index into the buffer once it is taken modulo its size;
\* it is below 2 * Size.
Index(p) == IF p < Size THEN p ELSE p - Size
ConsumerPosition(q) == Index(q.consumed)

-----------------------------------------------------------------------------
(* The producer. *)

Advanced(p, n) == IF p + n >= 2 * Size THEN p + n - 2 * Size ELSE p + n

\* The test that ends the program instead of overwriting the buffer.  The
\* code's consumed - size is computed in unsigned integers: below zero it wraps
\* to a number no position exceeds.
Overflows(q, n) ==
  \/ n > Size
  \/ Advanced(q.produced, n) > q.consumed + Size
  \/ /\ Advanced(q.produced, n) < q.consumed
     /\ q.consumed >= Size /\ Advanced(q.produced, n) > q.consumed - Size

\* notify_one is called only when the consumer said that it waits.
Notified(q) == [q EXCEPT !.asleep = @ /\ ~q.consumerWaiting]

\* Mutant: a consumer is told only of a queue that was empty.
ProduceQuietly(q, n) ==
  IF ProducedAmount(q) = 0 THEN Notified([q EXCEPT !.produced = Advanced(@, n)])
  ELSE [q EXCEPT !.produced = Advanced(@, n)]

Produce(q, n) == Notified([q EXCEPT !.produced = Advanced(@, n)])

\* Mutant: nobody is told of the end.
ProduceEndQuietly(q) == [q EXCEPT !.atEnd = TRUE]

ProduceEnd(q) == Notified([q EXCEPT !.atEnd = TRUE])

-----------------------------------------------------------------------------
(* The consumer. *)

\* consume returns at the end, or when there is as much as was asked for.
Satisfied(q, min) == ProducedAmount(q) >= min \/ q.atEnd

\* The wait releases the mutex the flag was set under.
Sleep(q)  == [q EXCEPT !.consumerWaiting = TRUE, !.asleep = TRUE]
Return(q) == [q EXCEPT !.consumerWaiting = FALSE, !.asleep = FALSE]

\* Mutant: off by one, the position after the last one is not the first.
ConsumedOneMore(q, n) ==
  [q EXCEPT !.consumed = IF @ > 2 * Size - n THEN @ + n - 2 * Size ELSE @ + n]

Consumed(q, n) ==
  [q EXCEPT !.consumed = IF @ >= 2 * Size - n THEN @ + n - 2 * Size ELSE @ + n]

\* consume_contiguous_min_amount: no more than up to the end of the buffer.
Contiguous(q, amount) ==
  LET l == Size - ConsumerPosition(q)
  IN  IF amount > l THEN l ELSE amount
=============================================================================
