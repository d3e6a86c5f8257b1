---------------------------- MODULE ReceiveData ----------------------------
(***************************************************************************)
(* One receiver's data phase (receivedata.rs): the network thread that     *)
(* collects slices in its ring and answers the sender, and the writer that *)
(* drains the ring into the output (diskio.rs).  A receiver is a record,   *)
(* each packet handler an operator that maps it to the receiver after the  *)
(* packet and the answers it sends.                                        *)
(*                                                                         *)
(* Blocks and positions are counted as in SendData.  The free memory queue *)
(* is consumed exactly when the data queue is produced, by the same        *)
(* amount, so one counter, produced, stands for both.                      *)
(***************************************************************************)
EXTENDS Fec, FiniteSets

CONSTANTS
  RecvRing,     \* blocks in the receiver's ring (4096)
  RecvSlots,    \* its slice table slots (8)
  WaitFree      \* blocks that must be free before a slice is opened (1024)

ASSUME RecvAssumption ==
  RecvRing \in Nat \ {0} /\ RecvSlots \in Nat \ {0} /\ WaitFree \in 1..RecvRing

\* have: the data blocks that are there; fec: the parity blocks, as they came.
FreeSlot == [state |-> "Free", no |-> -1, base |-> 0, of |-> 0, have |-> {},
             fec |-> <<>>, stripes |-> 0]

\* The phases of a receiver: "start" until its CONNECT_REPLY came, "run",
\* "drain" once the end marker is done, "exited" when the network thread is
\* gone, "finished" after a clean exit, "dead" after any other.
NewReceiver(phase) ==
  [phase |-> phase,
   slots |-> [i \in 1..RecvSlots |-> FreeSlot],
   completed |-> {},       \* slice numbers delivered to the writer
   late |-> <<>>,          \* slices seen before the CONNECT_REPLY
   started |-> FALSE,      \* a data phase packet was seen
   ring |-> [i \in 0..RecvRing - 1 |-> 0],
   produced |-> 0,         \* blocks handed to the writer
   out |-> <<>>,           \* what the writer wrote
   dataEnd |-> FALSE]      \* the data queue was ended

Ok(no)         == [type |-> "OK", no |-> no]
Retr(no, have) == [type |-> "RETR", no |-> no, have |-> have]
Disc           == [type |-> "DISC"]

\* DISCONNECT is sent five times on a failing exit, once on a clean one.
DisconnectRetries == 5
FailingDisconnect == [i \in 1..DisconnectRetries |-> Disc]

Step(R, answers) == [rcv |-> R, answers |-> answers]

Written(R)   == Len(R.out)
Unwritten(R) == R.produced - Written(R)

-----------------------------------------------------------------------------
(* The slice table. *)

FindSlot(R, no) == {i \in 1..RecvSlots : R.slots[i].state # "Free" /\ R.slots[i].no = no}

FirstIn(S) == {i \in S : \A j \in S : i <= j}
InState(R, st) == {i \in 1..RecvSlots : R.slots[i].state = st}

\* The slot for a new slice: a free one, else a delivered one is recycled.
SlotForNew(R) ==
  IF InState(R, "Free") # {} THEN FirstIn(InState(R, "Free")) ELSE FirstIn(InState(R, "Done"))

\* new_slice waits for free memory; it takes the region it is to fill from the
\* queue's position without claiming it.
MayOpen(R) == RecvRing - Unwritten(R) >= WaitFree

Open(R, i, no) ==
  [R EXCEPT !.slots[i] = [FreeSlot EXCEPT !.state = "Receiving", !.no = no, !.base = R.produced]]

\* The slot of slice no once find_slice or new_slice returned it, none if the
\* table has no room.
SlotOf(R, no) == IF FindSlot(R, no) # {} THEN FindSlot(R, no) ELSE SlotForNew(R)
WithSlot(R, i, no) == IF FindSlot(R, no) # {} THEN R ELSE Open(R, i, no)

\* The network thread sleeps in new_slice.
Blocked(R, no) == FindSlot(R, no) = {} /\ SlotForNew(R) # {} /\ ~MayOpen(R)

-----------------------------------------------------------------------------
(* complete_slice *)

\* Mutant: the end marker is trusted.
AssumeCompleted(R, no) == TRUE

\* Mutant: the end marker is waited for before it is completed.
UpToCompleted(R, no) == 0..no \subseteq R.completed

EarlierCompleted(R, no) == 0..no - 1 \subseteq R.completed

\* Mutant: a slice delivered before is delivered again.
CompleteAgain(R, i) ==
  LET sl == R.slots[i]
      D  == [R EXCEPT !.slots[i].state = "Done", !.completed = @ \cup {sl.no}]
  IN  IF sl.of > 0 THEN Step([D EXCEPT !.produced = @ + sl.of], <<Ok(sl.no)>>)
      ELSE Step([D EXCEPT !.dataEnd = @ \/ EarlierCompleted(R, sl.no)], <<Ok(sl.no)>>)

\* A produce beyond the ring's size is a fatal error.
Complete(R, i) ==
  LET sl == R.slots[i]
      D  == [R EXCEPT !.slots[i].state = "Done", !.completed = @ \cup {sl.no}]
  IN  IF sl.state = "Done" THEN Step(R, <<>>)
      ELSE IF sl.of > 0
           THEN IF Unwritten(R) + sl.of > RecvRing
                THEN Step([D EXCEPT !.phase = "dead"], <<>>)
                ELSE Step([D EXCEPT !.produced = @ + sl.of], <<Ok(sl.no)>>)
           ELSE Step([D EXCEPT !.dataEnd = @ \/ EarlierCompleted(R, sl.no)], <<Ok(sl.no)>>)

\* Mutant: one block short.
HasAllButOne(sl) == Cardinality(sl.have) + 1 >= sl.of

HasAll(sl) == Cardinality(sl.have) >= sl.of

-----------------------------------------------------------------------------
(* try_fec_recover *)

\* The blocks of a stripe, in order.
StripeBlocks(sl, stripe) ==
  [j \in 1..(sl.of - stripe + sl.stripes - 1) \div sl.stripes |-> stripe + (j - 1) * sl.stripes]

\* The elements q[k] of a sequence with wanted[k], in their order.
Those(q, wanted) ==
  LET upTo[k \in 0..Len(q)] ==
        IF k = 0 THEN <<>> ELSE IF wanted[k] THEN Append(upTo[k - 1], q[k]) ELSE upTo[k - 1]
  IN  upTo[Len(q)]

\* Their places in the stripe, from 0, that are still empty.
Erased(sl, stripe) ==
  LET blocks == StripeBlocks(sl, stripe)
  IN  Those([j \in 1..Len(blocks) |-> j - 1], [j \in 1..Len(blocks) |-> blocks[j] \notin sl.have])

\* Its parity blocks.
ParityOf(sl, stripe) ==
  LET mine == Those(sl.fec, [k \in 1..Len(sl.fec) |-> sl.fec[k].block % sl.stripes = stripe])
  IN  [k \in 1..Len(mine) |-> [row |-> mine[k].block \div sl.stripes, content |-> mine[k].content]]

\* The receiver with content found[e] in place erased[e] of a stripe.
Fill(R, i, blocks, erased, found) ==
  LET cell(b) == (R.slots[i].base + b) % RecvRing
      lost    == {blocks[erased[e] + 1] : e \in 1..Len(found)}
  IN  [R EXCEPT !.slots[i].have = @ \cup lost,
                !.ring = [c \in DOMAIN @ |->
                  IF \E b \in lost : c = cell(b)
                  THEN found[CHOOSE e \in 1..Len(found) : c = cell(blocks[erased[e] + 1])]
                  ELSE @[c]]]

\* As many parity blocks as blocks are missing are used, the first that came; when the
\* matrix is singular nothing is recovered.  Of the blocks that are there whole blocks
\* are decoded, as the ring holds them.
RecoverBlocks(R, i, blocks, erased, parity) ==
  IF erased = <<>> \/ Len(parity) < Len(erased) THEN R
  ELSE Fill(R, i, blocks, erased,
            FecDecode([j \in 1..Len(blocks) |-> R.ring[(R.slots[i].base + blocks[j]) % RecvRing]],
                      erased, SubSeq(parity, 1, Len(erased))))

RecoverStripe(R, i, stripe) ==
  RecoverBlocks(R, i, StripeBlocks(R.slots[i], stripe), Erased(R.slots[i], stripe),
                ParityOf(R.slots[i], stripe))

Recover(R, i) ==
  LET upTo[s \in 0..R.slots[i].stripes] ==
        IF s = 0 THEN R ELSE RecoverStripe(upTo[s - 1], i, s - 1)
  IN  upTo[R.slots[i].stripes]

\* The slice is delivered if it is whole.
Conclude(V, i) == IF HasAll(V.slots[i]) THEN Complete(V, i) ELSE Step(V, <<>>)

\* Mutant: one parity block more than is needed.
CheckCompleteLater(R, i) ==
  LET sl == R.slots[i]
  IN  IF sl.of = 0 THEN Step(R, <<>>)
      ELSE IF HasAll(sl) THEN Complete(R, i)
      ELSE IF Len(sl.fec) > sl.of - Cardinality(sl.have)
           THEN Conclude(Recover(R, i), i)
      ELSE Step(R, <<>>)

\* check_slice_complete
CheckComplete(R, i) ==
  LET sl == R.slots[i]
  IN  IF sl.of = 0 THEN Step(R, <<>>)
      ELSE IF HasAll(sl) THEN Complete(R, i)
      ELSE IF sl.fec # <<>> /\ Len(sl.fec) >= sl.of - Cardinality(sl.have)
           THEN Conclude(Recover(R, i), i)
      ELSE Step(R, <<>>)

-----------------------------------------------------------------------------
(* The packet handlers. *)

\* A data block.  Of a short one only the bytes that came are stored: behind them the
\* ring keeps what it had.
ProcessData(R, m) ==
  IF SlotOf(R, m.no) = {} THEN Step(R, <<>>)
  ELSE LET i == CHOOSE j \in SlotOf(R, m.no) : TRUE
           O == WithSlot(R, i, m.no)
           W == [O EXCEPT !.slots[i].of = m.of,
                          !.slots[i].have = @ \cup {m.block},
                          !.ring[(O.slots[i].base + m.block) % RecvRing] =
                            IF m.content = NoByte THEN @ ELSE m.content]
       IN  IF O.slots[i].state = "Done" \/ m.block \in O.slots[i].have THEN Step(O, <<>>)
           ELSE CheckComplete(W, i)

\* A parity block.  It is kept although it may have come before.
ProcessFec(R, m) ==
  IF SlotOf(R, m.no) = {} THEN Step(R, <<>>)
  ELSE LET i == CHOOSE j \in SlotOf(R, m.no) : TRUE
           O == WithSlot(R, i, m.no)
           W == [O EXCEPT !.slots[i].of = IF @ = 0 THEN m.of ELSE @,
                          !.slots[i].stripes = m.stripes,
                          !.slots[i].fec = Append(@, [block |-> m.block, content |-> m.content])]
       IN  IF O.slots[i].state = "Done" THEN Step(O, <<>>) ELSE CheckComplete(W, i)

\* Mutant: a REQACK of a slice whose slot was recycled opens the slice again.
ProcessReqackForgetting(R, m) ==
  IF SlotOf(R, m.no) = {} THEN Step(R, <<Ok(m.no)>>)
  ELSE LET i == CHOOSE j \in SlotOf(R, m.no) : TRUE
           O == WithSlot(R, i, m.no)
           B == [O EXCEPT !.slots[i].of = m.of]
           C == Complete(B, i)
       IN  IF HasAll(B.slots[i])
           THEN Step(C.rcv, <<Ok(m.no)>> \o C.answers)
           ELSE Step(B, <<Retr(m.no, B.slots[i].have)>>)

ProcessReqack(R, m) ==
  IF FindSlot(R, m.no) = {} /\ (m.no \in R.completed \/ SlotForNew(R) = {})
  THEN Step(R, <<Ok(m.no)>>)
  ELSE LET i == CHOOSE j \in SlotOf(R, m.no) : TRUE
           O == WithSlot(R, i, m.no)
           B == [O EXCEPT !.slots[i].of = m.of]
           C == Complete(B, i)
       IN  IF HasAll(B.slots[i])
           THEN Step(C.rcv, <<Ok(m.no)>> \o C.answers)
           ELSE Step(B, <<Retr(m.no, B.slots[i].have)>>)

\* A packet that can make the thread sleep in new_slice: not the REQACK of a
\* slice delivered earlier, which opens nothing.
Stalls(R, m) ==
  /\ m.type \in {"DATA", "FEC", "REQACK"}
  /\ Blocked(R, m.no)
  /\ ~(m.type = "REQACK" /\ m.no \in R.completed)

\* The loop notices the end once a slot holds a finished end marker.
AfterPacket(R) ==
  IF R.phase = "run" /\ \E i \in 1..RecvSlots : R.slots[i].state = "Done" /\ R.slots[i].of = 0
  THEN [R EXCEPT !.phase = "drain"] ELSE R

Process(R, m) ==
  CASE m.type = "DATA"   -> ProcessData(R, m)
    [] m.type = "FEC"    -> ProcessFec(R, m)
    [] m.type = "REQACK" -> ProcessReqack(R, m)

After(S) == Step(AfterPacket(S.rcv), S.answers)

\* The data phase loop; a repeated CONNECT_REPLY is ignored.
ProcessPacket(R, m) ==
  IF m.type = "REPLY" THEN After(Step(R, <<>>)) ELSE After(Process([R EXCEPT !.started = TRUE], m))

-----------------------------------------------------------------------------
(* The start phase (receiver.rs): the late-join sniffer notes the slices it *)
(* sees; the CONNECT_REPLY starts the data phase, whose slice table begins  *)
(* with the slices noted.                                                   *)

Note(R, m) ==
  LET old == {k \in 1..Len(R.late) : R.late[k].no = m.no}
  IN  IF old = {} THEN [R EXCEPT !.late = Append(@, [no |-> m.no, of |-> m.of])]
      ELSE [R EXCEPT !.late = [k \in 1..Len(@) |-> IF k \in old THEN [@[k] EXCEPT !.of = m.of] ELSE @[k]]]

Seed(R) ==
  LET seeded[k \in 0..Len(R.late)] ==
        IF k = 0 THEN [R EXCEPT !.phase = "run"]
        ELSE LET P == seeded[k - 1]
                 e == R.late[k]
             IN  IF SlotOf(P, e.no) = {} THEN P
                 ELSE LET i == CHOOSE j \in SlotOf(P, e.no) : TRUE
                      IN  [WithSlot(P, i, e.no) EXCEPT !.slots[i].of = e.of]
  IN  seeded[Len(R.late)]

StartPacket(R, m) == IF m.type = "REPLY" THEN Seed(R) ELSE Note(R, m)

-----------------------------------------------------------------------------
(* The writer and the ends of a receiver. *)

CanWrite(R) == R.phase \in {"run", "drain", "exited"} /\ Unwritten(R) > 0
WriteBlock(R) == [R EXCEPT !.out = Append(@, R.ring[Written(R) % RecvRing])]

\* Mutant: the writer returns at the end announced, not at the end of the data.
CanFinishEarly(R) == R.phase = "exited" /\ R.dataEnd

\* The writer returns at the end of the data; the main thread then waits for
\* the network thread.
CanFinish(R) == R.phase = "exited" /\ R.dataEnd /\ Unwritten(R) = 0
=============================================================================
