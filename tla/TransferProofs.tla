--------------------------- MODULE TransferProofs ---------------------------
(***************************************************************************)
(* What TLAPS proves of the whole data phase, for any number of receivers, *)
(* slices and blocks: half duplex, without parity, over a network that     *)
(* loses datagrams but does not duplicate them.                            *)
(*                                                                         *)
(* Neither side keeps the sizes of the slices that are through, so the     *)
(* invariants speak of a function start that is only known to exist: slice *)
(* no holds the blocks start[no] + 1 to start[no + 1] of the source.       *)
(***************************************************************************)
EXTENDS SendDataProofs, Transfer

Size(start, no) == start[no + 1] - start[no]

\* The first n slices cut the source up; only the last may be empty, the end marker.
Cuts(start, n) ==
  /\ start \in [Nat -> Nat] /\ start[0] = 0
  /\ \A i, j \in 0..n : i <= j => start[i] <= start[j]
  /\ \A i \in 0..n - 1 : Size(start, i) <= MaxSlice /\ (Size(start, i) = 0 => i = n - 1)

\* The slices the sender cut.
History(start) ==
  /\ Cuts(start, sliceNo) /\ start[sliceNo] = takenPos
  /\ \A i \in 0..sliceNo - 1 : Size(start, i) = 0 => atEnd
  /\ \A s \in Pending : slices[s].base = start[sliceNo - 1]

-----------------------------------------------------------------------------
(* Packets. *)

PacketType ==
  [type : {"REPLY"}]
  \cup [type : {"DATA"}, no : Nat, block : Nat, of : Nat, content : Nat]
  \cup [type : {"REQACK"}, no : Nat, of : Nat, rxmit : Nat]

AnswerType ==
  [type : {"OK"}, no : Nat] \cup [type : {"RETR"}, no : Nat, have : SUBSET Nat] \cup [type : {"DISC"}]

\* A packet tells the truth about the slice it names.
Truthful(m, start, n) ==
  m.type # "REPLY" =>
    /\ m.no \in 0..n - 1 /\ m.of = Size(start, m.no)
    /\ m.type = "DATA" => m.block < m.of /\ m.content = start[m.no] + m.block + 1

\* The slices a receiver has heard of.
Heard(R) == R.completed \cup {R.slots[i].no : i \in 1..RecvSlots}
Known(R) == Heard(R) \cup {R.late[k].no : k \in 1..Len(R.late)}

\* No slice it has heard of is newer than a packet on its way, and these come in order.
Channel(q, R, start, n) ==
  /\ \A i \in 1..Len(q) : Truthful(q[i], start, n)
  /\ \A i \in 1..Len(q) : q[i].type # "REPLY" => \A k \in Known(R) : k <= q[i].no
  /\ \A i, j \in 1..Len(q) :
       i < j /\ q[i].type # "REPLY" /\ q[j].type # "REPLY" => q[i].no <= q[j].no

-----------------------------------------------------------------------------
(* A receiver. *)

SlotType ==
  [state : {"Free", "Receiving", "Done"}, no : Int, base : Nat, of : Nat,
   have : SUBSET Nat, fec : {<<>>}, stripes : {0}]

ReceiverRecord ==
  [phase : {"start", "run", "drain", "exited", "finished", "dead"},
   slots : [1..RecvSlots -> SlotType], completed : SUBSET Nat,
   late : Seq([no : Nat, of : Nat]), started : BOOLEAN,
   ring : [0..RecvRing - 1 -> Nat], produced : Nat, out : Seq(Nat), dataEnd : BOOLEAN]

\* What a slot says of its slice is right.
SlotTruthful(sl, completed, start, n) ==
  \/ sl = FreeSlot
  \/ /\ sl.state = "Receiving" /\ sl.no \in 0..n - 1 /\ sl.no \notin completed
     /\ (sl.of = Size(start, sl.no) /\ sl.have \subseteq 0..sl.of - 1) \/ (sl.of = 0 /\ sl.have = {})
  \/ /\ sl.state = "Done" /\ sl.no \in completed /\ sl.of = Size(start, sl.no) /\ sl.have \subseteq 0..sl.of - 1

\* Every slice has one slot, and the newest delivered one keeps its slot.
SlotTable(R, start, n) ==
  /\ \A i \in 1..RecvSlots : SlotTruthful(R.slots[i], R.completed, start, n)
  /\ \A i, j \in 1..RecvSlots : R.slots[i].no = R.slots[j].no /\ R.slots[i].no >= 0 => i = j
  /\ R.completed \subseteq 0..n - 1
  /\ \A no \in R.completed : (\A k \in Heard(R) : k <= no) => FindSlot(R, no) # {}

\* Nothing was delivered that the slices delivered could not hold.
Delivered(R, start, n) ==
  /\ \A k \in 0..n : (\A no \in R.completed : no < k) => R.produced <= start[k]
  /\ Written(R) <= R.produced

\* The end of the data is announced with the end marker delivered and nothing before it
\* missing; the network thread ends with the end marker delivered.
Ends(R, start) ==
  /\ R.dataEnd => \E no \in R.completed : Size(start, no) = 0 /\ 0..no \subseteq R.completed
  /\ R.phase \in {"drain", "exited", "finished"} => \E no \in R.completed : Size(start, no) = 0
  /\ R.phase = "finished" => R.dataEnd /\ Written(R) = R.produced

\* A late receiver has noted slices and done nothing yet.
Late(R, start, n) ==
  /\ \A k \in 1..Len(R.late) : R.late[k].no < n /\ R.late[k].of = Size(start, R.late[k].no)
  /\ R.phase = "start" => /\ R.slots = [i \in 1..RecvSlots |-> FreeSlot]
                          /\ R.completed = {} /\ R.produced = 0 /\ R.out = <<>> /\ ~R.dataEnd

\* A receiver that has delivered just the slices before c: what it handed to its writer is the
\* source up to start[c], and a slice being received is put behind it.  Of slice c itself it has
\* the blocks it says, until it hears of a newer slice.
Prefix(R, start, c) ==
  /\ R.produced = start[c]
  /\ \A i \in 1..RecvSlots :
       R.slots[i].state = "Receiving" =>
         R.slots[i].base = start[c] /\ Unwritten(R) + WaitFree <= RecvRing
  /\ \A i \in 1..RecvSlots :
       (R.slots[i].state = "Receiving" /\ R.slots[i].no = c /\ \A j \in 1..RecvSlots : R.slots[j].no <= c)
         => \A b \in R.slots[i].have : R.ring[(start[c] + b) % RecvRing] = start[c] + b + 1
  /\ \A p \in Written(R)..R.produced - 1 : R.ring[p % RecvRing] = p + 1
  /\ \A i \in 1..Written(R) : R.out[i] = i
  /\ (c > 0 /\ Size(start, c - 1) = 0) => R.dataEnd

Receiver(R, start, n) ==
  /\ R \in ReceiverRecord
  /\ SlotTable(R, start, n) /\ Delivered(R, start, n) /\ Ends(R, start) /\ Late(R, start, n)
  /\ \A c \in 0..n : R.completed = 0..c - 1 => Prefix(R, start, c)

-----------------------------------------------------------------------------
NetTypes ==
  /\ rcv \in [Receivers -> ReceiverRecord]
  /\ down \in [Receivers -> Seq(PacketType)] /\ up \in [Receivers -> Seq(AnswerType)]
  /\ \A r \in Receivers : Len(down[r]) <= ChanCap /\ Len(up[r]) <= ChanCap
  /\ faults \in [lost : 0..MaxLoss, dup : 0..MaxDup, early : 0..MaxEarly]
  /\ held = {} /\ dropped \subseteq Receivers \ valid

Transferred(start) ==
  /\ History(start)
  /\ \A r \in Receivers : Receiver(rcv[r], start, sliceNo) /\ Channel(down[r], rcv[r], start, sliceNo)

TransferInv == SenderInv /\ HalfInv /\ NetTypes /\ \E start \in [Nat -> Nat] : Transferred(start)

-----------------------------------------------------------------------------
(* Half duplex without FLAG_ASYNC, as long as nobody is dropped whose answer *)
(* is still on its way.                                                      *)

\* The receivers the sender has not dropped.
Kept == Receivers \ dropped

Gone(r) == rcv[r].phase \in {"finished", "dead"}

\* Receiver r acknowledges what it delivered, and disconnects when it ends.
Honest(r, m) ==
  /\ m.type = "OK" => m.no \in rcv[r].completed
  /\ m.type = "DISC" => Gone(r)

\* The answers that the dispatcher has not seen, wherever they are.
AnswersHonest ==
  /\ \A r \in Kept : \A i \in 1..Len(up[r]) : Honest(r, up[r][i])
  /\ \A i \in Queued : /\ Honest(Unseen[i].cl, Unseen[i])
                       /\ Unseen[i].type # "DISC" => Unseen[i].cl \in valid

\* Nothing but disconnections follows a disconnection.
OnlyDisc(q) == \A i \in 1..Len(q) : q[i].type = "DISC"
DiscLast(q) == \A i, j \in 1..Len(q) : i < j /\ q[i].type = "DISC" => q[j].type = "DISC"
DisconnectLast ==
  /\ \A r \in Kept : DiscLast(up[r])
  /\ \A i \in Queued : Unseen[i].type = "DISC" /\ Unseen[i].cl \in Kept => OnlyDisc(up[Unseen[i].cl])
  /\ \A i, j \in Queued :
       i < j /\ Unseen[i].type = "DISC" /\ Unseen[j].cl = Unseen[i].cl => Unseen[j].type = "DISC"

ReadyHonest ==
  \A s \in Pending : \A r \in slices[s].ready : r \in valid /\ slices[s].no \in rcv[r].completed

\* A participant has everything but what is in flight, and who is none any more has ended or
\* was dropped.
InOrder(r) == \E c \in 0..sliceNo : rcv[r].completed = 0..c - 1
InStep ==
  /\ \A r \in valid : \A no \in 0..sliceNo - 1 :
       no \in rcv[r].completed \/ \E s \in Pending : slices[s].no = no
  /\ \A r \in Kept \ valid : Gone(r)
  /\ \A r \in Kept : InOrder(r)

Ended == pc = "done" => valid = {} \/ (Pending = {} /\ atEnd)

SyncInv == AnswersHonest /\ DisconnectLast /\ ReadyHonest /\ InStep /\ Ended

\* When a timeout that never is early makes the dispatcher drop participants, nothing is on
\* its way but disconnections.
QuietInv ==
  MaxEarly = 0 /\ pc = "expired" =>
    /\ \A r \in Receivers : down[r] = <<>> /\ OnlyDisc(up[r])
    /\ OnlyDisc(Unseen)

-----------------------------------------------------------------------------
(* The receiver's record. *)

LEMMA Records ==
  ASSUME NEW R \in ReceiverRecord
  PROVE  /\ R.slots \in [1..RecvSlots -> SlotType] /\ R.completed \in SUBSET Nat
         /\ R.late \in Seq([no : Nat, of : Nat]) /\ R.ring \in [0..RecvRing - 1 -> Nat]
         /\ R.produced \in Nat /\ R.out \in Seq(Nat) /\ Written(R) \in Nat
         /\ R.started \in BOOLEAN /\ R.dataEnd \in BOOLEAN
         /\ R.phase \in {"start", "run", "drain", "exited", "finished", "dead"}
BY DEF ReceiverRecord, Written

\* The parts of R that Q has as well.
SameData(R, Q) ==
  /\ Q.ring = R.ring /\ Q.completed = R.completed /\ Q.produced = R.produced
  /\ Q.out = R.out /\ Q.late = R.late /\ Q.dataEnd = R.dataEnd

OpenSlot(R, no) == [FreeSlot EXCEPT !.state = "Receiving", !.no = no, !.base = R.produced]

LEMMA OpenShape ==
  ASSUME NEW R \in ReceiverRecord, NEW i \in 1..RecvSlots, NEW no \in Nat
  PROVE  /\ Open(R, i, no) \in ReceiverRecord
         /\ Open(R, i, no).slots = [R.slots EXCEPT ![i] = OpenSlot(R, no)]
         /\ SameData(R, Open(R, i, no)) /\ Open(R, i, no).phase = R.phase
         /\ OpenSlot(R, no).state = "Receiving" /\ OpenSlot(R, no).no = no /\ OpenSlot(R, no).base = R.produced
         /\ OpenSlot(R, no).of = 0 /\ OpenSlot(R, no).have = {}
<1>1. R.slots \in [1..RecvSlots -> SlotType] /\ R.produced \in Nat
  BY Records
<1>2. OpenSlot(R, no) \in SlotType
  <2>1. FreeSlot \in SlotType
    BY DEF FreeSlot, SlotType
  <2>2. no \in Int
    OBVIOUS
  <2> QED
    BY <1>1, <2>1, <2>2 DEF OpenSlot, SlotType
<1>3. Open(R, i, no) = [R EXCEPT !.slots = [R.slots EXCEPT ![i] = OpenSlot(R, no)]]
  BY DEF Open, OpenSlot, ReceiverRecord
<1>4. [R.slots EXCEPT ![i] = OpenSlot(R, no)] \in [1..RecvSlots -> SlotType]
  BY <1>1, <1>2
<1>5. Open(R, i, no) \in ReceiverRecord
  BY <1>3, <1>4 DEF ReceiverRecord
<1> QED
  BY <1>3, <1>5 DEF SameData, OpenSlot, FreeSlot, ReceiverRecord

\* A slot whose size is known, and one with a block more.
SizedSlot(sl, of) == [sl EXCEPT !.of = of]
FilledSlot(sl, of, block) == [sl EXCEPT !.of = of, !.have = @ \cup {block}]

SizedReceiver(R, i, of) == [R EXCEPT !.slots[i].of = of]
FilledReceiver(R, i, of, block, content) ==
  [R EXCEPT !.slots[i].of = of, !.slots[i].have = @ \cup {block},
            !.ring[(R.slots[i].base + block) % RecvRing] = content]

LEMMA SizedShape ==
  ASSUME NEW R \in ReceiverRecord, NEW i \in 1..RecvSlots, NEW of \in Nat
  PROVE  LET Q == SizedReceiver(R, i, of)
             sl == SizedSlot(R.slots[i], of)
         IN  /\ Q \in ReceiverRecord
             /\ Q.slots = [R.slots EXCEPT ![i] = sl]
             /\ SameData(R, Q) /\ Q.phase = R.phase
             /\ sl.state = R.slots[i].state /\ sl.no = R.slots[i].no /\ sl.base = R.slots[i].base
             /\ sl.of = of /\ sl.have = R.slots[i].have
<1>1. R.slots \in [1..RecvSlots -> SlotType] /\ R.slots[i] \in SlotType
  BY Records
<1> DEFINE sl == SizedSlot(R.slots[i], of)
<1>2. sl \in SlotType
  BY <1>1 DEF SizedSlot, SlotType
<1>3. SizedReceiver(R, i, of) = [R EXCEPT !.slots = [R.slots EXCEPT ![i] = sl]]
  BY <1>1 DEF SizedReceiver, SizedSlot, ReceiverRecord
<1>4. [R.slots EXCEPT ![i] = sl] \in [1..RecvSlots -> SlotType]
  BY <1>1, <1>2
<1>5. /\ sl.state = R.slots[i].state /\ sl.no = R.slots[i].no /\ sl.base = R.slots[i].base
      /\ sl.of = of /\ sl.have = R.slots[i].have
  BY <1>1 DEF SizedSlot, SlotType
<1> HIDE DEF sl
<1>6. SizedReceiver(R, i, of) \in ReceiverRecord
  BY <1>3, <1>4 DEF ReceiverRecord
<1>7. SameData(R, SizedReceiver(R, i, of)) /\ SizedReceiver(R, i, of).phase = R.phase
      /\ SizedReceiver(R, i, of).slots = [R.slots EXCEPT ![i] = sl]
  BY <1>3 DEF SameData, ReceiverRecord
<1> QED
  BY <1>5, <1>6, <1>7 DEF sl

FilledFacts(R, i, of, block, content) ==
  LET Q  == FilledReceiver(R, i, of, block, content)
      sl == FilledSlot(R.slots[i], of, block)
  IN  /\ Q \in ReceiverRecord
      /\ Q.slots = [R.slots EXCEPT ![i] = sl]
      /\ Q.ring = [R.ring EXCEPT ![(R.slots[i].base + block) % RecvRing] = content]
      /\ Q.completed = R.completed /\ Q.produced = R.produced /\ Q.out = R.out
      /\ Q.late = R.late /\ Q.dataEnd = R.dataEnd /\ Q.phase = R.phase
      /\ sl.state = R.slots[i].state /\ sl.no = R.slots[i].no /\ sl.base = R.slots[i].base
      /\ sl.of = of /\ sl.have = R.slots[i].have \cup {block}

LEMMA FilledShape ==
  ASSUME NEW R \in ReceiverRecord, NEW i \in 1..RecvSlots, NEW of \in Nat, NEW block \in Nat, NEW content \in Nat
  PROVE  FilledFacts(R, i, of, block, content)
<1>1. R.slots \in [1..RecvSlots -> SlotType] /\ R.slots[i] \in SlotType /\ R.ring \in [0..RecvRing - 1 -> Nat]
  BY Records
<1> DEFINE sl == FilledSlot(R.slots[i], of, block)
           cells == [R.ring EXCEPT ![(R.slots[i].base + block) % RecvRing] = content]
<1>2. sl \in SlotType
  BY <1>1 DEF FilledSlot, SlotType
<1>3. FilledReceiver(R, i, of, block, content)
        = [R EXCEPT !.slots = [R.slots EXCEPT ![i] = sl], !.ring = cells]
  BY <1>1 DEF FilledReceiver, FilledSlot, ReceiverRecord
<1>4. [R.slots EXCEPT ![i] = sl] \in [1..RecvSlots -> SlotType] /\ cells \in [0..RecvRing - 1 -> Nat]
  BY <1>1, <1>2
<1>5. /\ sl.state = R.slots[i].state /\ sl.no = R.slots[i].no /\ sl.base = R.slots[i].base
      /\ sl.of = of /\ sl.have = R.slots[i].have \cup {block}
  BY <1>1 DEF FilledSlot, SlotType
<1> HIDE DEF sl, cells
<1> DEFINE Q == FilledReceiver(R, i, of, block, content)
<1>6. Q \in ReceiverRecord
  BY <1>3, <1>4 DEF ReceiverRecord
<1>7. /\ Q.slots = [R.slots EXCEPT ![i] = sl] /\ Q.ring = cells
      /\ Q.completed = R.completed /\ Q.produced = R.produced /\ Q.out = R.out
      /\ Q.late = R.late /\ Q.dataEnd = R.dataEnd /\ Q.phase = R.phase
  BY <1>3 DEF ReceiverRecord
<1> QED
  BY <1>5, <1>6, <1>7 DEF sl, cells, FilledFacts

-----------------------------------------------------------------------------
(* What one change to a receiver preserves. *)

\* Sizes and positions are numbers.
LEMMA CutTypes ==
  ASSUME NEW start, NEW n \in Nat, Cuts(start, n)
  PROVE  /\ \A no \in 0..n : start[no] \in Nat
         /\ \A no \in 0..n - 1 : /\ Size(start, no) \in Nat /\ Size(start, no) <= MaxSlice
                                 /\ start[no + 1] = start[no] + Size(start, no)
<1>1. \A no \in 0..n : start[no] \in Nat
  BY DEF Cuts
<1>2. ASSUME NEW no \in 0..n - 1
      PROVE  Size(start, no) \in Nat /\ start[no + 1] = start[no] + Size(start, no)
  <2>1. no \in 0..n /\ no + 1 \in 0..n /\ no <= no + 1
    OBVIOUS
  <2>2. start[no] <= start[no + 1]
    BY <2>1 DEF Cuts
  <2> QED
    BY <1>1, <2>1, <2>2 DEF Size
<1> QED
  BY <1>1, <1>2 DEF Cuts

LEMMA FreeSlotFields ==
  FreeSlot.state = "Free" /\ FreeSlot.no = -1 /\ FreeSlot.have = {} /\ FreeSlot.of = 0
BY DEF FreeSlot

\* The parts of the invariant that a slot table with the same deliveries keeps.
LEMMA SlotsChanged ==
  ASSUME NEW start, NEW n \in Nat, NEW R, Receiver(R, start, n), NEW Q \in ReceiverRecord,
         SameData(R, Q), Q.phase = R.phase, R.phase # "start", SlotTable(Q, start, n),
         \A c \in 0..n : R.completed = 0..c - 1 => Prefix(Q, start, c)
  PROVE  Receiver(Q, start, n)
BY DEF Receiver, SameData, Delivered, Ends, Late, Written

LEMMA Opened ==
  ASSUME NEW start, NEW n \in Nat, NEW R, Receiver(R, start, n), R.phase # "start",
         NEW i \in 1..RecvSlots, R.slots[i].state # "Receiving",
         NEW no \in 0..n - 1, FindSlot(R, no) = {}, no \notin R.completed,
         \A k \in R.completed : k <= no, MayOpen(R)
  PROVE  Receiver(Open(R, i, no), start, n)
<1> DEFINE Q == Open(R, i, no)
           sl == OpenSlot(R, no)
<1>1. R \in ReceiverRecord /\ no \in Nat
  BY DEF Receiver
<1>2. /\ Q \in ReceiverRecord /\ Q.slots = [R.slots EXCEPT ![i] = sl]
      /\ SameData(R, Q) /\ Q.phase = R.phase
      /\ sl.state = "Receiving" /\ sl.no = no /\ sl.base = R.produced /\ sl.of = 0 /\ sl.have = {}
  BY <1>1, OpenShape
<1> HIDE DEF Q, sl
<1>3. R.slots \in [1..RecvSlots -> SlotType] /\ R.produced \in Nat /\ Written(R) \in Nat
      /\ \A j \in 1..RecvSlots : R.slots[j].no \in Int
  BY <1>1, Records DEF SlotType
<1>4. Q.slots[i] = sl /\ \A j \in 1..RecvSlots \ {i} : Q.slots[j] = R.slots[j]
  BY <1>2, <1>3
<1>5. \A j \in 1..RecvSlots : SlotTruthful(R.slots[j], R.completed, start, n)
  BY DEF Receiver, SlotTable
<1>6. \A j \in 1..RecvSlots : R.slots[j].no # no
  <2> SUFFICES ASSUME NEW j \in 1..RecvSlots, R.slots[j].no = no PROVE FALSE
    OBVIOUS
  <2>1. R.slots[j].state # "Free"
    BY <1>5, FreeSlotFields DEF SlotTruthful
  <2> QED
    BY <2>1 DEF FindSlot
<1>7. SlotTable(Q, start, n)
  <2>1. ASSUME NEW j \in 1..RecvSlots
        PROVE  SlotTruthful(Q.slots[j], Q.completed, start, n)
    BY <1>2, <1>4, <1>5 DEF SlotTruthful, SameData
  <2>2. ASSUME NEW j \in 1..RecvSlots, NEW k \in 1..RecvSlots,
               Q.slots[j].no = Q.slots[k].no, Q.slots[j].no >= 0
        PROVE  j = k
    BY <1>2, <1>4, <1>6, <2>2 DEF Receiver, SlotTable
  <2>3. Q.completed \subseteq 0..n - 1
    BY <1>2 DEF Receiver, SlotTable, SameData
  <2>4. ASSUME NEW t \in Q.completed, \A k \in Heard(Q) : k <= t
        PROVE  FindSlot(Q, t) # {}
    <3>1. no \in Heard(Q)
      BY <1>2, <1>4 DEF Heard
    <3>2. t \in R.completed /\ t \in Int /\ no <= t /\ t <= no
      BY <1>2, <2>3, <2>4, <3>1 DEF SameData
    <3>3. t = no
      BY <3>2
    <3> QED
      BY <3>2, <3>3
  <2> QED
    BY <2>1, <2>2, <2>3, <2>4 DEF SlotTable
<1>8. ASSUME NEW c \in 0..n, R.completed = 0..c - 1
      PROVE  Prefix(Q, start, c)
  <2>1. Prefix(R, start, c)
    BY <1>8 DEF Receiver
  <2>2. Written(Q) = Written(R) /\ Unwritten(Q) = Unwritten(R)
    BY <1>2 DEF SameData, Written, Unwritten
  <2>3. RecvRing \in Nat /\ WaitFree \in Nat /\ Unwritten(R) \in Int
    BY <1>3, RecvAssumption DEF Unwritten
  <2>4. Unwritten(R) + WaitFree <= RecvRing
    BY <2>3 DEF MayOpen
  <2>5. ASSUME NEW j \in 1..RecvSlots, Q.slots[j].state = "Receiving"
        PROVE  Q.slots[j].base = start[c] /\ Unwritten(Q) + WaitFree <= RecvRing
    BY <1>2, <1>4, <2>1, <2>2, <2>4, <2>5 DEF Prefix
  <2>6. ASSUME NEW j \in 1..RecvSlots, Q.slots[j].state = "Receiving", Q.slots[j].no = c,
               \A k \in 1..RecvSlots : Q.slots[k].no <= c, NEW b \in Q.slots[j].have
        PROVE  Q.ring[(start[c] + b) % RecvRing] = start[c] + b + 1
    <3>1. j # i
      BY <1>2, <1>4, <2>6
    <3>2. R.slots[j] = Q.slots[j]
      BY <1>4, <3>1
    <3>3. R.slots[i].no <= c
      <4>1. R.slots[i] = FreeSlot \/ R.slots[i].no \in R.completed
        BY <1>5 DEF SlotTruthful
      <4> QED
        BY <1>8, <4>1, FreeSlotFields
    <3>4. \A k \in 1..RecvSlots : R.slots[k].no <= c
      BY <1>4, <2>6, <3>3
    <3> QED
      BY <1>2, <2>1, <2>6, <3>2, <3>4 DEF Prefix, SameData
  <2> QED
    BY <1>2, <2>1, <2>2, <2>5, <2>6 DEF Prefix, SameData
<1> QED
  BY <1>2, <1>7, <1>8, SlotsChanged DEF Q

\* Slots that keep their slice are found as before.
SameSlots(R, Q) ==
  \A j \in 1..RecvSlots : Q.slots[j].state = R.slots[j].state /\ Q.slots[j].no = R.slots[j].no

LEMMA SameFound ==
  ASSUME NEW R, NEW Q, SameSlots(R, Q), Q.completed = R.completed
  PROVE  Heard(Q) = Heard(R) /\ \A no : FindSlot(Q, no) = FindSlot(R, no)
BY DEF SameSlots, Heard, FindSlot

LEMMA SameTable ==
  ASSUME NEW start, NEW n, NEW R, NEW Q, SlotTable(R, start, n), SameSlots(R, Q), Q.completed = R.completed,
         \A j \in 1..RecvSlots : SlotTruthful(Q.slots[j], Q.completed, start, n)
  PROVE  SlotTable(Q, start, n)
BY SameFound DEF SlotTable, SameSlots

LEMMA Sized ==
  ASSUME NEW start, NEW n \in Nat, Cuts(start, n), NEW R, Receiver(R, start, n), R.phase # "start",
         NEW i \in 1..RecvSlots, R.slots[i].state # "Free"
  PROVE  Receiver(SizedReceiver(R, i, Size(start, R.slots[i].no)), start, n)
<1> DEFINE of == Size(start, R.slots[i].no)
           Q == SizedReceiver(R, i, of)
           sl == SizedSlot(R.slots[i], of)
<1>1. R \in ReceiverRecord
  BY DEF Receiver
<1>2. \A j \in 1..RecvSlots : SlotTruthful(R.slots[j], R.completed, start, n)
  BY DEF Receiver, SlotTable
<1>3. R.slots[i] # FreeSlot /\ R.slots[i].no \in 0..n - 1
  BY <1>2, FreeSlotFields DEF SlotTruthful, Receiver, SlotTable
<1>4. of \in Nat
  BY <1>3, CutTypes
<1>5. /\ Q \in ReceiverRecord /\ Q.slots = [R.slots EXCEPT ![i] = sl]
      /\ SameData(R, Q) /\ Q.phase = R.phase
      /\ sl.state = R.slots[i].state /\ sl.no = R.slots[i].no /\ sl.base = R.slots[i].base
      /\ sl.of = of /\ sl.have = R.slots[i].have
  BY <1>1, <1>4, SizedShape
<1> HIDE DEF Q, sl
<1>6. R.slots \in [1..RecvSlots -> SlotType]
  BY <1>1, Records
<1>7. Q.slots[i] = sl /\ \A j \in 1..RecvSlots \ {i} : Q.slots[j] = R.slots[j]
  BY <1>5, <1>6
<1>8. SlotTruthful(sl, R.completed, start, n)
  BY <1>2, <1>3, <1>5 DEF SlotTruthful
<1>9. SameSlots(R, Q) /\ \A j \in 1..RecvSlots : Q.slots[j].base = R.slots[j].base /\ Q.slots[j].have = R.slots[j].have
  BY <1>5, <1>7 DEF SameSlots
<1>10. SlotTable(Q, start, n)
  <2>1. \A j \in 1..RecvSlots : SlotTruthful(Q.slots[j], Q.completed, start, n)
    BY <1>2, <1>5, <1>7, <1>8 DEF SameData
  <2> QED
    BY <1>5, <1>9, <2>1, SameTable DEF SameData, Receiver
<1>11. ASSUME NEW c \in 0..n, R.completed = 0..c - 1
       PROVE  Prefix(Q, start, c)
  <2>1. Prefix(R, start, c)
    BY <1>11 DEF Receiver
  <2>2. Written(Q) = Written(R) /\ Unwritten(Q) = Unwritten(R)
    BY <1>5 DEF SameData, Written, Unwritten
  <2> QED
    BY <1>5, <1>9, <2>1, <2>2 DEF Prefix, SameData, SameSlots
<1> QED
  BY <1>5, <1>10, <1>11, SlotsChanged DEF Q

\* What is put less than F places ahead of the position q does not touch what lies between
\* w and q, when that and F places fit into a ring of N.
LEMMA PlaceAhead ==
  ASSUME NEW N \in Nat \ {0}, NEW w \in Nat, NEW q \in Nat, NEW F \in Nat, q - w + F <= N,
         NEW p \in Nat, w <= p, p < q, NEW b \in Nat, b < F
  PROVE  p % N # (q + b) % N
<1>1. ASSUME NEW x, x = q + b PROVE p % N # x % N
  <2>1. x \in Nat /\ p < x /\ x - p < N
    BY <1>1
  <2> QED
    BY <2>1, CellsDiffer
<1> QED
  BY <1>1

LEMMA OffsetsDiffer ==
  ASSUME NEW N \in Nat \ {0}, NEW q \in Nat, NEW a \in Nat, NEW b \in Nat, a < N, b < N, a # b
  PROVE  (q + a) % N # (q + b) % N
<1>1. ASSUME NEW x, NEW y, x = q + a, y = q + b PROVE x % N # y % N
  <2>1. x \in Nat /\ y \in Nat /\ (x < y \/ y < x) /\ x - y < N /\ y - x < N
    BY <1>1
  <2> QED
    BY <2>1, CellsDiffer
<1> QED
  BY <1>1

\* A block of the newest slice is put in its place.
LEMMA Filled ==
  ASSUME NEW start, NEW n \in Nat, Cuts(start, n), NEW R, Receiver(R, start, n), R.phase # "start",
         MaxSlice <= WaitFree,
         NEW i \in 1..RecvSlots, R.slots[i].state = "Receiving",
         NEW no, no = R.slots[i].no, \A j \in 1..RecvSlots : R.slots[j].no <= no,
         NEW of, of = Size(start, no), NEW block \in Nat, block < of,
         NEW content, content = start[no] + block + 1
  PROVE  Receiver(FilledReceiver(R, i, of, block, content), start, n)
<1> DEFINE Q == FilledReceiver(R, i, of, block, content)
           sl == FilledSlot(R.slots[i], of, block)
<1>1. R \in ReceiverRecord
  BY DEF Receiver
<1>2. \A j \in 1..RecvSlots : SlotTruthful(R.slots[j], R.completed, start, n)
  BY DEF Receiver, SlotTable
<1>3. R.slots[i] # FreeSlot /\ no \in 0..n - 1 /\ no \notin R.completed
      /\ R.slots[i].have \subseteq 0..of - 1
  BY <1>2, FreeSlotFields DEF SlotTruthful
<1>4. of \in Nat /\ of <= MaxSlice /\ start[no] \in Nat /\ content \in Nat
  BY <1>3, CutTypes
<1>5. /\ Q \in ReceiverRecord /\ Q.slots = [R.slots EXCEPT ![i] = sl]
      /\ Q.ring = [R.ring EXCEPT ![(R.slots[i].base + block) % RecvRing] = content]
      /\ Q.completed = R.completed /\ Q.produced = R.produced /\ Q.out = R.out
      /\ Q.late = R.late /\ Q.dataEnd = R.dataEnd /\ Q.phase = R.phase
      /\ sl.state = R.slots[i].state /\ sl.no = R.slots[i].no /\ sl.base = R.slots[i].base
      /\ sl.of = of /\ sl.have = R.slots[i].have \cup {block}
  <2>1. FilledFacts(R, i, of, block, content)
    BY <1>1, <1>4, FilledShape
  <2> QED
    BY <2>1 DEF FilledFacts
<1> HIDE DEF Q, sl
<1>6. /\ R.slots \in [1..RecvSlots -> SlotType] /\ R.ring \in [0..RecvRing - 1 -> Nat]
      /\ R.produced \in Nat /\ Written(R) \in Nat /\ R.slots[i].base \in Nat
  BY <1>1, Records DEF SlotType
<1>7. Q.slots[i] = sl /\ \A j \in 1..RecvSlots \ {i} : Q.slots[j] = R.slots[j]
  BY <1>5, <1>6
<1>8. sl.have \subseteq 0..of - 1
  BY <1>3, <1>4, <1>5
<1>9. SameSlots(R, Q) /\ \A j \in 1..RecvSlots : Q.slots[j].base = R.slots[j].base
  BY <1>5, <1>7 DEF SameSlots
<1>10. SlotTable(Q, start, n)
  <2>1. SlotTruthful(sl, R.completed, start, n)
    BY <1>3, <1>5, <1>8 DEF SlotTruthful
  <2>2. \A j \in 1..RecvSlots : SlotTruthful(Q.slots[j], Q.completed, start, n)
    BY <1>2, <1>5, <1>7, <2>1
  <2> QED
    BY <1>5, <1>9, <2>2, SameTable DEF Receiver
<1>11. ASSUME NEW c \in 0..n, R.completed = 0..c - 1
       PROVE  Prefix(Q, start, c)
  <2>1. Prefix(R, start, c)
    BY <1>11 DEF Receiver
  <2>2. Written(Q) = Written(R) /\ Unwritten(Q) = Unwritten(R)
    BY <1>5 DEF Written, Unwritten
  <2>3. /\ R.slots[i].base = R.produced /\ R.produced = start[c]
        /\ R.produced - Written(R) + WaitFree <= RecvRing
    BY <2>1 DEF Prefix, Unwritten
  <2>4. RecvRing \in Nat \ {0} /\ WaitFree \in Nat /\ MaxSlice \in Nat
    BY RecvAssumption, SizesAssumption
  <2>5. Written(R) <= R.produced
    BY DEF Receiver, Delivered
  <2>6. (R.slots[i].base + block) % RecvRing \in 0..RecvRing - 1
    <3>1. R.slots[i].base + block \in Nat
      BY <1>6
    <3> QED
      BY <2>4, <3>1, DivMod
  <2>7. ASSUME NEW p \in Nat, p >= Written(R), p < R.produced
        PROVE  Q.ring[p % RecvRing] = R.ring[p % RecvRing]
    <3>1. p % RecvRing # (R.produced + block) % RecvRing
      <4>1. R.produced \in Nat /\ block < WaitFree
        BY <1>4, <1>6, <2>4
      <4> QED
        BY <1>6, <2>3, <2>4, <2>7, <4>1, PlaceAhead
    <3>2. p % RecvRing \in 0..RecvRing - 1
      BY <2>4
    <3> QED
      BY <1>5, <1>6, <2>3, <3>1, <3>2
  <2>8. ASSUME NEW j \in 1..RecvSlots, Q.slots[j].state = "Receiving", Q.slots[j].no = c,
               \A k \in 1..RecvSlots : Q.slots[k].no <= c, NEW b \in Q.slots[j].have
        PROVE  Q.ring[(start[c] + b) % RecvRing] = start[c] + b + 1
    <3>1. R.slots[j].no <= no /\ no <= c /\ R.slots[j].no = c
      BY <1>5, <1>7, <1>9, <2>8 DEF SameSlots
    <3>2. no = c /\ no >= 0
      BY <1>3, <3>1
    <3>3. j = i
      BY <3>1, <3>2 DEF Receiver, SlotTable
    <3>4. b \in R.slots[i].have \cup {block} /\ b \in Nat /\ b < of
      BY <1>4, <1>5, <1>7, <1>8, <2>8, <3>3
    <3>5. CASE b = block
      BY <1>5, <1>6, <2>3, <2>6, <3>2, <3>5
    <3>6. CASE b # block
      <4>1. R.ring[(start[c] + b) % RecvRing] = start[c] + b + 1
        <5>1. \A k \in 1..RecvSlots : R.slots[k].no <= c
          BY <1>9, <2>8 DEF SameSlots
        <5> QED
          BY <2>1, <3>2, <3>4, <3>6, <5>1 DEF Prefix
      <4>2. (start[c] + b) % RecvRing # (start[c] + block) % RecvRing
        <5>1. start[c] \in Nat /\ b < RecvRing /\ block < RecvRing
          <6>1. WaitFree <= RecvRing
            BY RecvAssumption
          <6> QED
            BY <1>4, <1>6, <2>3, <2>4, <3>4, <6>1
        <5> QED
          BY <2>4, <3>4, <3>6, <5>1, OffsetsDiffer
      <4>3. (start[c] + b) % RecvRing \in 0..RecvRing - 1
        <5>1. start[c] + b \in Nat
          BY <1>6, <2>3, <3>4
        <5> QED
          BY <2>4, <5>1, DivMod
      <4> QED
        BY <1>5, <1>6, <2>3, <4>1, <4>2, <4>3
    <3> QED
      BY <3>5, <3>6
  <2>9. \A p \in Written(Q)..Q.produced - 1 : Q.ring[p % RecvRing] = p + 1
    <3> SUFFICES ASSUME NEW p \in Written(Q)..Q.produced - 1 PROVE Q.ring[p % RecvRing] = p + 1
      OBVIOUS
    <3>1. p \in Nat /\ p >= Written(R) /\ p < R.produced /\ p \in Written(R)..R.produced - 1
      BY <1>5, <1>6, <2>2
    <3> QED
      BY <2>1, <2>7, <3>1 DEF Prefix
  <2> QED
    BY <1>5, <1>9, <2>1, <2>2, <2>8, <2>9 DEF Prefix, SameSlots
<1>12. Delivered(Q, start, n) /\ Ends(Q, start) /\ Late(Q, start, n)
  BY <1>5 DEF Receiver, Delivered, Ends, Late, Written
<1> QED
  BY <1>5, <1>10, <1>11, <1>12 DEF Receiver, Q

-----------------------------------------------------------------------------
(* complete_slice *)

DoneSlot(sl) == [sl EXCEPT !.state = "Done"]
DoneReceiver(R, i) ==
  [R EXCEPT !.slots[i].state = "Done", !.completed = @ \cup {R.slots[i].no}]

\* The receiver Q and the answers a that delivering slot i leaves.
CompletedFacts(R, i, Q, a) ==
  /\ Q \in ReceiverRecord /\ Q.slots = [R.slots EXCEPT ![i] = DoneSlot(R.slots[i])]
  /\ Q.completed = R.completed \cup {R.slots[i].no}
  /\ Q.ring = R.ring /\ Q.out = R.out /\ Q.late = R.late
  /\ \/ /\ R.slots[i].of > 0 /\ Unwritten(R) + R.slots[i].of > RecvRing
        /\ Q.phase = "dead" /\ Q.produced = R.produced /\ Q.dataEnd = R.dataEnd /\ a = <<>>
     \/ /\ R.slots[i].of > 0 /\ Unwritten(R) + R.slots[i].of <= RecvRing
        /\ Q.phase = R.phase /\ Q.produced = R.produced + R.slots[i].of /\ Q.dataEnd = R.dataEnd
        /\ a = <<Ok(R.slots[i].no)>>
     \/ /\ R.slots[i].of = 0
        /\ Q.phase = R.phase /\ Q.produced = R.produced
        /\ (Q.dataEnd <=> R.dataEnd \/ EarlierCompleted(R, R.slots[i].no))
        /\ a = <<Ok(R.slots[i].no)>>

LEMMA CompleteShape ==
  ASSUME NEW R \in ReceiverRecord, NEW i \in 1..RecvSlots, R.slots[i].state = "Receiving",
         R.slots[i].no \in Nat
  PROVE  /\ CompletedFacts(R, i, Complete(R, i).rcv, Complete(R, i).answers)
         /\ DoneSlot(R.slots[i]).state = "Done" /\ DoneSlot(R.slots[i]).no = R.slots[i].no
         /\ DoneSlot(R.slots[i]).of = R.slots[i].of /\ DoneSlot(R.slots[i]) \in SlotType
         /\ DoneSlot(R.slots[i]).have = R.slots[i].have
<1>1. R.slots \in [1..RecvSlots -> SlotType] /\ R.slots[i] \in SlotType /\ R.completed \in SUBSET Nat
      /\ R.produced \in Nat /\ Written(R) \in Nat /\ R.slots[i].of \in Nat /\ R.dataEnd \in BOOLEAN
  BY Records DEF SlotType
<1> DEFINE sl == DoneSlot(R.slots[i])
           no == R.slots[i].no
           of == R.slots[i].of
           D  == DoneReceiver(R, i)
           end == R.dataEnd \/ EarlierCompleted(R, no)
           Dead == [D EXCEPT !.phase = "dead"]
           More == [D EXCEPT !.produced = @ + of]
           Last == [D EXCEPT !.dataEnd = end]
<1>2. sl \in SlotType /\ sl.state = "Done" /\ sl.no = no /\ sl.of = of /\ sl.have = R.slots[i].have
  BY <1>1 DEF DoneSlot, SlotType
<1>3. D = [R EXCEPT !.slots = [R.slots EXCEPT ![i] = sl], !.completed = R.completed \cup {no}]
  BY <1>1 DEF DoneReceiver, DoneSlot, ReceiverRecord
<1>4. [R.slots EXCEPT ![i] = sl] \in [1..RecvSlots -> SlotType] /\ R.completed \cup {no} \in SUBSET Nat
  BY <1>1, <1>2
<1> HIDE DEF sl
<1>5. D \in ReceiverRecord
  BY <1>3, <1>4 DEF ReceiverRecord
<1>6. /\ D.slots = [R.slots EXCEPT ![i] = sl] /\ D.completed = R.completed \cup {no}
      /\ D.ring = R.ring /\ D.out = R.out /\ D.late = R.late /\ D.phase = R.phase
      /\ D.produced = R.produced /\ D.dataEnd = R.dataEnd
  BY <1>3 DEF ReceiverRecord
<1>7. Complete(R, i) =
        IF of > 0 THEN IF Unwritten(R) + of > RecvRing THEN Step(Dead, <<>>) ELSE Step(More, <<Ok(no)>>)
        ELSE Step(Last, <<Ok(no)>>)
  <2>1. D.dataEnd = R.dataEnd
    BY <1>6
  <2> QED
    BY <2>1 DEF Complete, DoneReceiver, ReceiverRecord
<1> HIDE DEF D, end
<1>8. Dead \in ReceiverRecord /\ Dead.phase = "dead" /\ Dead.slots = D.slots /\ Dead.completed = D.completed
      /\ Dead.ring = D.ring /\ Dead.out = D.out /\ Dead.late = D.late
      /\ Dead.produced = D.produced /\ Dead.dataEnd = D.dataEnd
  BY <1>5 DEF ReceiverRecord
<1>9. More \in ReceiverRecord /\ More.phase = D.phase /\ More.slots = D.slots /\ More.completed = D.completed
      /\ More.ring = D.ring /\ More.out = D.out /\ More.late = D.late
      /\ More.produced = D.produced + of /\ More.dataEnd = D.dataEnd
  <2> DEFINE more == D.produced + of
  <2>1. More = [D EXCEPT !.produced = more]
    BY <1>5 DEF ReceiverRecord
  <2>2. more \in Nat
    BY <1>1, <1>6
  <2> HIDE DEF more
  <2> QED
    BY <1>5, <2>1, <2>2 DEF ReceiverRecord, more
<1>10. end \in BOOLEAN
  BY <1>1 DEF end, EarlierCompleted
<1>11. Last \in ReceiverRecord /\ Last.phase = D.phase /\ Last.slots = D.slots /\ Last.completed = D.completed
       /\ Last.ring = D.ring /\ Last.out = D.out /\ Last.late = D.late
       /\ Last.produced = D.produced /\ Last.dataEnd = end
  BY <1>5, <1>10 DEF ReceiverRecord
<1> HIDE DEF Dead, More, Last
<1>12. Unwritten(R) \in Int /\ RecvRing \in Nat
  BY <1>1, RecvAssumption DEF Unwritten
<1>13. CompletedFacts(R, i, Complete(R, i).rcv, Complete(R, i).answers)
  <2>1. CASE of > 0 /\ Unwritten(R) + of > RecvRing
    <3>1. Complete(R, i).rcv = Dead /\ Complete(R, i).answers = <<>>
      BY <1>7, <2>1 DEF Step
    <3> QED
      BY <1>6, <1>8, <2>1, <3>1 DEF CompletedFacts, sl
  <2>2. CASE of > 0 /\ ~(Unwritten(R) + of > RecvRing)
    <3>1. Complete(R, i).rcv = More /\ Complete(R, i).answers = <<Ok(no)>>
      BY <1>7, <2>2 DEF Step
    <3> QED
      BY <1>1, <1>6, <1>9, <1>12, <2>2, <3>1 DEF CompletedFacts, sl
  <2>3. CASE ~(of > 0)
    <3>1. Complete(R, i).rcv = Last /\ Complete(R, i).answers = <<Ok(no)>>
      BY <1>7, <2>3 DEF Step
    <3>2. Last.dataEnd <=> R.dataEnd \/ EarlierCompleted(R, no)
      BY <1>11 DEF end
    <3>3. of = 0
      BY <1>1, <2>3
    <3> QED
      BY <1>6, <1>11, <3>1, <3>2, <3>3 DEF CompletedFacts, sl
  <2> QED
    BY <2>1, <2>2, <2>3
<1> QED
  BY <1>2, <1>13 DEF sl

\* A set of as many numbers below n as there are has them all.
LEMMA WholeSet ==
  ASSUME NEW n \in Nat, NEW S \in SUBSET (0..n - 1), Cardinality(S) >= n
  PROVE  S = 0..n - 1
<1>1. IsFiniteSet(0..n - 1) /\ Cardinality(0..n - 1) = n
  <2>1. 0 \in Int /\ n - 1 \in Int
    OBVIOUS
  <2>2. Cardinality(0..n - 1) = IF 0 > n - 1 THEN 0 ELSE n - 1 - 0 + 1
    BY <2>1, FS_Interval
  <2> QED
    BY <2>1, <2>2, FS_Interval
<1>2. IsFiniteSet(S) /\ Cardinality(S) \in Nat /\ Cardinality(S) <= n
  BY <1>1, FS_Subset, FS_CardinalityType
<1>3. Cardinality(S) = n
  BY <1>2
<1> QED
  BY <1>1, <1>3, FS_Subset

\* The newest slice is delivered once it is whole.
LEMMA Completes ==
  ASSUME NEW start, NEW n \in Nat, Cuts(start, n), NEW R, Receiver(R, start, n), R.phase \in {"run", "drain"},
         MaxSlice <= WaitFree,
         NEW i \in 1..RecvSlots, R.slots[i].state = "Receiving",
         NEW no, no = R.slots[i].no, \A j \in 1..RecvSlots : R.slots[j].no <= no,
         \A k \in R.completed : k <= no,
         R.slots[i].of = Size(start, no), HasAll(R.slots[i]),
         NEW Q, NEW a, CompletedFacts(R, i, Q, a)
  PROVE  Receiver(Q, start, n)
<1> DEFINE of == R.slots[i].of
<1>1. R \in ReceiverRecord
  BY DEF Receiver
<1>2. \A j \in 1..RecvSlots : SlotTruthful(R.slots[j], R.completed, start, n)
  BY DEF Receiver, SlotTable
<1>3. R.slots[i] # FreeSlot /\ no \in 0..n - 1 /\ no \notin R.completed
      /\ R.slots[i].have \subseteq 0..of - 1
  BY <1>2, FreeSlotFields DEF SlotTruthful
<1>4. of \in Nat /\ of <= MaxSlice /\ start[no] \in Nat /\ start[no + 1] = start[no] + of
  BY <1>3, CutTypes
<1>5. /\ R.slots \in [1..RecvSlots -> SlotType] /\ R.ring \in [0..RecvRing - 1 -> Nat]
      /\ R.produced \in Nat /\ Written(R) \in Nat /\ R.dataEnd \in BOOLEAN
      /\ R.completed \subseteq 0..n - 1
  BY <1>1, Records DEF Receiver, SlotTable
<1>6. /\ DoneSlot(R.slots[i]).state = "Done" /\ DoneSlot(R.slots[i]).no = no
      /\ DoneSlot(R.slots[i]).of = of /\ DoneSlot(R.slots[i]).have = R.slots[i].have
  BY <1>1, <1>3, CompleteShape
<1> DEFINE sl == DoneSlot(R.slots[i])
<1> HIDE DEF sl
<1>7. /\ Q \in ReceiverRecord /\ Q.slots = [R.slots EXCEPT ![i] = sl]
      /\ Q.completed = R.completed \cup {no}
      /\ Q.ring = R.ring /\ Q.out = R.out /\ Q.late = R.late
      /\ Q.phase \in {"run", "drain", "dead"}
      /\ Written(Q) = Written(R)
  BY DEF CompletedFacts, Written, sl
<1>8. Q.slots[i] = sl /\ \A j \in 1..RecvSlots \ {i} : Q.slots[j] = R.slots[j]
  BY <1>5, <1>7
<1>9. \A j \in 1..RecvSlots \ {i} : R.slots[j].no # no
  BY <1>3 DEF Receiver, SlotTable
<1>10. \A k \in R.completed : k < no
  BY <1>3, <1>5
<1>11. SlotTable(Q, start, n)
  <2>1. ASSUME NEW j \in 1..RecvSlots
        PROVE  SlotTruthful(Q.slots[j], Q.completed, start, n)
    <3>1. CASE j = i
      BY <1>3, <1>6, <1>7, <1>8, <3>1 DEF SlotTruthful, sl
    <3>2. CASE j # i
      BY <1>2, <1>7, <1>8, <1>9, <3>2 DEF SlotTruthful
    <3> QED
      BY <3>1, <3>2
  <2>2. \A j \in 1..RecvSlots : Q.slots[j].no = R.slots[j].no
    BY <1>6, <1>8 DEF sl
  <2>3. Q.completed \subseteq 0..n - 1
    BY <1>3, <1>5, <1>7
  <2>4. ASSUME NEW t \in Q.completed, \A k \in Heard(Q) : k <= t
        PROVE  FindSlot(Q, t) # {}
    <3>1. no \in Heard(Q)
      BY <1>7 DEF Heard
    <3>2. t = no
      <4>1. no <= t /\ t \in Nat /\ no \in Nat
        BY <1>3, <2>3, <2>4, <3>1
      <4> QED
        BY <1>7, <1>10, <4>1
    <3>3. i \in FindSlot(Q, t)
      BY <1>6, <1>8, <3>2 DEF FindSlot, sl
    <3> QED
      BY <3>3
  <2> QED
    BY <2>1, <2>2, <2>3, <2>4 DEF Receiver, SlotTable
<1>12. /\ Q.produced \in Nat /\ R.produced <= Q.produced /\ Q.produced <= R.produced + of
  BY <1>4, <1>5 DEF CompletedFacts
<1>13. Delivered(Q, start, n)
  <2>1. Written(Q) <= Q.produced
    BY <1>5, <1>7, <1>12 DEF Receiver, Delivered
  <2>2. ASSUME NEW k \in 0..n, \A x \in Q.completed : x < k
        PROVE  Q.produced <= start[k]
    <3>1. no < k /\ no + 1 \in 0..n /\ no \in 0..n /\ no + 1 <= k
      BY <1>3, <1>7, <2>2
    <3>2. R.produced <= start[no]
      BY <1>10, <3>1 DEF Receiver, Delivered
    <3>3. start[no + 1] <= start[k] /\ start[k] \in Nat
      BY <3>1 DEF Cuts
    <3> QED
      BY <1>4, <1>5, <1>12, <3>2, <3>3
  <2> QED
    BY <2>1, <2>2 DEF Delivered
<1>14. Ends(Q, start)
  <2>1. ASSUME Q.dataEnd
        PROVE  \E x \in Q.completed : Size(start, x) = 0 /\ 0..x \subseteq Q.completed
    <3>1. CASE R.dataEnd
      BY <1>7, <3>1 DEF Receiver, Ends
    <3>2. CASE ~R.dataEnd
      <4>1. of = 0 /\ 0..no - 1 \subseteq R.completed
        BY <2>1, <3>2 DEF CompletedFacts, EarlierCompleted
      <4>2. 0..no \subseteq Q.completed
        BY <1>3, <1>7, <4>1
      <4> QED
        BY <1>7, <4>1, <4>2
    <3> QED
      BY <3>1, <3>2
  <2>2. ASSUME Q.phase \in {"drain", "exited", "finished"}
        PROVE  \E x \in Q.completed : Size(start, x) = 0
    <3>1. R.phase = "drain"
      BY <2>2 DEF CompletedFacts
    <3> QED
      BY <1>7, <3>1 DEF Receiver, Ends
  <2> QED
    BY <1>7, <2>1, <2>2 DEF Ends
<1>15. Late(Q, start, n)
  BY <1>7 DEF Receiver, Late
<1>16. ASSUME NEW c \in 0..n, Q.completed = 0..c - 1
       PROVE  Prefix(Q, start, c)
  <2>1. c = no + 1 /\ R.completed = 0..no - 1
    <3>1. no \in 0..c - 1
      BY <1>7, <1>16
    <3>2. c - 1 \in Q.completed
      BY <1>3, <1>16, <3>1
    <3>3. c - 1 <= no
      BY <1>3, <1>7, <1>10, <3>2
    <3>4. c = no + 1
      BY <1>3, <3>1, <3>3
    <3>5. \A x \in R.completed : x \in 0..no - 1
      BY <1>3, <1>5, <1>10
    <3>6. \A x \in 0..no - 1 : x \in 0..c - 1 /\ x # no
      BY <1>3, <3>4
    <3> QED
      BY <1>7, <1>16, <3>4, <3>5, <3>6
  <2>2. Prefix(R, start, no)
    BY <1>3, <2>1 DEF Receiver
  <2>3. R.produced = start[no] /\ Unwritten(R) + WaitFree <= RecvRing
    BY <2>2 DEF Prefix
  <2>4. RecvRing \in Nat \ {0} /\ WaitFree \in Nat /\ MaxSlice \in Nat /\ Unwritten(R) \in Int
    BY <1>5, RecvAssumption, SizesAssumption DEF Unwritten
  <2>5. Unwritten(R) + of <= RecvRing
    BY <1>4, <2>3, <2>4
  <2>6. Q.produced = start[c]
    BY <1>4, <2>1, <2>3, <2>4, <2>5 DEF CompletedFacts
  <2>7. ASSUME NEW j \in 1..RecvSlots
        PROVE  Q.slots[j].state # "Receiving"
    <3>1. CASE j = i
      BY <1>6, <1>8, <3>1 DEF sl
    <3>2. CASE j # i /\ R.slots[j].state = "Receiving"
      <4>1. R.slots[j].no \in 0..n - 1 /\ R.slots[j].no \notin R.completed
        BY <1>2, <3>2, FreeSlotFields DEF SlotTruthful
      <4>2. R.slots[j].no < no
        BY <1>3, <1>9, <3>2, <4>1
      <4> QED
        BY <1>3, <2>1, <4>1, <4>2
    <3> QED
      BY <1>8, <3>1, <3>2
  <2>8. ASSUME NEW p \in Written(Q)..Q.produced - 1
        PROVE  Q.ring[p % RecvRing] = p + 1
    <3>1. CASE p < R.produced
      <4>1. p \in Written(R)..R.produced - 1
        BY <1>5, <1>7, <1>12, <3>1
      <4> QED
        BY <1>7, <2>2, <4>1 DEF Prefix
    <3>2. CASE p >= R.produced
      <4>1. R.slots[i].have = 0..of - 1
        BY <1>3, <1>4, WholeSet DEF HasAll
      <4>2. PICK b \in 0..of - 1 : p = start[no] + b
        <5>1. Q.produced = start[no] + of
          BY <1>4, <2>1, <2>6
        <5>2. p \in Int /\ start[no] <= p /\ p < start[no] + of
          BY <1>4, <1>5, <1>7, <2>3, <3>2, <5>1
        <5>3. p - start[no] \in 0..of - 1 /\ p = start[no] + (p - start[no])
          BY <1>4, <5>2
        <5> QED
          BY <5>3
      <4>3. R.ring[(start[no] + b) % RecvRing] = start[no] + b + 1
        BY <2>2, <4>1, <4>2 DEF Prefix
      <4> QED
        BY <1>7, <4>2, <4>3
    <3> QED
      BY <1>5, <1>7, <1>12, <3>1, <3>2
  <2>9. Size(start, c - 1) = 0 => Q.dataEnd
    <3>1. c - 1 = no
      BY <1>3, <2>1
    <3> QED
      BY <1>4, <2>1, <3>1 DEF CompletedFacts, EarlierCompleted
  <2> QED
    BY <1>7, <2>2, <2>6, <2>7, <2>8, <2>9 DEF Prefix
<1> QED
  BY <1>7, <1>11, <1>13, <1>14, <1>15, <1>16 DEF Receiver

-----------------------------------------------------------------------------
(* The packet handlers. *)

\* Nothing newer than slice no was heard of.
Newest(R, no) == \A k \in Heard(R) : k <= no

\* What a packet about slice no may make of receiver R.
Reacted(R, P, no) ==
  /\ P.out = R.out /\ P.late = R.late
  /\ R.completed \subseteq P.completed /\ P.completed \subseteq R.completed \cup {no}
  /\ \A i \in 1..RecvSlots :
       P.slots[i].no = R.slots[i].no \/ (P.slots[i].no = no /\ no \notin R.completed)
  /\ R.produced <= P.produced
  /\ \/ P.phase = R.phase \/ (R.phase = "run" /\ P.phase = "drain")
     \/ P.phase = "dead" /\ P.produced = R.produced

\* The answers to it; an OK is given for a slice that was delivered, or for lack of a slot.
Replies(R, P, no, a) ==
  /\ a \in Seq(AnswerType)
  /\ \A k \in 1..Len(a) :
       /\ a[k].type # "DISC"
       /\ a[k].type = "OK" => a[k].no = no /\ (no \in P.completed \/ (FindSlot(R, no) = {} /\ SlotForNew(R) = {}))

LEMMA Unreacted ==
  ASSUME NEW R \in ReceiverRecord, NEW no
  PROVE  Reacted(R, R, no) /\ Replies(R, R, no, <<>>)
<1>1. R.produced \in Nat
  BY Records
<1> QED
  BY <1>1 DEF Reacted, Replies

LEMMA ReactedTwice ==
  ASSUME NEW R, NEW O, NEW P, NEW no, R.produced \in Nat, O.produced \in Nat, P.produced \in Nat,
         Reacted(R, O, no), Reacted(O, P, no), O.phase = R.phase, O.produced = R.produced
  PROVE  Reacted(R, P, no)
BY DEF Reacted

LEMMA NewestKept ==
  ASSUME NEW R, NEW O, NEW no \in Nat, Newest(R, no), Reacted(R, O, no)
  PROVE  Newest(O, no)
<1> SUFFICES ASSUME NEW k \in Heard(O) PROVE k <= no
  BY DEF Newest
<1>1. k = no \/ k \in Heard(R)
  BY DEF Heard, Reacted
<1> QED
  BY <1>1 DEF Newest

\* The slot a packet is about.
LEMMA Located ==
  ASSUME NEW start, NEW n \in Nat, NEW R, Receiver(R, start, n), R.phase # "start",
         NEW no \in 0..n - 1, Newest(R, no), NEW i \in SlotOf(R, no),
         FindSlot(R, no) = {} => no \notin R.completed /\ MayOpen(R)
  PROVE  LET O == WithSlot(R, i, no)
         IN  /\ i \in 1..RecvSlots /\ Receiver(O, start, n) /\ Reacted(R, O, no)
             /\ O.slots[i].no = no /\ O.slots[i].state # "Free"
             /\ O.phase = R.phase /\ O.produced = R.produced /\ Newest(O, no)
<1>1. R \in ReceiverRecord /\ no \in Nat
  BY DEF Receiver
<1>2. CASE FindSlot(R, no) # {}
  <2>1. WithSlot(R, i, no) = R /\ i \in FindSlot(R, no)
    BY <1>2 DEF WithSlot, SlotOf
  <2> QED
    BY <1>1, <2>1, Unreacted DEF FindSlot
<1>3. CASE FindSlot(R, no) = {}
  <2>1. WithSlot(R, i, no) = Open(R, i, no)
    BY <1>3 DEF WithSlot
  <2>2. i \in 1..RecvSlots /\ R.slots[i].state # "Receiving"
    BY <1>3 DEF SlotOf, SlotForNew, FirstIn, InState
  <2>3. \A k \in R.completed : k <= no
    BY DEF Newest, Heard
  <2>4. Receiver(Open(R, i, no), start, n)
    BY <1>3, <2>2, <2>3, Opened
  <2> DEFINE O == Open(R, i, no)
             sl == OpenSlot(R, no)
  <2>5. /\ O.slots = [R.slots EXCEPT ![i] = sl] /\ SameData(R, O) /\ O.phase = R.phase
        /\ sl.state = "Receiving" /\ sl.no = no
    BY <1>1, <2>2, OpenShape
  <2> HIDE DEF O, sl
  <2>6. R.slots \in [1..RecvSlots -> SlotType] /\ R.produced \in Nat
    BY <1>1, Records
  <2>7. O.slots[i].no = no /\ O.slots[i].state = "Receiving"
        /\ \A j \in 1..RecvSlots : O.slots[j].no = R.slots[j].no \/ O.slots[j].no = no
    BY <2>2, <2>5, <2>6
  <2>8. Reacted(R, O, no)
    BY <1>3, <2>5, <2>6, <2>7 DEF Reacted, SameData
  <2>9. Newest(O, no)
    BY <1>1, <2>8, NewestKept
  <2> QED
    BY <2>1, <2>2, <2>4, <2>5, <2>7, <2>8, <2>9 DEF O, SameData
<1> QED
  BY <1>2, <1>3

\* Delivering a slice, as the handlers see it.
LEMMA Delivering ==
  ASSUME NEW start, NEW n \in Nat, Cuts(start, n), NEW R, Receiver(R, start, n), R.phase \in {"run", "drain"},
         MaxSlice <= WaitFree,
         NEW i \in 1..RecvSlots, R.slots[i].state = "Receiving",
         NEW no, no = R.slots[i].no, Newest(R, no),
         R.slots[i].of = Size(start, no), HasAll(R.slots[i])
  PROVE  LET C == Complete(R, i)
         IN  /\ Receiver(C.rcv, start, n) /\ Reacted(R, C.rcv, no)
             /\ Replies(R, C.rcv, no, C.answers) /\ no \in C.rcv.completed
<1>1. R \in ReceiverRecord /\ R.slots[i] # FreeSlot
  BY FreeSlotFields DEF Receiver
<1>2. no \in 0..n - 1 /\ no \notin R.completed
  BY <1>1, FreeSlotFields DEF Receiver, SlotTable, SlotTruthful
<1> DEFINE Q == Complete(R, i).rcv
           a == Complete(R, i).answers
           sl == DoneSlot(R.slots[i])
<1>3. CompletedFacts(R, i, Q, a) /\ sl.no = no
  BY <1>1, <1>2, CompleteShape
<1> HIDE DEF Q, a, sl
<1>4. \A k \in R.completed : k <= no
  BY DEF Newest, Heard
<1>5. \A j \in 1..RecvSlots : R.slots[j].no <= no
  BY DEF Newest, Heard
<1>6. Receiver(Q, start, n)
  BY <1>3, <1>4, <1>5, Completes
<1>7. R.slots \in [1..RecvSlots -> SlotType] /\ R.produced \in Nat /\ R.slots[i].of \in Nat
  BY <1>1, Records DEF SlotType
<1>8. Reacted(R, Q, no)
  <2>1. \A j \in 1..RecvSlots : Q.slots[j].no = R.slots[j].no
    BY <1>3, <1>7 DEF CompletedFacts, sl
  <2> QED
    BY <1>3, <1>7, <2>1 DEF CompletedFacts, Reacted
<1>9. no \in Q.completed
  BY <1>3 DEF CompletedFacts
<1>10. a = <<>> \/ a = <<Ok(no)>>
  BY <1>3 DEF CompletedFacts
<1>11. Ok(no) \in AnswerType /\ Ok(no).type = "OK" /\ Ok(no).no = no
  <2>1. no \in Nat
    BY <1>2
  <2> QED
    BY <2>1 DEF Ok, AnswerType
<1>12. Replies(R, Q, no, a)
  <2>1. CASE a = <<>>
    BY <2>1 DEF Replies
  <2>2. CASE a = <<Ok(no)>>
    <3>1. a \in Seq(AnswerType) /\ Len(a) = 1 /\ a[1] = Ok(no)
      BY <1>11, <2>2
    <3>2. \A k \in 1..Len(a) : a[k] = Ok(no)
      BY <3>1
    <3> QED
      BY <1>9, <1>11, <3>1, <3>2 DEF Replies
  <2> QED
    BY <1>10, <2>1, <2>2
<1> QED
  BY <1>6, <1>8, <1>9, <1>12 DEF Q, a

\* A data block of the newest slice.
LEMMA DataProcessed ==
  ASSUME NEW start, NEW n \in Nat, Cuts(start, n), NEW R, Receiver(R, start, n), R.phase \in {"run", "drain"},
         MaxSlice <= WaitFree,
         NEW m \in PacketType, m.type = "DATA", Truthful(m, start, n), Newest(R, m.no), ~Stalls(R, m)
  PROVE  LET S == ProcessData(R, m)
         IN  Receiver(S.rcv, start, n) /\ Reacted(R, S.rcv, m.no) /\ Replies(R, S.rcv, m.no, S.answers)
<1> DEFINE no == m.no
<1>1. R \in ReceiverRecord
  BY DEF Receiver
<1>2. m.block \in Nat /\ m.content \in Nat /\ no \in 0..n - 1 /\ no \in Nat
      /\ m.of = Size(start, no) /\ m.block < m.of /\ m.content = start[no] + m.block + 1
  BY DEF PacketType, Truthful
<1>3. m.of \in Nat /\ m.of > 0
  BY <1>2, CutTypes
<1>4. FindSlot(R, no) = {} => no \notin R.completed
  BY DEF Receiver, SlotTable, Newest
<1> HIDE DEF no
<1>5. CASE SlotOf(R, no) = {}
  <2>1. ProcessData(R, m).rcv = R /\ ProcessData(R, m).answers = <<>>
    BY <1>5 DEF ProcessData, Step, no
  <2> QED
    BY <1>1, <2>1, Unreacted
<1>6. CASE SlotOf(R, no) # {}
  <2> DEFINE i == CHOOSE j \in SlotOf(R, no) : TRUE
             O == WithSlot(R, i, no)
             W == FilledReceiver(O, i, m.of, m.block, m.content)
  <2>1. i \in SlotOf(R, no)
    BY <1>6
  <2>2. ProcessData(R, m) = IF O.slots[i].state = "Done" \/ m.block \in O.slots[i].have THEN Step(O, <<>>)
                            ELSE CheckComplete(W, i)
    <3>1. m.content # NoByte
      BY <1>2 DEF NoByte
    <3> QED
      BY <1>6, <3>1 DEF ProcessData, FilledReceiver, no
  <2> HIDE DEF i
  <2>3. FindSlot(R, no) = {} => MayOpen(R)
    BY <1>6, <2>1 DEF Stalls, Blocked, SlotOf, no
  <2>4. /\ i \in 1..RecvSlots /\ Receiver(O, start, n) /\ Reacted(R, O, no)
        /\ O.slots[i].no = no /\ O.slots[i].state # "Free"
        /\ O.phase = R.phase /\ O.produced = R.produced /\ Newest(O, no)
    <3>1. Newest(R, no) /\ R.phase # "start"
      BY DEF no
    <3> QED
      BY <1>2, <1>4, <2>1, <2>3, <3>1, Located
  <2> HIDE DEF O, W
  <2>5. R.produced \in Nat /\ O \in ReceiverRecord /\ O.produced \in Nat
    BY <1>1, <2>4, Records DEF Receiver
  <2>6. CASE O.slots[i].state = "Done" \/ m.block \in O.slots[i].have
    <3>1. ProcessData(R, m).rcv = O /\ ProcessData(R, m).answers = <<>>
      BY <2>2, <2>6 DEF Step
    <3>2. Replies(R, O, no, <<>>)
      BY DEF Replies
    <3> QED
      BY <2>4, <3>1, <3>2 DEF no
  <2>7. CASE ~(O.slots[i].state = "Done" \/ m.block \in O.slots[i].have)
    <3>1. O.slots \in [1..RecvSlots -> SlotType] /\ O.slots[i] \in SlotType
      BY <2>4, <2>5, Records
    <3>2. O.slots[i].state = "Receiving"
      BY <2>4, <2>7, <3>1 DEF SlotType
    <3>3. FilledFacts(O, i, m.of, m.block, m.content)
      BY <1>2, <1>3, <2>4, <2>5, FilledShape
    <3> DEFINE sl == FilledSlot(O.slots[i], m.of, m.block)
    <3>4. /\ W \in ReceiverRecord /\ W.slots = [O.slots EXCEPT ![i] = sl]
          /\ W.completed = O.completed /\ W.produced = O.produced /\ W.out = O.out
          /\ W.late = O.late /\ W.phase = O.phase
          /\ sl.state = "Receiving" /\ sl.no = no /\ sl.of = m.of
      BY <2>4, <3>2, <3>3 DEF FilledFacts, W
    <3> HIDE DEF sl
    <3>5. Receiver(W, start, n)
      <4>1. \A j \in 1..RecvSlots : O.slots[j].no <= no
        BY <2>4 DEF Newest, Heard
      <4>2. O.phase # "start"
        BY <2>4
      <4> QED
        BY <1>2, <2>4, <3>2, <4>1, <4>2, Filled DEF W
    <3>6. W.slots[i] = sl /\ \A j \in 1..RecvSlots : W.slots[j].no = O.slots[j].no
      BY <2>4, <3>1, <3>4
    <3>7. Reacted(O, W, no)
      BY <2>5, <3>4, <3>6 DEF Reacted
    <3>8. Reacted(R, W, no) /\ W.produced \in Nat /\ Newest(W, no)
      BY <1>2, <2>4, <2>5, <3>4, <3>7, ReactedTwice, NewestKept
    <3>9. sl.fec = <<>>
      BY <3>4, <3>6, <2>4, Records DEF SlotType
    <3>10. CASE HasAll(sl)
      <4>1. ProcessData(R, m) = Complete(W, i)
        BY <1>3, <2>2, <2>7, <3>4, <3>6, <3>10 DEF CheckComplete
      <4> DEFINE C == Complete(W, i)
      <4>2. /\ Receiver(C.rcv, start, n) /\ Reacted(W, C.rcv, no)
            /\ Replies(W, C.rcv, no, C.answers) /\ no \in C.rcv.completed
        <5>1. W.phase \in {"run", "drain"}
          BY <2>4, <3>4
        <5>2. /\ W.slots[i].state = "Receiving" /\ no = W.slots[i].no
              /\ W.slots[i].of = Size(start, no) /\ HasAll(W.slots[i])
          BY <1>2, <3>4, <3>6, <3>10
        <5> QED
          BY <2>4, <3>5, <3>8, <5>1, <5>2, Delivering
      <4> HIDE DEF C
      <4>3. C.rcv.produced \in Nat
        BY <4>2, Records DEF Receiver
      <4>4. Reacted(R, C.rcv, no)
        BY <2>4, <2>5, <3>4, <3>8, <4>2, <4>3, ReactedTwice
      <4>5. Replies(R, C.rcv, no, C.answers)
        BY <4>2 DEF Replies
      <4> QED
        BY <4>1, <4>2, <4>4, <4>5 DEF no, C
    <3>11. CASE ~HasAll(sl)
      <4>1. ProcessData(R, m) = Step(W, <<>>)
        BY <1>3, <2>2, <2>7, <3>4, <3>6, <3>9, <3>11 DEF CheckComplete
      <4>2. Replies(R, W, no, <<>>)
        BY DEF Replies
      <4> QED
        BY <3>5, <3>8, <4>1, <4>2 DEF Step, no
    <3> QED
      BY <3>10, <3>11
  <2> QED
    BY <2>6, <2>7
<1> QED
  BY <1>5, <1>6

LEMMA OkFirst ==
  ASSUME NEW R, NEW P, NEW no \in Nat, NEW a, Replies(R, P, no, a),
         no \in P.completed \/ (FindSlot(R, no) = {} /\ SlotForNew(R) = {})
  PROVE  Replies(R, P, no, <<Ok(no)>> \o a)
<1> DEFINE o == Ok(no)
           b == <<o>> \o a
<1>1. o \in AnswerType /\ o.type = "OK" /\ o.no = no
  BY DEF Ok, AnswerType
<1>2. a \in Seq(AnswerType)
  BY DEF Replies
<1> HIDE DEF o
<1>3. b \in Seq(AnswerType) /\ Len(b) = Len(a) + 1 /\ b[1] = o /\ \A k \in 2..Len(b) : b[k] = a[k - 1]
  BY <1>1, <1>2
<1> HIDE DEF b
<1>4. ASSUME NEW k \in 1..Len(b)
      PROVE  /\ b[k].type # "DISC"
             /\ b[k].type = "OK" => b[k].no = no /\ (no \in P.completed \/ (FindSlot(R, no) = {} /\ SlotForNew(R) = {}))
  <2>1. CASE k = 1
    BY <1>1, <1>3, <2>1
  <2>2. CASE k # 1
    <3>1. k \in 2..Len(b) /\ k - 1 \in 1..Len(a)
      BY <1>2, <1>3, <2>2
    <3> QED
      BY <1>3, <3>1 DEF Replies
  <2> QED
    BY <2>1, <2>2
<1>5. Replies(R, P, no, b)
  BY <1>3, <1>4 DEF Replies
<1> QED
  BY <1>5 DEF b, o

LEMMA RetrReplies ==
  ASSUME NEW R, NEW P, NEW no \in Nat, NEW have \in SUBSET Nat
  PROVE  Replies(R, P, no, <<Retr(no, have)>>)
<1> DEFINE o == Retr(no, have)
<1>1. o \in AnswerType /\ o.type = "RETR"
  BY DEF Retr, AnswerType
<1> HIDE DEF o
<1>2. <<o>> \in Seq(AnswerType) /\ Len(<<o>>) = 1 /\ <<o>>[1] = o
  BY <1>1
<1> QED
  BY <1>1, <1>2 DEF Replies, o

\* A REQACK of the newest slice.
LEMMA ReqackProcessed ==
  ASSUME NEW start, NEW n \in Nat, Cuts(start, n), NEW R, Receiver(R, start, n), R.phase \in {"run", "drain"},
         MaxSlice <= WaitFree,
         NEW m \in PacketType, m.type = "REQACK", Truthful(m, start, n), Newest(R, m.no), ~Stalls(R, m)
  PROVE  LET S == ProcessReqack(R, m)
         IN  Receiver(S.rcv, start, n) /\ Reacted(R, S.rcv, m.no) /\ Replies(R, S.rcv, m.no, S.answers)
<1> DEFINE no == m.no
<1>1. R \in ReceiverRecord
  BY DEF Receiver
<1>2. no \in 0..n - 1 /\ no \in Nat /\ m.of = Size(start, no)
  BY DEF PacketType, Truthful
<1>3. m.of \in Nat
  BY <1>2, CutTypes
<1> HIDE DEF no
<1>4. CASE FindSlot(R, no) = {} /\ (no \in R.completed \/ SlotForNew(R) = {})
  <2>1. ProcessReqack(R, m).rcv = R /\ ProcessReqack(R, m).answers = <<Ok(no)>>
    BY <1>4 DEF ProcessReqack, Step, no
  <2>2. Reacted(R, R, no) /\ Replies(R, R, no, <<>>)
    BY <1>1, Unreacted
  <2>3. Replies(R, R, no, <<Ok(no)>> \o <<>>)
    BY <1>2, <1>4, <2>2, OkFirst
  <2>4. Replies(R, R, no, <<Ok(no)>>)
    BY <2>3
  <2> QED
    BY <2>1, <2>2, <2>4 DEF no
<1>5. CASE ~(FindSlot(R, no) = {} /\ (no \in R.completed \/ SlotForNew(R) = {}))
  <2> DEFINE i == CHOOSE j \in SlotOf(R, no) : TRUE
             O == WithSlot(R, i, no)
             W == SizedReceiver(O, i, m.of)
             C == Complete(W, i)
  <2>1. i \in SlotOf(R, no)
    BY <1>5 DEF SlotOf
  <2>2. ProcessReqack(R, m) = IF HasAll(W.slots[i]) THEN Step(C.rcv, <<Ok(no)>> \o C.answers)
                              ELSE Step(W, <<Retr(no, W.slots[i].have)>>)
    BY <1>5 DEF ProcessReqack, SizedReceiver, no
  <2> HIDE DEF i
  <2>3. FindSlot(R, no) = {} => no \notin R.completed /\ MayOpen(R)
    BY <1>5 DEF Stalls, Blocked, no
  <2>4. /\ i \in 1..RecvSlots /\ Receiver(O, start, n) /\ Reacted(R, O, no)
        /\ O.slots[i].no = no /\ O.slots[i].state # "Free"
        /\ O.phase = R.phase /\ O.produced = R.produced /\ Newest(O, no)
    <3>1. Newest(R, no) /\ R.phase # "start"
      BY DEF no
    <3> QED
      BY <1>2, <2>1, <2>3, <3>1, Located
  <2> HIDE DEF O, W, C
  <2>5. R.produced \in Nat /\ O \in ReceiverRecord /\ O.produced \in Nat
        /\ O.slots \in [1..RecvSlots -> SlotType]
    BY <1>1, <2>4, Records DEF Receiver
  <2> DEFINE sl == SizedSlot(O.slots[i], m.of)
  <2>6. /\ W \in ReceiverRecord /\ W.slots = [O.slots EXCEPT ![i] = sl]
        /\ SameData(O, W) /\ W.phase = O.phase
        /\ sl.state = O.slots[i].state /\ sl.no = no /\ sl.of = m.of /\ sl.have = O.slots[i].have
    BY <1>3, <2>4, <2>5, SizedShape DEF W
  <2> HIDE DEF sl
  <2>7. W.slots[i] = sl /\ \A j \in 1..RecvSlots : W.slots[j].no = O.slots[j].no
    BY <2>4, <2>5, <2>6
  <2>8. Receiver(W, start, n)
    <3>1. O.phase # "start"
      BY <2>4
    <3> QED
      BY <1>2, <2>4, <3>1, Sized DEF W
  <2>9. Reacted(O, W, no)
    BY <2>5, <2>6, <2>7 DEF Reacted, SameData
  <2>10. Reacted(R, W, no) /\ W.produced \in Nat /\ Newest(W, no)
    <3>1. W.produced \in Nat
      BY <2>6, Records
    <3> QED
      BY <1>2, <2>4, <2>5, <2>9, <3>1, ReactedTwice, NewestKept
  <2>11. CASE ~HasAll(W.slots[i])
    <3>1. W.slots[i].have \in SUBSET Nat
      BY <2>4, <2>6, Records DEF SlotType
    <3>2. Replies(R, W, no, <<Retr(no, W.slots[i].have)>>)
      BY <1>2, <3>1, RetrReplies
    <3> QED
      BY <2>2, <2>8, <2>10, <2>11, <3>2 DEF Step, no
  <2>12. CASE HasAll(W.slots[i])
    <3>1. Receiver(C.rcv, start, n) /\ Reacted(W, C.rcv, no) /\ Replies(W, C.rcv, no, C.answers)
          /\ no \in C.rcv.completed
      <4>1. CASE W.slots[i].state = "Done"
        <5>1. C.rcv = W /\ C.answers = <<>>
          BY <4>1 DEF C, Complete, Step
        <5>2. no \in W.completed
          <6>1. SlotTruthful(W.slots[i], W.completed, start, n)
            BY <2>4, <2>8 DEF Receiver, SlotTable
          <6> QED
            BY <2>6, <2>7, <4>1, <6>1, FreeSlotFields DEF SlotTruthful
        <5> QED
          BY <2>6, <2>8, <5>1, <5>2, Unreacted
      <4>2. CASE W.slots[i].state # "Done"
        <5>1. W.slots[i].state = "Receiving"
          BY <2>4, <2>5, <2>6, <2>7, <4>2 DEF SlotType
        <5>2. W.phase \in {"run", "drain"} /\ no = W.slots[i].no /\ W.slots[i].of = Size(start, no)
          BY <1>2, <2>4, <2>6, <2>7
        <5> QED
          BY <2>4, <2>8, <2>10, <2>12, <5>1, <5>2, Delivering DEF C
      <4> QED
        BY <4>1, <4>2
    <3>2. C.rcv.produced \in Nat
      BY <3>1, Records DEF Receiver
    <3>3. Reacted(R, C.rcv, no)
      BY <2>4, <2>5, <2>6, <2>10, <3>1, <3>2, ReactedTwice DEF SameData
    <3>4. Replies(R, C.rcv, no, C.answers)
      BY <3>1 DEF Replies
    <3>5. Replies(R, C.rcv, no, <<Ok(no)>> \o C.answers)
      BY <1>2, <3>1, <3>4, OkFirst
    <3> QED
      BY <2>2, <2>12, <3>1, <3>3, <3>5 DEF Step, no
  <2> QED
    BY <2>11, <2>12
<1> QED
  BY <1>4, <1>5

\* A change of the phase, and of whether a packet was seen.
LEMMA PhaseChanged ==
  ASSUME NEW start, NEW n \in Nat, NEW R, Receiver(R, start, n),
         NEW Q \in ReceiverRecord, SameData(R, Q), Q.slots = R.slots,
         Q.phase = "start" => R.phase = "start",
         Q.phase \in {"drain", "exited", "finished"} => \E no \in R.completed : Size(start, no) = 0,
         Q.phase = "finished" => R.dataEnd /\ Written(R) = R.produced
  PROVE  Receiver(Q, start, n) /\ Known(Q) = Known(R) /\ Heard(Q) = Heard(R)
<1>1. Written(Q) = Written(R) /\ Unwritten(Q) = Unwritten(R)
  BY DEF SameData, Written, Unwritten
<1>2. Heard(Q) = Heard(R) /\ Known(Q) = Known(R) /\ \A no : FindSlot(Q, no) = FindSlot(R, no)
  BY DEF SameData, Heard, Known, FindSlot
<1>3. SlotTable(Q, start, n)
  BY <1>2 DEF Receiver, SlotTable, SameData
<1>4. Delivered(Q, start, n)
  BY <1>1 DEF Receiver, Delivered, SameData
<1>5. Ends(Q, start)
  BY <1>1 DEF Receiver, Ends, SameData
<1>6. Late(Q, start, n)
  BY DEF Receiver, Late, SameData
<1>7. ASSUME NEW c \in 0..n, Q.completed = 0..c - 1
      PROVE  Prefix(Q, start, c)
  <2>1. Prefix(R, start, c)
    BY <1>7 DEF Receiver, SameData
  <2> QED
    BY <1>1, <2>1 DEF Prefix, SameData
<1> QED
  BY <1>2, <1>3, <1>4, <1>5, <1>6, <1>7 DEF Receiver

LEMMA Looped ==
  ASSUME NEW start, NEW n \in Nat, NEW R, Receiver(R, start, n)
  PROVE  LET Q == AfterPacket(R)
         IN  /\ Receiver(Q, start, n) /\ SameData(R, Q) /\ Q.slots = R.slots
             /\ Q.phase = R.phase \/ (R.phase = "run" /\ Q.phase = "drain")
<1>1. R \in ReceiverRecord
  BY DEF Receiver
<1>2. CASE R.phase = "run" /\ \E i \in 1..RecvSlots : R.slots[i].state = "Done" /\ R.slots[i].of = 0
  <2> DEFINE Q == [R EXCEPT !.phase = "drain"]
  <2>1. AfterPacket(R) = Q
    BY <1>2 DEF AfterPacket
  <2>2. Q \in ReceiverRecord /\ Q.phase = "drain" /\ SameData(R, Q) /\ Q.slots = R.slots
    BY <1>1 DEF ReceiverRecord, SameData
  <2>3. PICK i \in 1..RecvSlots : R.slots[i].state = "Done" /\ R.slots[i].of = 0
    BY <1>2
  <2>4. R.slots[i].no \in R.completed /\ Size(start, R.slots[i].no) = 0
    BY <2>3, FreeSlotFields DEF Receiver, SlotTable, SlotTruthful
  <2> HIDE DEF Q
  <2>5. Receiver(Q, start, n)
    BY <2>2, <2>4, PhaseChanged
  <2> QED
    BY <1>2, <2>1, <2>2, <2>5
<1>3. CASE ~(R.phase = "run" /\ \E i \in 1..RecvSlots : R.slots[i].state = "Done" /\ R.slots[i].of = 0)
  <2>1. AfterPacket(R) = R
    BY <1>3 DEF AfterPacket
  <2> QED
    BY <2>1 DEF SameData
<1> QED
  BY <1>2, <1>3

\* The answers speak of what the receiver delivered, not of its phase.
LEMMA ReactedLoop ==
  ASSUME NEW R \in ReceiverRecord, NEW P, NEW Q, NEW no, NEW a, Reacted(R, P, no), Replies(R, P, no, a),
         SameData(P, Q), Q.slots = P.slots, Q.phase = P.phase \/ (P.phase = "run" /\ Q.phase = "drain"),
         R.phase \in {"run", "drain"}
  PROVE  Reacted(R, Q, no) /\ Replies(R, Q, no, a)
BY DEF Reacted, Replies, SameData

\* The data phase loop, for a packet that is no older than what the receiver heard of.
LEMMA PacketProcessed ==
  ASSUME NEW start, NEW n \in Nat, Cuts(start, n), NEW R, Receiver(R, start, n), R.phase \in {"run", "drain"},
         MaxSlice <= WaitFree,
         NEW m \in PacketType, Truthful(m, start, n), m.type # "REPLY" => Newest(R, m.no), ~Stalls(R, m)
  PROVE  LET S == ProcessPacket(R, m)
         IN  /\ Receiver(S.rcv, start, n)
             /\ m.type = "REPLY" => S.answers = <<>> /\ \A no : Reacted(R, S.rcv, no)
             /\ m.type # "REPLY" => Reacted(R, S.rcv, m.no) /\ Replies(R, S.rcv, m.no, S.answers)
<1>1. R \in ReceiverRecord
  BY DEF Receiver
<1>2. CASE m.type = "REPLY"
  <2>1. ProcessPacket(R, m).rcv = AfterPacket(R) /\ ProcessPacket(R, m).answers = <<>>
    BY <1>2 DEF ProcessPacket, After, Step
  <2>2. /\ Receiver(AfterPacket(R), start, n) /\ SameData(R, AfterPacket(R)) /\ AfterPacket(R).slots = R.slots
        /\ AfterPacket(R).phase = R.phase \/ (R.phase = "run" /\ AfterPacket(R).phase = "drain")
    BY Looped
  <2>3. \A no : Reacted(R, AfterPacket(R), no)
    BY <1>1, <2>2, Unreacted, ReactedLoop
  <2> QED
    BY <1>2, <2>1, <2>2, <2>3
<1>3. CASE m.type # "REPLY"
  <2> DEFINE Q == [R EXCEPT !.started = TRUE]
             no == m.no
             S == Process(Q, m)
  <2>1. /\ ProcessPacket(R, m).rcv = AfterPacket(S.rcv) /\ ProcessPacket(R, m).answers = S.answers
    BY <1>3 DEF ProcessPacket, After, Step
  <2>2. Q \in ReceiverRecord /\ SameData(R, Q) /\ Q.slots = R.slots /\ Q.phase = R.phase
    BY <1>1 DEF ReceiverRecord, SameData
  <2> HIDE DEF Q, no
  <2>3. Receiver(Q, start, n) /\ Newest(Q, no)
    <3>1. /\ Q.phase = "start" => R.phase = "start"
          /\ Q.phase \in {"drain", "exited", "finished"} => \E x \in R.completed : Size(start, x) = 0
          /\ Q.phase = "finished" => R.dataEnd /\ Written(R) = R.produced
      BY <2>2 DEF Receiver, Ends
    <3>2. Receiver(Q, start, n) /\ Heard(Q) = Heard(R)
      BY <2>2, <3>1, PhaseChanged
    <3> QED
      BY <1>3, <3>2 DEF Newest, no
  <2>4. FindSlot(Q, no) = FindSlot(R, no) /\ SlotForNew(Q) = SlotForNew(R)
    BY <2>2 DEF FindSlot, SlotForNew, InState
  <2>5. ~Stalls(Q, m)
    <3>1. MayOpen(Q) <=> MayOpen(R)
      BY <2>2 DEF MayOpen, Unwritten, Written, SameData
    <3> QED
      BY <2>2, <2>4, <3>1 DEF Stalls, Blocked, SameData, no
  <2>6. Receiver(S.rcv, start, n) /\ Reacted(Q, S.rcv, no) /\ Replies(Q, S.rcv, no, S.answers)
    <3>1. CASE m.type = "DATA"
      <4>1. S = ProcessData(Q, m)
        BY <3>1 DEF Process
      <4> QED
        BY <2>2, <2>3, <2>5, <3>1, <4>1, DataProcessed DEF no
    <3>2. CASE m.type = "REQACK"
      <4>1. S = ProcessReqack(Q, m)
        BY <3>2 DEF Process
      <4> QED
        BY <2>2, <2>3, <2>5, <3>2, <4>1, ReqackProcessed DEF no
    <3> QED
      BY <1>3, <3>1, <3>2 DEF PacketType
  <2> HIDE DEF S
  <2>7. Reacted(R, S.rcv, no) /\ Replies(R, S.rcv, no, S.answers)
    BY <2>2, <2>4, <2>6 DEF Reacted, Replies, SameData
  <2> DEFINE P == AfterPacket(S.rcv)
  <2>8. /\ Receiver(P, start, n) /\ SameData(S.rcv, P) /\ P.slots = S.rcv.slots
        /\ P.phase = S.rcv.phase \/ (S.rcv.phase = "run" /\ P.phase = "drain")
    BY <2>6, Looped
  <2> HIDE DEF P
  <2>9. Reacted(R, P, no) /\ Replies(R, P, no, S.answers)
    BY <1>1, <2>7, <2>8, ReactedLoop
  <2> QED
    BY <1>3, <2>1, <2>8, <2>9 DEF P, S, Q, no
<1> QED
  BY <1>2, <1>3

-----------------------------------------------------------------------------
(* The start phase. *)

LEMMA ElementOf ==
  ASSUME NEW T, NEW q \in Seq(T), NEW k \in 1..Len(q)
  PROVE  q[k] \in T
OBVIOUS

LEMMA SequenceOf ==
  ASSUME NEW T, NEW N \in Nat, NEW q \in [1..N -> T]
  PROVE  q \in Seq(T) /\ Len(q) = N
OBVIOUS

\* What the sniffer notes.
LEMMA Noted ==
  ASSUME NEW start, NEW n \in Nat, NEW R, Receiver(R, start, n), R.phase = "start",
         NEW m \in PacketType, m.type # "REPLY", Truthful(m, start, n)
  PROVE  LET Q == Note(R, m)
         IN  /\ Receiver(Q, start, n) /\ Q.phase = "start" /\ Known(Q) \subseteq Known(R) \cup {m.no}
             /\ Q.slots = R.slots /\ Q.completed = R.completed /\ Q.produced = R.produced /\ Q.out = R.out
<1> DEFINE Q == Note(R, m)
           old == {k \in 1..Len(R.late) : R.late[k].no = m.no}
           of == m.of
           no == m.no
           longer == Append(R.late, [no |-> no, of |-> of])
           again == [k \in 1..Len(R.late) |-> IF k \in old THEN [R.late[k] EXCEPT !.of = of] ELSE R.late[k]]
           E == [no : Nat, of : Nat]
<1>1. R \in ReceiverRecord /\ R.late \in Seq(E)
  BY Records DEF Receiver
<1>2. no \in 0..n - 1 /\ no \in Nat /\ of \in Nat /\ of = Size(start, no)
  BY DEF PacketType, Truthful
<1>3. \A k \in 1..Len(R.late) : R.late[k].no < n /\ R.late[k].of = Size(start, R.late[k].no)
  BY DEF Receiver, Late
<1>4. Q = [R EXCEPT !.late = IF old = {} THEN longer ELSE again]
  BY <1>1 DEF Note, ReceiverRecord
<1> DEFINE l == IF old = {} THEN longer ELSE again
<1>5. /\ l \in Seq(E)
      /\ \A k \in 1..Len(l) : l[k].no < n /\ l[k].of = Size(start, l[k].no)
      /\ \A k \in 1..Len(l) : l[k].no = no \/ \E j \in 1..Len(R.late) : l[k].no = R.late[j].no
  <2>1. CASE old = {}
    <3> DEFINE e == [no |-> no, of |-> of]
    <3>1. e \in E /\ e.no = no /\ e.of = of
      BY <1>2
    <3> HIDE DEF e
    <3>2. longer \in Seq(E) /\ Len(longer) = Len(R.late) + 1 /\ longer[Len(R.late) + 1] = e
          /\ \A k \in 1..Len(R.late) : longer[k] = R.late[k]
      BY <1>1, <3>1 DEF e
    <3>3. l = longer
      BY <2>1
    <3> HIDE DEF l, longer
    <3>4. ASSUME NEW k \in 1..Len(l)
          PROVE  /\ l[k].no < n /\ l[k].of = Size(start, l[k].no)
                 /\ l[k].no = no \/ \E j \in 1..Len(R.late) : l[k].no = R.late[j].no
      <4>1. CASE k \in 1..Len(R.late)
        BY <1>3, <3>2, <3>3, <4>1
      <4>2. CASE k \notin 1..Len(R.late)
        <5>1. k = Len(R.late) + 1
          BY <1>1, <3>2, <3>3, <4>2
        <5> QED
          BY <1>2, <3>1, <3>2, <3>3, <5>1
      <4> QED
        BY <4>1, <4>2
    <3> QED
      BY <3>2, <3>3, <3>4
  <2>2. CASE old # {}
    <3>1. l = again
      BY <2>2
    <3> DEFINE N == Len(R.late)
    <3>2. N \in Nat
      BY <1>1
    <3>3. ASSUME NEW k \in 1..N
          PROVE  again[k] \in E /\ again[k].no = R.late[k].no /\ again[k].of = Size(start, R.late[k].no)
      <4>1. R.late[k] \in E
        BY <1>1, ElementOf
      <4> QED
        BY <1>2, <1>3, <4>1
    <3>4. again \in Seq(E) /\ Len(again) = N
      <4>1. again \in [1..N -> E]
        BY <3>3
      <4> HIDE DEF again, E, N
      <4> QED
        BY <3>2, <4>1, SequenceOf
    <3> HIDE DEF again, l, old
    <3> QED
      BY <1>3, <3>1, <3>3, <3>4
  <2> QED
    BY <2>1, <2>2
<1> HIDE DEF l, old, longer, again
<1>6. Q = [R EXCEPT !.late = l]
  BY <1>4 DEF l
<1>7. /\ Q \in ReceiverRecord /\ Q.late = l /\ Q.slots = R.slots /\ Q.completed = R.completed
      /\ Q.produced = R.produced /\ Q.out = R.out /\ Q.ring = R.ring /\ Q.dataEnd = R.dataEnd
      /\ Q.phase = R.phase
  BY <1>1, <1>5, <1>6 DEF ReceiverRecord
<1> HIDE DEF Q
<1>8. Written(Q) = Written(R) /\ Unwritten(Q) = Unwritten(R)
  BY <1>7 DEF Written, Unwritten
<1>9. Heard(Q) = Heard(R) /\ \A x : FindSlot(Q, x) = FindSlot(R, x)
  BY <1>7 DEF Heard, FindSlot
<1>10. SlotTable(Q, start, n) /\ Delivered(Q, start, n) /\ Ends(Q, start)
  BY <1>7, <1>8, <1>9 DEF Receiver, SlotTable, Delivered, Ends
<1>11. Late(Q, start, n)
  BY <1>5, <1>7 DEF Receiver, Late
<1>12. ASSUME NEW c \in 0..n, Q.completed = 0..c - 1
       PROVE  Prefix(Q, start, c)
  <2>1. Prefix(R, start, c)
    BY <1>7, <1>12 DEF Receiver
  <2> QED
    BY <1>7, <1>8, <2>1 DEF Prefix
<1>13. Known(Q) \subseteq Known(R) \cup {no}
  <2> SUFFICES ASSUME NEW k \in Known(Q), k # no PROVE k \in Known(R)
    OBVIOUS
  <2>1. CASE k \in Heard(Q)
    BY <1>9, <2>1 DEF Known
  <2>2. CASE k \notin Heard(Q)
    <3>1. PICK j \in 1..Len(l) : k = l[j].no
      BY <1>7, <2>2 DEF Known
    <3>2. PICK h \in 1..Len(R.late) : k = R.late[h].no
      BY <1>5, <3>1
    <3> QED
      BY <3>2 DEF Known
  <2> QED
    BY <2>1, <2>2
<1> QED
  BY <1>7, <1>10, <1>11, <1>12, <1>13 DEF Receiver, Q

\* A slot for one of the slices noted.
SeedStep(P, e) ==
  IF SlotOf(P, e.no) = {} THEN P
  ELSE LET i == CHOOSE j \in SlotOf(P, e.no) : TRUE
       IN  [WithSlot(P, i, e.no) EXCEPT !.slots[i].of = e.of]

\* What is made of receiver R while the slices noted get their slots.
Seedling(R, P) ==
  /\ P.completed = {} /\ P.produced = 0 /\ P.out = <<>> /\ P.phase = "run"
  /\ P.late = R.late /\ Known(P) \subseteq Known(R)

LEMMA SeedStepKept ==
  ASSUME NEW start, NEW n \in Nat, Cuts(start, n), NEW R, NEW P, Receiver(P, start, n), Seedling(R, P),
         NEW k \in 1..Len(R.late), R.late \in Seq([no : Nat, of : Nat]), NEW e, e = R.late[k],
         e.no < n, e.of = Size(start, e.no)
  PROVE  Receiver(SeedStep(P, e), start, n) /\ Seedling(R, SeedStep(P, e))
<1> DEFINE no == e.no
           of == e.of
<1>1. P \in ReceiverRecord /\ no \in Nat /\ no \in 0..n - 1 /\ of \in Nat /\ of = Size(start, no)
  <2>1. e \in [no : Nat, of : Nat]
    BY ElementOf
  <2> QED
    BY <2>1 DEF Receiver
<1>2. no \in Known(R)
  BY DEF Known
<1> HIDE DEF no, of
<1>3. CASE SlotOf(P, no) = {}
  BY <1>3 DEF SeedStep, no
<1>4. CASE SlotOf(P, no) # {}
  <2> DEFINE i == CHOOSE j \in SlotOf(P, no) : TRUE
             O == WithSlot(P, i, no)
             W == SizedReceiver(O, i, of)
  <2>1. i \in SlotOf(P, no) /\ SeedStep(P, e) = W
    BY <1>4 DEF SeedStep, SizedReceiver, no, of
  <2> HIDE DEF i
  <2>2. MayOpen(P)
    BY RecvAssumption DEF MayOpen, Unwritten, Written, Seedling
  <2>3. /\ i \in 1..RecvSlots /\ Receiver(O, start, n) /\ Seedling(R, O)
        /\ O.slots[i].no = no /\ O.slots[i].state # "Free"
    <3>1. CASE FindSlot(P, no) # {}
      BY <2>1, <3>1 DEF O, WithSlot, SlotOf, FindSlot
    <3>2. CASE FindSlot(P, no) = {}
      <4>1. O = Open(P, i, no) /\ i \in 1..RecvSlots /\ P.slots[i].state # "Receiving"
        BY <2>1, <3>2 DEF O, WithSlot, SlotOf, SlotForNew, FirstIn, InState
      <4>2. Receiver(Open(P, i, no), start, n)
        BY <1>1, <2>2, <3>2, <4>1, Opened DEF Seedling
      <4> DEFINE sl == OpenSlot(P, no)
      <4>3. /\ O.slots = [P.slots EXCEPT ![i] = sl] /\ SameData(P, O) /\ O.phase = P.phase
            /\ sl.state = "Receiving" /\ sl.no = no
        BY <1>1, <4>1, OpenShape
      <4> HIDE DEF O, sl
      <4>4. P.slots \in [1..RecvSlots -> SlotType]
        BY <1>1, Records
      <4>5. O.slots[i].no = no /\ O.slots[i].state = "Receiving"
            /\ \A j \in 1..RecvSlots : O.slots[j].no = P.slots[j].no \/ O.slots[j].no = no
        BY <4>1, <4>3, <4>4
      <4>6. Known(O) \subseteq Known(P) \cup {no}
        BY <4>3, <4>5 DEF Known, Heard, SameData
      <4> QED
        BY <1>2, <4>1, <4>2, <4>3, <4>5, <4>6 DEF Seedling, SameData
    <3> QED
      BY <3>1, <3>2
  <2> HIDE DEF O, W
  <2>4. Receiver(W, start, n)
    <3>1. O.phase # "start"
      BY <2>3 DEF Seedling
    <3> QED
      BY <1>1, <2>3, <3>1, Sized DEF W
  <2>5. O \in ReceiverRecord /\ O.slots \in [1..RecvSlots -> SlotType]
    BY <2>3, Records DEF Receiver
  <2> DEFINE sl == SizedSlot(O.slots[i], of)
  <2>6. W.slots = [O.slots EXCEPT ![i] = sl] /\ SameData(O, W) /\ W.phase = O.phase /\ sl.no = no
    BY <1>1, <2>3, <2>5, SizedShape DEF W
  <2> HIDE DEF sl
  <2>7. \A j \in 1..RecvSlots : W.slots[j].no = O.slots[j].no
    BY <2>3, <2>5, <2>6
  <2>8. Known(W) = Known(O)
    BY <2>6, <2>7 DEF Known, Heard, SameData
  <2>9. Seedling(R, W)
    BY <2>3, <2>6, <2>8 DEF Seedling, SameData
  <2> QED
    BY <2>1, <2>4, <2>9
<1> QED
  BY <1>3, <1>4

\* The data phase starts with the slices noted.
LEMMA Seeded ==
  ASSUME NEW start, NEW n \in Nat, Cuts(start, n), NEW R, Receiver(R, start, n), R.phase = "start"
  PROVE  Receiver(Seed(R), start, n) /\ Seedling(R, Seed(R))
<1>1. R \in ReceiverRecord /\ R.late \in Seq([no : Nat, of : Nat])
  BY Records DEF Receiver
<1> DEFINE N == Len(R.late)
           x == [R EXCEPT !.phase = "run"]
           S == {P \in ReceiverRecord : Receiver(P, start, n) /\ Seedling(R, P)}
           F == [k \in 1..N |-> [P \in S |-> SeedStep(P, R.late[k])]]
           Grows(u) == u = [k \in 0..N |-> IF k = 0 THEN x ELSE SeedStep(u[k - 1], R.late[k])]
<1>2. N \in Nat
  BY <1>1
<1>3. x \in S
  <2>1. x \in ReceiverRecord /\ SameData(R, x) /\ x.slots = R.slots /\ x.phase = "run"
    BY <1>1 DEF ReceiverRecord, SameData
  <2> HIDE DEF x
  <2>2. Receiver(x, start, n) /\ Known(x) = Known(R)
    BY <2>1, PhaseChanged
  <2>3. Seedling(R, x)
    BY <2>1, <2>2 DEF Seedling, SameData, Receiver, Late
  <2> QED
    BY <2>1, <2>2, <2>3
<1>4. ASSUME NEW k \in 1..N, NEW P \in S
      PROVE  SeedStep(P, R.late[k]) \in S
  <2>1. R.late[k].no < n /\ R.late[k].of = Size(start, R.late[k].no)
    BY DEF Receiver, Late
  <2>2. Receiver(SeedStep(P, R.late[k]), start, n) /\ Seedling(R, SeedStep(P, R.late[k]))
    BY <1>1, <2>1, SeedStepKept
  <2> QED
    BY <2>2 DEF Receiver
<1> HIDE DEF S, x
<1>5. F \in [1..N -> [S -> S]]
  BY <1>4
<1>6. PICK f \in [0..N -> S] : Runs(N, F, x, f)
  <2> HIDE DEF F, N
  <2> QED
    BY <1>2, <1>3, <1>5, Iteration
<1>7. Grows(f)
  <2>1. ASSUME NEW k \in 0..N
        PROVE  f[k] = IF k = 0 THEN x ELSE SeedStep(f[k - 1], R.late[k])
    <3>1. CASE k = 0
      BY <1>6, <3>1 DEF Runs
    <3>2. CASE k # 0
      <4>1. k \in 1..N /\ k - 1 \in 0..N
        BY <1>2, <3>2
      <4>2. f[k - 1] \in S /\ f[k] = F[k][f[k - 1]]
        BY <1>6, <4>1 DEF Runs
      <4> QED
        BY <3>2, <4>1, <4>2
    <3> QED
      BY <3>1, <3>2
  <2>2. f = [k \in 0..N |-> f[k]]
    BY <1>6
  <2> HIDE DEF N
  <2> QED
    BY <2>1, <2>2
<1> DEFINE g == CHOOSE u : Grows(u)
<1>8. Grows(g)
  <2> HIDE DEF Grows
  <2> QED
    BY <1>7
<1>9. Seed(R) = g[N]
  BY DEF Seed, SeedStep, x
<1> HIDE DEF g
<1>10. g[0] = x /\ \A k \in 1..N : g[k] = SeedStep(g[k - 1], R.late[k])
  BY <1>2, <1>8
<1> DEFINE Good == {k \in 0..N : g[k] \in S}
<1>11. 0 \in Good
  BY <1>2, <1>3, <1>10
<1>12. ASSUME NEW k \in 1..N, k - 1 \in Good
       PROVE  k \in Good
  <2>1. k \in 0..N /\ g[k - 1] \in S
    BY <1>2, <1>12
  <2> QED
    BY <1>4, <1>10, <2>1
<1>13. N \in Good
  <2> HIDE DEF Good, N
  <2>1. 0..N \subseteq Good
    BY <1>2, <1>11, <1>12, UpTo
  <2> QED
    BY <1>2, <2>1
<1> QED
  BY <1>9, <1>13 DEF S

-----------------------------------------------------------------------------
(* The writer. *)

LEMMA Wrote ==
  ASSUME NEW start, NEW n \in Nat, NEW R, Receiver(R, start, n), CanWrite(R)
  PROVE  LET Q == WriteBlock(R)
         IN  /\ Receiver(Q, start, n) /\ Known(Q) = Known(R) /\ Q.slots = R.slots
             /\ Q.completed = R.completed /\ Q.produced = R.produced /\ Q.phase = R.phase
             /\ Q.out = Append(R.out, R.ring[Written(R) % RecvRing]) /\ Written(Q) = Written(R) + 1
             /\ Q.dataEnd = R.dataEnd
<1> DEFINE Q == WriteBlock(R)
           b == R.ring[Written(R) % RecvRing]
<1>1. R \in ReceiverRecord /\ R.out \in Seq(Nat) /\ Written(R) \in Nat /\ R.produced \in Nat
      /\ R.ring \in [0..RecvRing - 1 -> Nat] /\ RecvRing \in Nat \ {0} /\ WaitFree \in Nat
  BY Records, RecvAssumption DEF Receiver
<1>2. Written(R) < R.produced /\ R.phase \in {"run", "drain", "exited"}
  BY <1>1 DEF CanWrite, Unwritten
<1>3. b \in Nat
  BY <1>1, DivMod
<1> DEFINE longer == Append(R.out, b)
<1> HIDE DEF b
<1>4. longer \in Seq(Nat) /\ Len(longer) = Written(R) + 1 /\ longer[Written(R) + 1] = b
      /\ \A i \in 1..Written(R) : longer[i] = R.out[i]
  BY <1>1, <1>3 DEF Written
<1>5. Q = [R EXCEPT !.out = longer]
  BY <1>1 DEF WriteBlock, ReceiverRecord, b
<1> HIDE DEF longer, Q
<1>6. /\ Q \in ReceiverRecord /\ Q.slots = R.slots /\ Q.completed = R.completed /\ Q.late = R.late
      /\ Q.ring = R.ring /\ Q.produced = R.produced /\ Q.out = longer /\ Q.dataEnd = R.dataEnd
      /\ Q.phase = R.phase
  BY <1>1, <1>4, <1>5 DEF ReceiverRecord
<1>7. Written(Q) = Written(R) + 1 /\ Unwritten(Q) = Unwritten(R) - 1 /\ Unwritten(R) \in Int
  <2>1. Written(Q) = Len(longer)
    BY <1>6 DEF Written
  <2>2. Written(Q) = Written(R) + 1
    BY <1>4, <2>1
  <2>3. Unwritten(R) = R.produced - Written(R) /\ Unwritten(Q) = R.produced - Written(Q)
    BY <1>6 DEF Unwritten
  <2> QED
    BY <1>1, <2>2, <2>3
<1>8. Heard(Q) = Heard(R) /\ Known(Q) = Known(R) /\ \A x : FindSlot(Q, x) = FindSlot(R, x)
  BY <1>6 DEF Heard, Known, FindSlot
<1>9. SlotTable(Q, start, n)
  BY <1>6, <1>8 DEF Receiver, SlotTable
<1>10. Delivered(Q, start, n)
  BY <1>1, <1>2, <1>6, <1>7 DEF Receiver, Delivered
<1>11. Ends(Q, start) /\ Late(Q, start, n)
  BY <1>2, <1>6 DEF Receiver, Ends, Late
<1>12. ASSUME NEW c \in 0..n, Q.completed = 0..c - 1
       PROVE  Prefix(Q, start, c)
  <2>1. Prefix(R, start, c)
    BY <1>6, <1>12 DEF Receiver
  <2>2. \A p \in Written(Q)..Q.produced - 1 : Q.ring[p % RecvRing] = p + 1
    <3> SUFFICES ASSUME NEW p \in Written(Q)..Q.produced - 1 PROVE Q.ring[p % RecvRing] = p + 1
      OBVIOUS
    <3>1. p \in Written(R)..R.produced - 1
      BY <1>1, <1>6, <1>7
    <3> QED
      BY <1>6, <2>1, <3>1 DEF Prefix
  <2>3. \A i \in 1..Written(Q) : Q.out[i] = i
    <3> SUFFICES ASSUME NEW i \in 1..Written(Q) PROVE Q.out[i] = i
      OBVIOUS
    <3>1. CASE i \in 1..Written(R)
      BY <1>4, <1>6, <2>1, <3>1 DEF Prefix
    <3>2. CASE i \notin 1..Written(R)
      <4>1. i = Written(R) + 1 /\ Written(R) \in Written(R)..R.produced - 1
        BY <1>1, <1>2, <1>7, <3>2
      <4>2. R.ring[Written(R) % RecvRing] = Written(R) + 1
        BY <2>1, <4>1 DEF Prefix
      <4> QED
        BY <1>4, <1>6, <4>1, <4>2 DEF b
    <3> QED
      BY <3>1, <3>2
  <2>4. \A i \in 1..RecvSlots :
          Q.slots[i].state = "Receiving" => Q.slots[i].base = start[c] /\ Unwritten(Q) + WaitFree <= RecvRing
    BY <1>1, <1>6, <1>7, <2>1 DEF Prefix
  <2> QED
    BY <1>6, <2>1, <2>2, <2>3, <2>4 DEF Prefix
<1>13. Receiver(Q, start, n)
  BY <1>6, <1>9, <1>10, <1>11, <1>12 DEF Receiver
<1> QED
  BY <1>6, <1>7, <1>8, <1>13 DEF Q, longer, b

-----------------------------------------------------------------------------
(* The network. *)

\* Packets about the last slice cut.
Fresh(pkts, start, n) ==
  /\ pkts \in Seq(PacketType)
  /\ \A k \in 1..Len(pkts) : Truthful(pkts[k], start, n) /\ (pkts[k].type # "REPLY" => pkts[k].no = n - 1)

LEMMA KnownBelow ==
  ASSUME NEW start, NEW n \in Nat, NEW R, Receiver(R, start, n)
  PROVE  \A k \in Known(R) : k \in Int /\ k < n
<1>1. ASSUME NEW k \in R.completed
      PROVE  k \in Int /\ k < n
  BY <1>1 DEF Receiver, SlotTable
<1>2. ASSUME NEW i \in 1..RecvSlots
      PROVE  R.slots[i].no \in Int /\ R.slots[i].no < n
  <2>1. SlotTruthful(R.slots[i], R.completed, start, n)
    BY DEF Receiver, SlotTable
  <2> QED
    BY <1>1, <2>1, FreeSlotFields DEF SlotTruthful
<1>3. ASSUME NEW k \in 1..Len(R.late)
      PROVE  R.late[k].no \in Int /\ R.late[k].no < n
  <2>1. R.late \in Seq([no : Nat, of : Nat])
    BY Records DEF Receiver
  <2>2. R.late[k] \in [no : Nat, of : Nat]
    BY <2>1, ElementOf
  <2> QED
    BY <2>2 DEF Receiver, Late
<1> QED
  BY <1>1, <1>2, <1>3 DEF Known, Heard

\* What a sequence of datagrams is after others arrived behind it.
LEMMA ArriveIs ==
  ASSUME NEW T, NEW q \in Seq(T), NEW pkts \in Seq(T)
  PROVE  LET a == Arrive(q, pkts)
         IN  /\ a \in Seq(T) /\ Len(a) <= ChanCap /\ Len(a) <= Len(q) + Len(pkts)
             /\ \A i \in 1..Len(a) : a[i] = IF i <= Len(q) THEN q[i] ELSE pkts[i - Len(q)]
<1> DEFINE all == q \o pkts
           L == IF Len(all) <= ChanCap THEN Len(all) ELSE ChanCap
           a == SubSeq(all, 1, L)
<1>1. all \in Seq(T) /\ Len(all) = Len(q) + Len(pkts)
      /\ \A i \in 1..Len(all) : all[i] = IF i <= Len(q) THEN q[i] ELSE pkts[i - Len(q)]
  OBVIOUS
<1>2. Arrive(q, pkts) = a
  BY DEF Arrive
<1> HIDE DEF all
<1>3. L \in Nat /\ L <= Len(all) /\ L <= ChanCap
  BY <1>1, ChanCapAssumption
<1> HIDE DEF L
<1>4. a \in Seq(T) /\ Len(a) = L /\ \A i \in 1..L : a[i] = all[i]
  BY <1>1, <1>3
<1> HIDE DEF a
<1>5. \A i \in 1..Len(a) : a[i] = IF i <= Len(q) THEN q[i] ELSE pkts[i - Len(q)]
  BY <1>1, <1>3, <1>4
<1> QED
  BY <1>1, <1>2, <1>3, <1>4, <1>5

LEMMA ChannelGrows ==
  ASSUME NEW start, NEW n \in Nat, NEW R, Receiver(R, start, n), NEW q \in Seq(PacketType),
         Channel(q, R, start, n), NEW pkts, Fresh(pkts, start, n)
  PROVE  LET a == Arrive(q, pkts)
         IN  a \in Seq(PacketType) /\ Len(a) <= ChanCap /\ Channel(a, R, start, n)
<1> DEFINE a == Arrive(q, pkts)
<1>1. pkts \in Seq(PacketType)
  BY DEF Fresh
<1>2. /\ a \in Seq(PacketType) /\ Len(a) <= ChanCap /\ Len(a) <= Len(q) + Len(pkts)
      /\ \A i \in 1..Len(a) : a[i] = IF i <= Len(q) THEN q[i] ELSE pkts[i - Len(q)]
  BY <1>1, ArriveIs
<1> HIDE DEF a
<1>3. ASSUME NEW i \in 1..Len(a)
      PROVE  \/ i \in 1..Len(q) /\ a[i] = q[i]
             \/ i > Len(q) /\ a[i] = pkts[i - Len(q)] /\ i - Len(q) \in 1..Len(pkts)
  BY <1>1, <1>2
<1>4. ASSUME NEW i \in 1..Len(a)
      PROVE  Truthful(a[i], start, n) /\ (a[i].type # "REPLY" => \A k \in Known(R) : k <= a[i].no)
  <2>1. CASE i \in 1..Len(q) /\ a[i] = q[i]
    BY <2>1 DEF Channel
  <2>2. CASE a[i] = pkts[i - Len(q)] /\ i - Len(q) \in 1..Len(pkts)
    <3>1. Truthful(a[i], start, n) /\ (a[i].type # "REPLY" => a[i].no = n - 1)
      BY <2>2 DEF Fresh
    <3>2. \A k \in Known(R) : k <= n - 1
      BY KnownBelow
    <3> QED
      BY <3>1, <3>2
  <2> QED
    BY <1>3, <2>1, <2>2
<1>5. ASSUME NEW i \in 1..Len(a), NEW j \in 1..Len(a), i < j, a[i].type # "REPLY", a[j].type # "REPLY"
      PROVE  a[i].no <= a[j].no
  <2>1. CASE j \in 1..Len(q) /\ a[j] = q[j]
    <3>1. i \in 1..Len(q) /\ a[i] = q[i]
      BY <1>2, <1>5, <2>1
    <3> QED
      BY <1>5, <2>1, <3>1 DEF Channel
  <2>2. CASE a[j] = pkts[j - Len(q)] /\ j - Len(q) \in 1..Len(pkts)
    <3>1. a[j].no = n - 1
      BY <1>5, <2>2 DEF Fresh
    <3>2. a[i].no \in 0..n - 1
      BY <1>4, <1>5 DEF Truthful
    <3> QED
      BY <3>1, <3>2
  <2> QED
    BY <1>3, <2>1, <2>2
<1>6. Channel(a, R, start, n)
  BY <1>4, <1>5 DEF Channel
<1> QED
  BY <1>2, <1>6 DEF a

\* The oldest packet is taken.
LEMMA ChannelTaken ==
  ASSUME NEW start, NEW n \in Nat, NEW R, NEW q \in Seq(PacketType), q # <<>>, Channel(q, R, start, n),
         NEW P, Known(P) \subseteq Known(R) \cup (IF Head(q).type = "REPLY" THEN {} ELSE {Head(q).no})
  PROVE  Tail(q) \in Seq(PacketType) /\ Len(Tail(q)) <= Len(q) /\ Channel(Tail(q), P, start, n)
<1>1. Len(q) \in Nat \ {0} /\ Head(q) = q[1] /\ Tail(q) \in Seq(PacketType) /\ Len(Tail(q)) = Len(q) - 1
  OBVIOUS
<1>2. \A i \in 1..Len(q) - 1 : Tail(q)[i] = q[i + 1] /\ i + 1 \in 1..Len(q)
  OBVIOUS
<1> DEFINE a == Tail(q)
<1> HIDE DEF a
<1>3. \A i \in 1..Len(a) : a[i] = q[i + 1] /\ i + 1 \in 1..Len(q) /\ 1 < i + 1
  BY <1>1, <1>2 DEF a
<1>4. ASSUME NEW i \in 1..Len(a), a[i].type # "REPLY", NEW k \in Known(P)
      PROVE  k <= a[i].no
  <2>1. a[i] = q[i + 1] /\ i + 1 \in 1..Len(q) /\ 1 < i + 1
    BY <1>3
  <2>2. CASE k \in Known(R)
    BY <1>4, <2>1, <2>2 DEF Channel
  <2>3. CASE Head(q).type # "REPLY" /\ k = Head(q).no
    <3>1. 1 \in 1..Len(q)
      BY <1>1
    <3> QED
      BY <1>1, <1>4, <2>1, <2>3, <3>1 DEF Channel
  <2> QED
    BY <2>2, <2>3
<1>5. \A i \in 1..Len(a) : Truthful(a[i], start, n)
  BY <1>3 DEF Channel
<1>6. ASSUME NEW i \in 1..Len(a), NEW j \in 1..Len(a), i < j, a[i].type # "REPLY", a[j].type # "REPLY"
      PROVE  a[i].no <= a[j].no
  <2>1. /\ a[i] = q[i + 1] /\ i + 1 \in 1..Len(q) /\ a[j] = q[j + 1] /\ j + 1 \in 1..Len(q)
        /\ i + 1 < j + 1
    BY <1>3, <1>6
  <2> QED
    BY <1>6, <2>1 DEF Channel
<1>7. Channel(a, P, start, n)
  BY <1>4, <1>5, <1>6 DEF Channel
<1> QED
  BY <1>1, <1>7 DEF a

-----------------------------------------------------------------------------
(* A slice more is cut. *)

\* The slices cut so far keep their places.
Longer(start, new, n) == \A i \in 0..n : new[i] = start[i]

LEMMA ReceiverOutlives ==
  ASSUME NEW start, NEW n \in Nat, NEW new, Longer(start, new, n), Cuts(new, n + 1),
         NEW R, Receiver(R, start, n)
  PROVE  Receiver(R, new, n + 1)
<1>1. \A i \in 0..n : new[i] = start[i]
  BY DEF Longer
<1>2. \A no \in 0..n - 1 : Size(new, no) = Size(start, no)
  <2> SUFFICES ASSUME NEW no \in 0..n - 1 PROVE Size(new, no) = Size(start, no)
    OBVIOUS
  <2>1. no \in 0..n /\ no + 1 \in 0..n
    OBVIOUS
  <2> QED
    BY <1>1, <2>1 DEF Size
<1>3. R.completed \subseteq 0..n - 1
  BY DEF Receiver, SlotTable
<1>4. SlotTable(R, new, n + 1)
  <2>1. ASSUME NEW i \in 1..RecvSlots
        PROVE  SlotTruthful(R.slots[i], R.completed, new, n + 1)
    <3>1. SlotTruthful(R.slots[i], R.completed, start, n)
      BY DEF Receiver, SlotTable
    <3> QED
      BY <1>2, <1>3, <3>1 DEF SlotTruthful
  <2>2. R.completed \subseteq 0..n + 1 - 1
    BY <1>3
  <2> QED
    BY <2>1, <2>2 DEF Receiver, SlotTable
<1>5. Delivered(R, new, n + 1)
  <2>1. ASSUME NEW k \in 0..n + 1, \A no \in R.completed : no < k
        PROVE  R.produced <= new[k]
    <3>1. CASE k \in 0..n
      BY <1>1, <2>1, <3>1 DEF Receiver, Delivered
    <3>2. CASE k \notin 0..n
      <4>1. k = n + 1 /\ n \in 0..n /\ n \in 0..n + 1
        BY <3>2
      <4>2. R.produced <= start[n]
        BY <1>3, <4>1 DEF Receiver, Delivered
      <4>3. new[n] <= new[n + 1] /\ new[n] = start[n]
        BY <1>1, <4>1 DEF Cuts
      <4>4. new[n] \in Nat /\ new[n + 1] \in Nat
        BY <4>1, CutTypes
      <4>5. R.produced \in Nat
        BY Records DEF Receiver
      <4> QED
        BY <4>1, <4>2, <4>3, <4>4, <4>5
    <3> QED
      BY <3>1, <3>2
  <2> QED
    BY <2>1 DEF Receiver, Delivered
<1>6. Ends(R, new)
  BY <1>2, <1>3 DEF Receiver, Ends
<1>7. Late(R, new, n + 1)
  <2>1. ASSUME NEW k \in 1..Len(R.late)
        PROVE  R.late[k].no < n + 1 /\ R.late[k].of = Size(new, R.late[k].no)
    <3>1. R.late[k] \in [no : Nat, of : Nat]
      BY Records, ElementOf DEF Receiver
    <3>2. R.late[k].no \in 0..n - 1 /\ R.late[k].of = Size(start, R.late[k].no)
      BY <3>1 DEF Receiver, Late
    <3> QED
      BY <1>2, <3>2
  <2> QED
    BY <2>1 DEF Receiver, Late
<1>8. ASSUME NEW c \in 0..n + 1, R.completed = 0..c - 1
      PROVE  Prefix(R, new, c)
  <2>1. c \in 0..n
    <3>1. c > 0 => c - 1 \in R.completed
      BY <1>8
    <3> QED
      BY <1>3, <3>1
  <2>2. Prefix(R, start, c)
    BY <1>8, <2>1 DEF Receiver
  <2>3. new[c] = start[c] /\ (c > 0 => Size(new, c - 1) = Size(start, c - 1))
    BY <1>1, <1>2, <2>1
  <2> QED
    BY <2>2, <2>3 DEF Prefix
<1> QED
  BY <1>4, <1>5, <1>6, <1>7, <1>8 DEF Receiver

LEMMA ChannelOutlives ==
  ASSUME NEW start, NEW n \in Nat, NEW new, Longer(start, new, n), NEW q, NEW R, Channel(q, R, start, n)
  PROVE  Channel(q, R, new, n + 1)
<1>1. ASSUME NEW i \in 1..Len(q)
      PROVE  Truthful(q[i], new, n + 1)
  <2>1. Truthful(q[i], start, n)
    BY DEF Channel
  <2>2. CASE q[i].type # "REPLY"
    <3>1. q[i].no \in 0..n - 1
      BY <2>1, <2>2 DEF Truthful
    <3>2. q[i].no \in 0..n /\ q[i].no + 1 \in 0..n /\ q[i].no \in 0..n + 1 - 1
      BY <3>1
    <3>3. new[q[i].no] = start[q[i].no] /\ Size(new, q[i].no) = Size(start, q[i].no)
      BY <3>2 DEF Longer, Size
    <3> QED
      BY <2>1, <3>2, <3>3 DEF Truthful
  <2> QED
    BY <2>2 DEF Truthful
<1> QED
  BY <1>1 DEF Channel

-----------------------------------------------------------------------------
(* What the sender sends. *)

\* True packets about the last of n slices.
FreshPackets(start, n) ==
  {m \in PacketType : Truthful(m, start, n) /\ (m.type # "REPLY" => m.no = n - 1)}

LEMMA FreshSeq ==
  ASSUME NEW start, NEW n, NEW pkts \in Seq(FreshPackets(start, n))
  PROVE  Fresh(pkts, start, n)
<1>1. ASSUME NEW k \in 1..Len(pkts)
      PROVE  pkts[k] \in FreshPackets(start, n)
  BY ElementOf
<1>2. pkts \in Seq(PacketType)
  <2>1. \A k \in 1..Len(pkts) : pkts[k] \in PacketType
    BY <1>1 DEF FreshPackets
  <2>2. Len(pkts) \in Nat /\ pkts \in [1..Len(pkts) -> PacketType]
    BY <2>1
  <2> QED
    BY <2>2, SequenceOf
<1> QED
  BY <1>1, <1>2 DEF Fresh, FreshPackets

\* Slice sl is the last of n and its blocks, none of them short, are in the ring.
Present(sl, start, n) ==
  /\ ~LastShort /\ n \in Nat \ {0} /\ Cuts(start, n)
  /\ sl.no = n - 1 /\ sl.base = start[n - 1] /\ sl.blocks = Size(start, n - 1)
  /\ sl.rxmitId \in Nat
  /\ \A i \in 0..sl.blocks - 1 : ring[(sl.base + i) % RingBlocks] = sl.base + i + 1

LEMMA BlockFresh ==
  ASSUME NEW sl, NEW start, NEW n, Present(sl, start, n), NEW i \in 0..sl.blocks - 1
  PROVE  BlockPacket(sl, i) \in FreshPackets(start, n)
<1> DEFINE m == BlockPacket(sl, i)
           content == ring[(sl.base + i) % RingBlocks]
<1>1. n \in Nat /\ n - 1 \in 0..n - 1 /\ n - 1 \in Nat /\ n - 1 \in 0..n
  BY DEF Present
<1>2. sl.no = n - 1 /\ sl.base \in Nat /\ sl.blocks \in Nat /\ sl.blocks = Size(start, n - 1)
      /\ sl.base = start[n - 1]
  BY <1>1, CutTypes DEF Present
<1>3. content = sl.base + i + 1 /\ i \in Nat /\ i < sl.blocks
  BY <1>2 DEF Present
<1>4. ~Padded(sl.base + i)
  BY DEF Present, Padded
<1>5. m = [type |-> "DATA", no |-> sl.no, block |-> i, of |-> sl.blocks, content |-> content]
  BY <1>4 DEF BlockPacket, Data
<1> HIDE DEF content, m
<1>6. content \in Nat
  BY <1>2, <1>3
<1>7. m \in PacketType /\ m.type = "DATA" /\ m.no = n - 1 /\ m.of = sl.blocks /\ m.block = i /\ m.content = content
  BY <1>1, <1>2, <1>3, <1>5, <1>6 DEF PacketType
<1>8. Truthful(m, start, n)
  BY <1>1, <1>2, <1>3, <1>7 DEF Truthful
<1> QED
  BY <1>7, <1>8 DEF FreshPackets, m

LEMMA ReqackFresh ==
  ASSUME NEW sl, NEW start, NEW n, Present(sl, start, n)
  PROVE  Reqack(sl) \in FreshPackets(start, n)
<1> DEFINE m == Reqack(sl)
<1>1. n \in Nat /\ n - 1 \in 0..n - 1 /\ n - 1 \in Nat
  BY DEF Present
<1>2. sl.no = n - 1 /\ sl.blocks \in Nat /\ sl.blocks = Size(start, n - 1) /\ sl.rxmitId \in Nat
  BY <1>1, CutTypes DEF Present
<1>3. m \in PacketType /\ m.type = "REQACK" /\ m.no = n - 1 /\ m.of = sl.blocks
  BY <1>1, <1>2 DEF Reqack, PacketType
<1> HIDE DEF m
<1> QED
  BY <1>1, <1>2, <1>3 DEF FreshPackets, Truthful, m

LEMMA ReplyFresh ==
  ASSUME NEW start, NEW n
  PROVE  Fresh(<<Reply>>, start, n)
<1>1. Reply \in PacketType /\ Reply.type = "REPLY"
  BY DEF Reply, PacketType
<1>2. Reply \in FreshPackets(start, n)
  BY <1>1 DEF FreshPackets, Truthful
<1> DEFINE T == FreshPackets(start, n)
           o == Reply
<1> HIDE DEF T, o
<1>3. <<o>> \in Seq(T)
  BY <1>2 DEF T, o
<1> QED
  BY <1>3, FreshSeq DEF T, o

LEMMA RexmitFresh ==
  ASSUME NEW sl, NEW start, NEW n, Present(sl, start, n)
  PROVE  Fresh(RexmitPackets(sl), start, n)
<1> DEFINE N == sl.blocks
           T == FreshPackets(start, n)
           S == Seq(T)
           due == [i \in 1..sl.blocks |-> i - 1 \in sl.rxmitMap \ sl.isXmitted]
           more(q, k) == IF due[k] THEN q \o <<BlockPacket(sl, k - 1), BlockPacket(sl, k - 1)>> ELSE q
           F == [k \in 1..N |-> [q \in S |-> more(q, k)]]
           Grows(u) == u = [i \in 0..N |-> IF i = 0 THEN <<>> ELSE more(u[i - 1], i)]
<1>1. N \in Nat
  <2>1. n \in Nat /\ n - 1 \in 0..n - 1 /\ Cuts(start, n) /\ N = Size(start, n - 1)
    BY DEF Present
  <2> QED
    BY <2>1, CutTypes
<1>2. <<>> \in S
  OBVIOUS
<1>3. ASSUME NEW k \in 1..N, NEW q \in S
      PROVE  more(q, k) \in S
  <2>1. k - 1 \in 0..sl.blocks - 1
    BY <1>1
  <2>2. BlockPacket(sl, k - 1) \in T
    BY <2>1, BlockFresh
  <2> HIDE DEF T
  <2> QED
    BY <2>2
<1> HIDE DEF more, T
<1>4. F \in [1..N -> [S -> S]]
  BY <1>3
<1>5. PICK f \in [0..N -> S] : Runs(N, F, <<>>, f)
  <2> HIDE DEF F, N, S
  <2> QED
    BY <1>1, <1>2, <1>4, Iteration
<1>6. Grows(f)
  <2>1. ASSUME NEW k \in 0..N
        PROVE  f[k] = IF k = 0 THEN <<>> ELSE more(f[k - 1], k)
    <3>1. CASE k = 0
      BY <1>5, <3>1 DEF Runs
    <3>2. CASE k # 0
      <4>1. k \in 1..N /\ k - 1 \in 0..N
        BY <1>1, <3>2
      <4>2. f[k - 1] \in S /\ f[k] = F[k][f[k - 1]]
        BY <1>5, <4>1 DEF Runs
      <4> QED
        BY <3>2, <4>1, <4>2
    <3> QED
      BY <3>1, <3>2
  <2>2. f = [k \in 0..N |-> f[k]]
    BY <1>5
  <2> HIDE DEF N
  <2> QED
    BY <2>1, <2>2
<1> DEFINE g == CHOOSE u : Grows(u)
<1>7. Grows(g)
  <2> HIDE DEF Grows
  <2> QED
    BY <1>6
<1>8. RexmitPackets(sl) = g[N]
  BY DEF RexmitPackets, more
<1> HIDE DEF g
<1>9. g[0] = <<>> /\ \A k \in 1..N : g[k] = more(g[k - 1], k)
  BY <1>1, <1>7
<1> DEFINE Good == {k \in 0..N : g[k] \in S}
<1>10. 0 \in Good
  <2> HIDE DEF S, N
  <2> QED
    BY <1>1, <1>2, <1>9
<1>11. ASSUME NEW k \in 1..N, k - 1 \in Good
       PROVE  k \in Good
  <2>1. k \in 0..N /\ g[k - 1] \in S
    BY <1>1, <1>11
  <2> HIDE DEF S
  <2> QED
    BY <1>3, <1>9, <2>1
<1>12. N \in Good
  <2> HIDE DEF Good, N
  <2>1. 0..N \subseteq Good
    BY <1>1, <1>10, <1>11, UpTo
  <2> QED
    BY <1>1, <2>1
<1>13. RexmitPackets(sl) \in Seq(FreshPackets(start, n))
  BY <1>8, <1>12 DEF T
<1> QED
  BY <1>13, FreshSeq

\* The blocks of a new slice, all of them when there is no parity.
LEMMA CutFresh ==
  ASSUME FecRedundancy = 0, NEW sl, NEW start, NEW n, Present(sl, start, n)
  PROVE  LET packets == [i \in 1..sl.blocks |-> BlockPacket(sl, i - 1)] \o FecPackets(sl)
         IN  Fresh(packets, start, n) /\ Fresh(Append(packets, Reqack(sl)), start, n)
<1> DEFINE N == sl.blocks
           T == FreshPackets(start, n)
           data == [i \in 1..N |-> BlockPacket(sl, i - 1)]
           fec == FecPackets(sl)
<1>1. N \in Nat
  <2>1. n \in Nat /\ n - 1 \in 0..n - 1 /\ Cuts(start, n) /\ N = Size(start, n - 1)
    BY DEF Present
  <2> QED
    BY <2>1, CutTypes
<1>2. data \in Seq(T)
  <2>1. ASSUME NEW i \in 1..N
        PROVE  BlockPacket(sl, i - 1) \in T
    <3>1. i - 1 \in 0..sl.blocks - 1
      BY <1>1
    <3> QED
      BY <3>1, BlockFresh
  <2> HIDE DEF T
  <2>2. data \in [1..N -> T]
    BY <2>1
  <2> HIDE DEF data, N
  <2> QED
    BY <1>1, <2>2, SequenceOf
<1>3. fec \in Seq(T)
  <2> DEFINE D == 1..IF sl.blocks > 0 THEN FecStripes * FecRedundancy ELSE 0
             block(b) == FecBlock(sl, b - 1, Parity(StripeContents(sl, (b - 1) % FecStripes), (b - 1) \div FecStripes))
  <2>1. D = 1..0
    BY SizesAssumption
  <2>2. fec = [b \in D |-> block(b)]
    BY DEF FecPackets
  <2> HIDE DEF D, block, fec, T
  <2>3. fec \in [1..0 -> T]
    BY <2>1, <2>2
  <2> QED
    BY <2>3, SequenceOf
<1>4. Reqack(sl) \in T
  BY ReqackFresh
<1> HIDE DEF data, fec, T
<1>5. data \o fec \in Seq(T) /\ Append(data \o fec, Reqack(sl)) \in Seq(T)
  BY <1>2, <1>3, <1>4
<1> QED
  BY <1>5, FreshSeq DEF data, fec, T

LEMMA PendingPresent ==
  ASSUME ~LastShort, SenderInv, HalfInv, NEW start, History(start), NEW s \in Pending
  PROVE  Present(slices[s], start, sliceNo)
<1>1. /\ slices[s] \in SliceType /\ sliceNo \in Nat /\ takenPos \in Nat
      /\ slices[s].state = "Xmitted"
  BY SenderTypes DEF Pending
<1>2. slices[s].no \in Nat /\ slices[s].no = sliceNo - 1
  BY DEF HalfInv, SenderInv, CoreInv, Numbered
<1>3. sliceNo \in Nat \ {0} /\ sliceNo - 1 + 1 = sliceNo /\ sliceNo - 1 \in 0..sliceNo
  BY <1>1, <1>2
<1>4. /\ Cuts(start, sliceNo) /\ start[sliceNo] = takenPos /\ slices[s].base = start[sliceNo - 1]
  BY DEF History
<1>5. slices[s].base + slices[s].blocks = takenPos /\ slices[s].base \in Nat /\ slices[s].blocks \in Nat
  BY <1>1 DEF HalfInv, SliceType
<1>6. Size(start, sliceNo - 1) = takenPos - slices[s].base
  BY <1>3, <1>4 DEF Size
<1>7. slices[s].blocks = Size(start, sliceNo - 1)
  BY <1>1, <1>5, <1>6
<1>8. \A i \in 0..slices[s].blocks - 1 : ring[(slices[s].base + i) % RingBlocks] = slices[s].base + i + 1
  BY HalfRing DEF RingIntact, Padded
<1>9. slices[s].rxmitId \in Nat
  BY <1>1 DEF SliceType
<1> QED
  BY <1>2, <1>3, <1>4, <1>7, <1>8, <1>9 DEF Present

CutSlice(n) == [FreeSlice EXCEPT !.state = "Xmitted", !.no = sliceNo, !.base = takenPos, !.blocks = n]

\* The slice cut goes on where the last one ended.
LEMMA HistoryGrows ==
  ASSUME MaxInFlight = 1, ~LastShort, SenderInv, HalfInv, NEW start \in [Nat -> Nat], History(start),
         NEW s \in Slots, NEW n \in 0..MaxSlice, NewSlice(s, n), async' = async
  PROVE  \E new \in [Nat -> Nat] :
           /\ Longer(start, new, sliceNo) /\ History(new)' /\ Present(CutSlice(n), new, sliceNo + 1)
           /\ sliceNo' = sliceNo + 1 /\ Cuts(new, sliceNo + 1)
<1> DEFINE k == sliceNo + 1
           sl == CutSlice(n)
<1>1. /\ n \in Nat /\ n <= readPos - takenPos /\ ~atEnd
      /\ sliceNo' = sliceNo + 1 /\ takenPos' = takenPos + n /\ (atEnd' <=> n = 0)
      /\ (slices' = [slices EXCEPT ![s] = sl] \/ slices' = slices)
  BY Cutting DEF CutSlice
<1>2. /\ slices \in [Slots -> SliceType] /\ sliceNo \in Nat /\ takenPos \in Nat /\ readPos \in Nat
      /\ freeMem \in Nat /\ BlocksIn(slices) \in Nat
  BY SenderTypes
<1>3. sl.no = sliceNo /\ sl.base = takenPos /\ sl.blocks = n /\ sl.rxmitId = 0
  BY DEF FreeSlice, CutSlice
<1> HIDE DEF sl
<1>4. Cuts(start, sliceNo) /\ start[sliceNo] = takenPos
      /\ \A i \in 0..sliceNo - 1 : Size(start, i) # 0
  BY <1>1 DEF History
<1>5. PICK new \in [Nat -> Nat] : /\ new[k] = takenPos + n /\ new[sliceNo] = takenPos
                                  /\ \A i \in 0..sliceNo : new[i] = start[i]
  <2> DEFINE u == [start EXCEPT ![k] = takenPos + n]
  <2>1. u \in [Nat -> Nat] /\ u[k] = takenPos + n /\ u[sliceNo] = takenPos
        /\ \A i \in 0..sliceNo : u[i] = start[i]
    BY <1>1, <1>2, <1>4
  <2> HIDE DEF u
  <2> QED
    BY <2>1
<1>6. /\ \A i \in 0..sliceNo - 1 : Size(new, i) = Size(start, i)
      /\ Size(new, sliceNo) = n
  <2>1. ASSUME NEW i \in 0..sliceNo - 1
        PROVE  Size(new, i) = Size(start, i)
    <3>1. i \in 0..sliceNo /\ i + 1 \in 0..sliceNo
      BY <1>2
    <3> QED
      BY <1>5, <3>1 DEF Size
  <2>2. Size(new, sliceNo) = n
    BY <1>1, <1>2, <1>5 DEF Size
  <2> QED
    BY <2>1, <2>2
<1>7. Cuts(new, k)
  <2>1. new[0] = 0
    BY <1>2, <1>4, <1>5 DEF Cuts
  <2>2. ASSUME NEW i \in 0..k, NEW j \in 0..k, i <= j
        PROVE  new[i] <= new[j]
    <3>1. CASE j \in 0..sliceNo
      <4>1. i \in 0..sliceNo
        BY <1>2, <2>2, <3>1
      <4> QED
        BY <1>4, <1>5, <2>2, <3>1, <4>1 DEF Cuts
    <3>2. CASE j \notin 0..sliceNo
      <4>1. j = k
        BY <1>2, <3>2
      <4>2. CASE i = k
        BY <1>1, <1>2, <1>5, <4>1, <4>2
      <4>3. CASE i # k
        <5>1. i \in 0..sliceNo /\ sliceNo \in 0..sliceNo /\ i <= sliceNo
          BY <1>2, <4>3
        <5>2. start[i] <= takenPos /\ start[i] \in Nat
          BY <1>4, <5>1 DEF Cuts
        <5> QED
          BY <1>1, <1>2, <1>5, <4>1, <5>1, <5>2
      <4> QED
        BY <4>2, <4>3
    <3> QED
      BY <3>1, <3>2
  <2>3. ASSUME NEW i \in 0..k - 1
        PROVE  Size(new, i) <= MaxSlice /\ (Size(new, i) = 0 => i = k - 1)
    <3>1. CASE i = sliceNo
      BY <1>2, <1>6, <3>1
    <3>2. CASE i # sliceNo
      <4>1. i \in 0..sliceNo - 1
        BY <1>2, <3>2
      <4> QED
        BY <1>4, <1>6, <4>1 DEF Cuts
    <3> QED
      BY <3>1, <3>2
  <2> QED
    BY <1>5, <2>1, <2>2, <2>3 DEF Cuts
<1>8. Present(sl, new, k)
  <2>1. k \in Nat \ {0} /\ k - 1 = sliceNo
    BY <1>2
  <2>2. ASSUME NEW i \in 0..n - 1
        PROVE  ring[(takenPos + i) % RingBlocks] = takenPos + i + 1
    <3>1. takenPos + i \in Nat /\ takenPos + i < readPos
      BY <1>1, <1>2
    <3>2. readPos - (RingBlocks - freeMem) <= takenPos + i
      BY <1>1, <1>2, SizesAssumption DEF SenderInv, MemoryInv, MemoryConserved, Available
    <3> QED
      BY <3>1, <3>2 DEF SenderInv, StreamInv, LiveCells, Padded
  <2> QED
    BY <1>3, <1>5, <1>6, <1>7, <2>1, <2>2 DEF Present
<1>9. History(new)'
  <2>1. Cuts(new, sliceNo') /\ new[sliceNo'] = takenPos'
    BY <1>1, <1>5, <1>7
  <2>2. ASSUME NEW i \in 0..sliceNo' - 1, Size(new, i) = 0
        PROVE  atEnd'
    <3>1. i \in 0..k - 1
      BY <1>1, <1>2
    <3>2. i = sliceNo
      <4>1. i = k - 1
        BY <1>7, <2>2, <3>1 DEF Cuts
      <4> QED
        BY <1>2, <4>1
    <3> QED
      BY <1>1, <1>6, <2>2, <3>2
  <2>3. ASSUME NEW t \in Pending'
        PROVE  slices'[t].base = new[sliceNo' - 1]
    <3>1. HalfInv'
      BY HalfStep DEF SenderMoves, Dispatcher
    <3>2. slices'[t].no = sliceNo' - 1 /\ sliceNo' - 1 = sliceNo
      BY <1>1, <1>2, <2>3, <3>1 DEF HalfInv
    <3>3. CASE slices'[t] = sl
      BY <1>3, <1>5, <3>2, <3>3
    <3>4. CASE t \in Pending /\ slices'[t] = slices[t]
      <4>1. slices[t].no < sliceNo /\ slices[t].no \in Nat
        BY <3>4 DEF SenderInv, StreamInv, CoreInv, Numbered
      <4> QED
        BY <1>2, <3>2, <3>4, <4>1
    <3>5. slices'[t] = sl \/ (t \in Pending /\ slices'[t] = slices[t])
      BY <1>1, <1>2, <2>3 DEF Pending
    <3> QED
      BY <3>3, <3>4, <3>5
  <2> QED
    BY <2>1, <2>2, <2>3 DEF History
<1> QED
  BY <1>1, <1>5, <1>7, <1>8, <1>9 DEF Longer, sl

\* The other steps of the sender cut nothing.
LEMMA HistoryKept ==
  ASSUME SenderInv, NEW start, History(start), sliceNo' = sliceNo, takenPos' = takenPos, atEnd' = atEnd,
         \A t \in Pending' : t \in Pending /\ slices'[t].base = slices[t].base
  PROVE  History(start)'
BY DEF History

\* Receiver r is sent nothing, or packets about the last of n slices.
Sent(start, n, r) ==
  \/ down'[r] = down[r]
  \/ \E pkts : Fresh(pkts, start, n) /\ down'[r] = Arrive(down[r], pkts)

LEMMA MulticastSent ==
  ASSUME NEW pkts, NEW start, NEW n, Fresh(pkts, start, n), down \in [Receivers -> Seq(PacketType)],
         down' = Multicast(down, pkts)
  PROVE  (\A r \in Receivers : Sent(start, n, r)) /\ DOMAIN down' = Receivers
BY DEF Multicast, Sent

\* What a step of the dispatcher sends when it cuts no slice.
LEMMA StagesSend ==
  ASSUME ~LastShort, SenderInv, HalfInv, NEW start, History(start), down \in [Receivers -> Seq(PacketType)],
         Dispatcher, \A s \in Slots : \A n \in 0..MaxSlice : ~NewSlice(s, n)
  PROVE  (\A r \in Receivers : Sent(start, sliceNo, r)) /\ down' = [r \in Receivers |-> down'[r]]
<1>1. CASE HandleNextMessage \/ BlockOnData \/ Finish \/ Wait \/ Wake \/ \E s \in Slots : Ack(s)
  <2>1. down' = down
    BY <1>1 DEF HandleNextMessage, BlockOnData, Finish, Wait, Wake, Ack
  <2> QED
    BY <2>1 DEF Sent
<1>2. CASE ReReply
  <2>1. down' = [c \in Receivers |-> IF c \in ReplyTargets THEN Arrive(down[c], <<Reply>>) ELSE down[c]]
    BY <1>2 DEF ReReply
  <2>2. Fresh(<<Reply>>, start, sliceNo)
    BY ReplyFresh
  <2>3. ASSUME NEW r \in Receivers
        PROVE  Sent(start, sliceNo, r)
    <3>1. down'[r] = down[r] \/ down'[r] = Arrive(down[r], <<Reply>>)
      BY <2>1
    <3> QED
      BY <2>2, <3>1 DEF Sent
  <2> QED
    BY <2>1, <2>3
<1>3. ASSUME NEW s \in Slots, Rexmit(s) \/ ReqackAnswered(s) \/ Expire(s)
      PROVE  (\A r \in Receivers : Sent(start, sliceNo, r)) /\ down' = [r \in Receivers |-> down'[r]]
  <2>1. s \in Pending
    BY <1>3 DEF Rexmit, ReqackAnswered, Expire, IsOldest, Rexmitable, Answered
  <2>2. Present(slices[s], start, sliceNo) /\ slices[s] \in SliceType
    BY <2>1, PendingPresent, SenderTypes DEF Pending
  <2> DEFINE sl == NextRound(slices[s])
  <2>3. Present(sl, start, sliceNo)
    <3>1. /\ sl.no = slices[s].no /\ sl.base = slices[s].base /\ sl.blocks = slices[s].blocks
          /\ sl.rxmitId \in Nat
      BY <2>2 DEF NextRound, SliceType
    <3> HIDE DEF sl
    <3> QED
      BY <2>2, <3>1 DEF Present
  <2> DEFINE T == FreshPackets(start, sliceNo)
             o == Reqack(sl)
  <2>4. Fresh(<<o>>, start, sliceNo)
    <3>1. o \in T
      BY <2>3, ReqackFresh
    <3> HIDE DEF o, T
    <3>2. <<o>> \in Seq(T)
      BY <3>1
    <3> QED
      BY <3>2, FreshSeq DEF T
  <2>5. Fresh(RexmitPackets(slices[s]), start, sliceNo)
    BY <2>2, RexmitFresh
  <2>6. \/ down' = Multicast(down, RexmitPackets(slices[s]))
        \/ down' = Multicast(down, <<o>>)
        \/ down' = down
    BY <1>3 DEF Rexmit, ReqackAnswered, Expire
  <2> HIDE DEF o, T
  <2>7. CASE down' = down
    BY <2>7 DEF Sent
  <2>8. CASE down' = Multicast(down, <<o>>)
    BY <2>4, <2>8, MulticastSent DEF Multicast
  <2>9. CASE down' = Multicast(down, RexmitPackets(slices[s]))
    BY <2>5, <2>9, MulticastSent DEF Multicast
  <2> QED
    BY <2>6, <2>7, <2>8, <2>9
<1> QED
  BY <1>1, <1>2, <1>3 DEF Dispatcher

LEMMA HistoryUnchanged ==
  ASSUME NEW start, History(start), slices' = slices, UNCHANGED fillVars
  PROVE  History(start)' /\ sliceNo' = sliceNo
BY DEF History, Pending, fillVars

\* The slices of new go on from those of start.
GoesOn(start, new) ==
  \/ sliceNo' = sliceNo /\ new = start
  \/ sliceNo' = sliceNo + 1 /\ Longer(start, new, sliceNo) /\ Cuts(new, sliceNo + 1)

LEMMA StagesQuiet ==
  ASSUME SenderInv, NEW start, History(start), Dispatcher,
         \A s \in Slots : \A n \in 0..MaxSlice : ~NewSlice(s, n)
  PROVE  History(start)' /\ sliceNo' = sliceNo
<1>1. slices \in [Slots -> SliceType]
  BY SenderTypes
<1>2. CASE SameSlices /\ UNCHANGED fillVars
  <2>1. \A t \in Pending' : t \in Pending /\ slices'[t].base = slices[t].base
    BY <1>2 DEF SameSlices, Pending
  <2> QED
    BY <1>2, <2>1, HistoryKept DEF fillVars
<1>3. ASSUME NEW s \in Slots, Ack(s)
      PROVE  History(start)' /\ sliceNo' = sliceNo
  <2>1. slices' = [slices EXCEPT ![s] = FreeSlice] /\ UNCHANGED fillVars
    BY <1>3 DEF Ack
  <2>2. \A t \in Pending' : t \in Pending /\ slices'[t].base = slices[t].base
    BY <1>1, <2>1 DEF Pending, FreeSlice
  <2> QED
    BY <2>1, <2>2, HistoryKept DEF fillVars
<1>4. CASE LocalReader
  BY <1>4, HistoryUnchanged DEF LocalReader, LocalRead, LocalEof, LocalStop
<1> QED
  BY <1>2, <1>3, <1>4, SenderKinds DEF SenderMoves, SenderInv

LEMMA DispatcherSends ==
  ASSUME MaxInFlight = 1, FecRedundancy = 0, ~LastShort, SenderInv, HalfInv,
         NEW start \in [Nat -> Nat], History(start),
         down \in [Receivers -> Seq(PacketType)], Dispatcher
  PROVE  \E new \in [Nat -> Nat] :
           /\ GoesOn(start, new) /\ History(new)' /\ \A r \in Receivers : Sent(new, sliceNo', r)
           /\ down' = [r \in Receivers |-> down'[r]]
<1>1. CASE \A s \in Slots : \A n \in 0..MaxSlice : ~NewSlice(s, n)
  <2>1. History(start)' /\ sliceNo' = sliceNo
    BY <1>1, StagesQuiet
  <2>2. (\A r \in Receivers : Sent(start, sliceNo, r)) /\ down' = [r \in Receivers |-> down'[r]]
    BY <1>1, StagesSend
  <2>3. \A r \in Receivers : Sent(start, sliceNo', r)
    BY <2>1, <2>2
  <2> QED
    BY <2>1, <2>2, <2>3 DEF GoesOn
<1>2. CASE ~(\A s \in Slots : \A n \in 0..MaxSlice : ~NewSlice(s, n))
  <2>1. PICK s \in Slots, n \in 0..MaxSlice : NewSlice(s, n)
    BY <1>2
  <2>2. async' = async
    BY DEF Dispatcher
  <2>3. PICK new \in [Nat -> Nat] :
           /\ Longer(start, new, sliceNo) /\ History(new)' /\ Present(CutSlice(n), new, sliceNo + 1)
           /\ sliceNo' = sliceNo + 1 /\ Cuts(new, sliceNo + 1)
    BY <2>1, <2>2, HistoryGrows
  <2> DEFINE sl == CutSlice(n)
             packets == [i \in 1..n |-> BlockPacket(sl, i - 1)] \o FecPackets(sl)
  <2>4. sl.blocks = n
    BY DEF CutSlice, FreeSlice
  <2>5. down' = Multicast(down, packets) \/ down' = Multicast(down, Append(packets, Reqack(sl)))
    BY <2>1 DEF NewSlice, CutSlice
  <2> HIDE DEF sl
  <2>6. Fresh(packets, new, sliceNo + 1) /\ Fresh(Append(packets, Reqack(sl)), new, sliceNo + 1)
    <3>1. Present(sl, new, sliceNo + 1)
      BY <2>3 DEF sl
    <3>2. LET p == [i \in 1..sl.blocks |-> BlockPacket(sl, i - 1)] \o FecPackets(sl)
          IN  Fresh(p, new, sliceNo + 1) /\ Fresh(Append(p, Reqack(sl)), new, sliceNo + 1)
      BY <3>1, CutFresh
    <3> QED
      BY <2>4, <3>2
  <2> HIDE DEF packets
  <2>7. (\A r \in Receivers : Sent(new, sliceNo + 1, r)) /\ down' = [r \in Receivers |-> down'[r]]
    <3>1. CASE down' = Multicast(down, packets)
      BY <2>6, <3>1, MulticastSent DEF Multicast
    <3>2. CASE down' = Multicast(down, Append(packets, Reqack(sl)))
      BY <2>6, <3>2, MulticastSent DEF Multicast
    <3> QED
      BY <2>5, <3>1, <3>2
  <2>8. \A r \in Receivers : Sent(new, sliceNo', r)
    BY <2>3, <2>7
  <2> QED
    BY <2>3, <2>7, <2>8 DEF GoesOn
<1> QED
  BY <1>1, <1>2

-----------------------------------------------------------------------------
(* The steps of the composition. *)

Faults == [lost : 0..MaxLoss, dup : 0..MaxDup, early : 0..MaxEarly]

LEMMA FaultsCounted ==
  ASSUME faults \in Faults,
         \/ UNCHANGED faults
         \/ \E quiet \in BOOLEAN : Expires(quiet)
         \/ faults.lost < MaxLoss /\ faults' = [faults EXCEPT !.lost = @ + 1]
  PROVE  faults' \in Faults
<1>1. MaxLoss \in Nat /\ MaxDup \in Nat /\ MaxEarly \in Nat
  BY TransferAssumption
<1>2. CASE UNCHANGED faults
  BY <1>2
<1>3. ASSUME faults.early < MaxEarly, faults' = [faults EXCEPT !.early = @ + 1]
      PROVE  faults' \in Faults
  <2> DEFINE e == faults.early + 1
  <2>1. e \in 0..MaxEarly
    BY <1>1, <1>3 DEF Faults
  <2>2. faults' = [faults EXCEPT !.early = e]
    BY <1>3 DEF Faults
  <2> HIDE DEF e
  <2> QED
    BY <2>1, <2>2 DEF Faults
<1>4. ASSUME faults.lost < MaxLoss, faults' = [faults EXCEPT !.lost = @ + 1]
      PROVE  faults' \in Faults
  <2> DEFINE e == faults.lost + 1
  <2>1. e \in 0..MaxLoss
    BY <1>1, <1>4 DEF Faults
  <2>2. faults' = [faults EXCEPT !.lost = e]
    BY <1>4 DEF Faults
  <2> HIDE DEF e
  <2> QED
    BY <2>1, <2>2 DEF Faults
<1> QED
  BY <1>2, <1>3, <1>4 DEF Expires

\* The state of receiver r, and what is on its way to and from it.
SideOK(r, start, n) ==
  /\ rcv[r] \in ReceiverRecord /\ down[r] \in Seq(PacketType) /\ up[r] \in Seq(AnswerType)
  /\ Len(down[r]) <= ChanCap /\ Len(up[r]) <= ChanCap
  /\ Receiver(rcv[r], start, n) /\ Channel(down[r], rcv[r], start, n)

\* What the invariant says besides.
Frame == faults \in Faults /\ held = {} /\ dropped \subseteq Receivers \ valid

Tables == DOMAIN rcv = Receivers /\ DOMAIN down = Receivers /\ DOMAIN up = Receivers
          /\ rcv = [r \in Receivers |-> rcv[r]] /\ down = [r \in Receivers |-> down[r]]
          /\ up = [r \in Receivers |-> up[r]]

LEMMA InvParts ==
  ASSUME NEW start, NetTypes, Transferred(start)
  PROVE  History(start) /\ Frame /\ Tables /\ \A r \in Receivers : SideOK(r, start, sliceNo)
BY DEF NetTypes, Transferred, Frame, Tables, SideOK, Faults

LEMMA InvPartsNext ==
  ASSUME NEW start, History(start)', Frame', Tables', \A r \in Receivers : SideOK(r, start, sliceNo)'
  PROVE  NetTypes' /\ Transferred(start)'
BY DEF NetTypes, Transferred, Frame, Tables, SideOK, Faults

\* Nobody becomes a participant again.
LEMMA ValidShrinks ==
  ASSUME SenderMoves
  PROVE  valid' \subseteq valid
<1>1. CASE HandleNextMessage
  <2> DEFINE m == Head(msgs)
  <2>1. HandleOk(m) \/ HandleRetransmit(m) \/ HandleDisconnect(m)
    BY <1>1 DEF HandleNextMessage
  <2> HIDE DEF m
  <2>2. CASE HandleOk(m)
    BY <2>2 DEF HandleOk, MarkAnswered
  <2>3. CASE HandleRetransmit(m)
    BY <2>3 DEF HandleRetransmit, MarkAnswered
  <2>4. CASE HandleDisconnect(m)
    BY <2>4 DEF HandleDisconnect, RemoveParticipants
  <2> QED
    BY <2>1, <2>2, <2>3, <2>4
<1>2. CASE ReReply \/ BlockOnData \/ Finish \/ Wait \/ Wake
  BY <1>2 DEF ReReply, BlockOnData, Finish, Wait, Wake, dbVars
<1>3. ASSUME NEW s \in Slots, Ack(s) \/ Rexmit(s) \/ ReqackAnswered(s) \/ Expire(s)
      PROVE  valid' \subseteq valid
  BY <1>3 DEF Ack, Rexmit, ReqackAnswered, Expire, RemoveParticipants, dbVars
<1>4. ASSUME NEW s \in Slots, NEW n \in 0..MaxSlice, NewSlice(s, n)
      PROVE  valid' \subseteq valid
  BY <1>4 DEF NewSlice, dbVars
<1>5. CASE LocalReader
  BY <1>5 DEF LocalReader, LocalRead, LocalEof, LocalStop, dbVars
<1>6. CASE RcPush \/ (\E m \in MsgType : RcLookup(m)) \/ UNCHANGED senderVars
  BY <1>6 DEF RcPush, RcLookup, senderVars, dbVars
<1> QED
  BY <1>1, <1>2, <1>3, <1>4, <1>5, <1>6 DEF SenderMoves, Dispatcher

\* The sender's own step, whatever it sends.
LEMMA DispatcherTransfer ==
  ASSUME MaxInFlight = 1, FecRedundancy = 0, ~LastShort, SenderInv, HalfInv, NEW start \in [Nat -> Nat],
         NetTypes, Transferred(start), DispatcherStep
  PROVE  \E new \in [Nat -> Nat] : GoesOn(start, new) /\ NetTypes' /\ Transferred(new)'
<1>1. History(start) /\ Frame /\ Tables /\ \A r \in Receivers : SideOK(r, start, sliceNo)
  BY InvParts
<1>2. down \in [Receivers -> Seq(PacketType)] /\ sliceNo \in Nat
  BY SenderTypes DEF NetTypes
<1>3. Dispatcher /\ rcv' = rcv /\ up' = up /\ held' = held
  BY DEF DispatcherStep
<1>4. PICK new \in [Nat -> Nat] :
        /\ GoesOn(start, new) /\ History(new)' /\ \A r \in Receivers : Sent(new, sliceNo', r)
        /\ down' = [r \in Receivers |-> down'[r]]
  BY <1>1, <1>2, <1>3, DispatcherSends
<1>5. Frame'
  <2>1. faults' \in Faults
    BY <1>1, FaultsCounted DEF DispatcherStep, Frame
  <2>2. valid' \subseteq valid
    BY <1>3, ValidShrinks DEF SenderMoves
  <2>3. dropped' \subseteq Receivers \ valid'
    <3>1. valid \subseteq Receivers
      BY DEF SenderInv, CoreInv, SenderTypeOK
    <3> QED
      BY <1>1, <2>2, <3>1 DEF DispatcherStep, Frame
  <2> QED
    BY <1>1, <1>3, <2>1, <2>3 DEF Frame
<1>6. Tables'
  BY <1>1, <1>3, <1>4 DEF Tables
<1>7. ASSUME NEW r \in Receivers
      PROVE  SideOK(r, new, sliceNo)'
  <2>1. SideOK(r, start, sliceNo)
    BY <1>1
  <2>2. Receiver(rcv[r], new, sliceNo') /\ Channel(down[r], rcv[r], new, sliceNo') /\ sliceNo' \in Nat
    <3>1. CASE sliceNo' = sliceNo /\ new = start
      BY <1>2, <2>1, <3>1 DEF SideOK
    <3>2. CASE sliceNo' = sliceNo + 1 /\ Longer(start, new, sliceNo) /\ Cuts(new, sliceNo + 1)
      <4>1. Receiver(rcv[r], start, sliceNo) /\ Channel(down[r], rcv[r], start, sliceNo)
        BY <2>1 DEF SideOK
      <4>2. Receiver(rcv[r], new, sliceNo + 1)
        BY <1>2, <3>2, <4>1, ReceiverOutlives
      <4>3. Channel(down[r], rcv[r], new, sliceNo + 1)
        BY <1>2, <3>2, <4>1, ChannelOutlives
      <4> QED
        BY <1>2, <3>2, <4>2, <4>3
    <3> QED
      BY <1>4, <3>1, <3>2 DEF GoesOn
  <2>3. /\ down'[r] \in Seq(PacketType) /\ Len(down'[r]) <= ChanCap
        /\ Channel(down'[r], rcv[r], new, sliceNo')
    <3>1. CASE down'[r] = down[r]
      BY <2>1, <2>2, <3>1 DEF SideOK
    <3>2. CASE down'[r] # down[r]
      <4>1. PICK pkts : Fresh(pkts, new, sliceNo') /\ down'[r] = Arrive(down[r], pkts)
        BY <1>4, <3>2 DEF Sent
      <4>2. down[r] \in Seq(PacketType)
        BY <2>1 DEF SideOK
      <4> QED
        BY <2>2, <4>1, <4>2, ChannelGrows
    <3> QED
      BY <3>1, <3>2
  <2> QED
    BY <1>3, <2>1, <2>2, <2>3 DEF SideOK
<1>8. NetTypes' /\ Transferred(new)'
  BY <1>4, <1>5, <1>6, <1>7, InvPartsNext
<1> QED
  BY <1>4, <1>8

\* A step that concerns receiver r alone.
LEMMA OneSide ==
  ASSUME NEW start, NetTypes, Transferred(start), NEW r \in Receivers, NEW P, NEW q, NEW u,
         rcv' = [rcv EXCEPT ![r] = P], down' = [down EXCEPT ![r] = q], up' = [up EXCEPT ![r] = u],
         slices' = slices, UNCHANGED fillVars, valid' = valid, held' = held, dropped' = dropped,
         Receiver(P, start, sliceNo),
         q \in Seq(PacketType), Len(q) <= ChanCap, Channel(q, P, start, sliceNo),
         u \in Seq(AnswerType), Len(u) <= ChanCap, faults' \in Faults
  PROVE  NetTypes' /\ Transferred(start)'
<1>1. History(start) /\ Frame /\ Tables /\ \A x \in Receivers : SideOK(x, start, sliceNo)
  BY InvParts
<1>2. History(start)' /\ sliceNo' = sliceNo
  BY <1>1, HistoryUnchanged
<1>3. Frame'
  BY <1>1 DEF Frame
<1>4. Tables'
  BY <1>1 DEF Tables
<1>5. ASSUME NEW x \in Receivers
      PROVE  SideOK(x, start, sliceNo)'
  <2>1. SideOK(x, start, sliceNo)
    BY <1>1
  <2>2. CASE x = r
    <3>1. rcv'[r] = P /\ down'[r] = q /\ up'[r] = u
      BY <1>1 DEF Tables
    <3> QED
      BY <1>2, <2>2, <3>1 DEF SideOK, Receiver
  <2>3. CASE x # r
    <3>1. rcv'[x] = rcv[x] /\ down'[x] = down[x] /\ up'[x] = up[x]
      BY <1>1, <2>3 DEF Tables
    <3> QED
      BY <1>2, <2>1, <3>1 DEF SideOK
  <2> QED
    BY <2>2, <2>3
<1> QED
  BY <1>2, <1>3, <1>4, <1>5, InvPartsNext

\* Nothing happens to the receivers and the network but what receiver r's answers meet.
LEMMA QuietStep ==
  ASSUME NEW start, NetTypes, Transferred(start), slices' = slices, UNCHANGED fillVars, valid' = valid,
         UNCHANGED <<rcv, faults, held, dropped, down>>,
         up' = up \/ \E r \in Receivers : up[r] # <<>> /\ up' = Deliver(up, r)
  PROVE  NetTypes' /\ Transferred(start)'
<1>1. History(start) /\ Frame /\ Tables /\ \A x \in Receivers : SideOK(x, start, sliceNo)
  BY InvParts
<1>2. CASE up' = up
  <2>1. History(start)' /\ sliceNo' = sliceNo
    BY <1>1, HistoryUnchanged
  <2> QED
    BY <1>1, <1>2, <2>1, InvPartsNext DEF Frame, Tables, SideOK
<1>3. ASSUME NEW r \in Receivers, up[r] # <<>>, up' = Deliver(up, r)
      PROVE  NetTypes' /\ Transferred(start)'
  <2>1. SideOK(r, start, sliceNo)
    BY <1>1
  <2>2. /\ rcv' = [rcv EXCEPT ![r] = rcv[r]] /\ down' = [down EXCEPT ![r] = down[r]]
        /\ up' = [up EXCEPT ![r] = Tail(up[r])]
    BY <1>1, <1>3 DEF Tables, Deliver
  <2>3. Tail(up[r]) \in Seq(AnswerType) /\ Len(Tail(up[r])) <= ChanCap
    <3>1. up[r] \in Seq(AnswerType) /\ Len(up[r]) <= ChanCap /\ ChanCap \in Nat
      BY <2>1, ChanCapAssumption DEF SideOK
    <3> QED
      BY <1>3, <3>1
  <2>4. faults' \in Faults
    BY <1>1 DEF Frame
  <2> QED
    BY <2>1, <2>2, <2>3, <2>4, OneSide DEF SideOK
<1> QED
  BY <1>2, <1>3

-----------------------------------------------------------------------------
(* The steps of the receivers. *)

\* What is added behind the answers on their way.
LEMMA AnswersAdded ==
  ASSUME NEW u \in Seq(AnswerType), NEW a \in Seq(AnswerType)
  PROVE  Arrive(u, a) \in Seq(AnswerType) /\ Len(Arrive(u, a)) <= ChanCap
BY ArriveIs

LEMMA DisconnectsTyped ==
  FailingDisconnect \in Seq(AnswerType) /\ <<Disc>> \in Seq(AnswerType)
<1>1. Disc \in AnswerType
  BY DEF Disc, AnswerType
<1> DEFINE T == AnswerType
           o == Disc
<1> HIDE DEF T, o
<1>2. <<o>> \in Seq(T)
  BY <1>1 DEF T, o
<1>3. [i \in 1..5 |-> o] \in Seq(T)
  <2>1. [i \in 1..5 |-> o] \in [1..5 -> T]
    BY <1>1 DEF T, o
  <2> QED
    BY <2>1, SequenceOf
<1> QED
  BY <1>2, <1>3 DEF FailingDisconnect, DisconnectRetries, T, o

\* What the receiver knows after a packet.
LEMMA KnownAfter ==
  ASSUME NEW R, NEW P, NEW no, Reacted(R, P, no)
  PROVE  Known(P) \subseteq Known(R) \cup {no}
<1> SUFFICES ASSUME NEW k \in Known(P), k # no PROVE k \in Known(R)
  OBVIOUS
<1>1. CASE k \in P.completed
  BY <1>1 DEF Reacted, Known, Heard
<1>2. CASE \E i \in 1..RecvSlots : k = P.slots[i].no
  BY <1>2 DEF Reacted, Known, Heard
<1>3. CASE \E j \in 1..Len(P.late) : k = P.late[j].no
  BY <1>3 DEF Reacted, Known
<1> QED
  BY <1>1, <1>2, <1>3 DEF Known, Heard

\* The packet a receiver takes.
LEMMA HeadOfChannel ==
  ASSUME NEW start, NEW n, NEW R, NEW q \in Seq(PacketType), q # <<>>, Channel(q, R, start, n)
  PROVE  /\ Head(q) \in PacketType /\ Truthful(Head(q), start, n)
         /\ Head(q).type # "REPLY" => \A k \in Known(R) : k <= Head(q).no
<1>1. Head(q) = q[1] /\ 1 \in 1..Len(q)
  OBVIOUS
<1>2. q[1] \in PacketType
  BY <1>1, ElementOf
<1> QED
  BY <1>1, <1>2 DEF Channel

\* What the code makes of the packet: see PacketProcessed.
LEMMA Received ==
  ASSUME MaxSlice <= WaitFree, NEW start, NetTypes, Transferred(start), sliceNo \in Nat, NEW r \in Receivers,
         rcv[r].phase \in {"run", "drain"}, down[r] # <<>>, ~Stalls(rcv[r], Head(down[r]))
  PROVE  LET m == Head(down[r])
             S == ProcessPacket(rcv[r], m)
         IN  /\ Receiver(S.rcv, start, sliceNo)
             /\ m \in PacketType /\ Truthful(m, start, sliceNo)
             /\ m.type = "REPLY" => S.answers = <<>> /\ \A no : Reacted(rcv[r], S.rcv, no)
             /\ m.type # "REPLY" => /\ Reacted(rcv[r], S.rcv, m.no) /\ Replies(rcv[r], S.rcv, m.no, S.answers)
                                    /\ \A k \in Known(rcv[r]) : k <= m.no
<1>1. History(start) /\ SideOK(r, start, sliceNo)
  BY InvParts
<1>2. Cuts(start, sliceNo)
  BY <1>1 DEF History
<1>3. /\ Head(down[r]) \in PacketType /\ Truthful(Head(down[r]), start, sliceNo)
      /\ Head(down[r]).type # "REPLY" => \A k \in Known(rcv[r]) : k <= Head(down[r]).no
  BY <1>1, HeadOfChannel DEF SideOK
<1>4. Head(down[r]).type # "REPLY" => Newest(rcv[r], Head(down[r]).no)
  BY <1>3 DEF Newest, Known
<1>5. Receiver(rcv[r], start, sliceNo)
  BY <1>1 DEF SideOK
<1> QED
  BY <1>2, <1>3, <1>4, <1>5, PacketProcessed

LEMMA ReceivePacketTransfer ==
  ASSUME MaxSlice <= WaitFree, NEW start, NetTypes, Transferred(start), sliceNo \in Nat,
         NEW r \in Receivers, ReceivePacket(r)
  PROVE  NetTypes' /\ Transferred(start)'
<1> DEFINE m == Head(down[r])
           S == ProcessPacket(rcv[r], m)
<1>1. History(start) /\ Frame /\ Tables /\ SideOK(r, start, sliceNo)
  BY InvParts
<1>2. /\ rcv[r].phase \in {"run", "drain"} /\ down[r] # <<>> /\ ~Stalls(rcv[r], m)
      /\ rcv' = [rcv EXCEPT ![r] = S.rcv] /\ up' = Unicast(up, r, S.answers) /\ down' = Deliver(down, r)
      /\ UNCHANGED <<senderState, faults, held, dropped>>
  BY DEF ReceivePacket
<1>3. /\ Receiver(S.rcv, start, sliceNo) /\ m \in PacketType
      /\ m.type = "REPLY" => S.answers = <<>> /\ \A no : Reacted(rcv[r], S.rcv, no)
      /\ m.type # "REPLY" => Reacted(rcv[r], S.rcv, m.no) /\ Replies(rcv[r], S.rcv, m.no, S.answers)
  BY <1>2, Received
<1> HIDE DEF S
<1>4. S.answers \in Seq(AnswerType)
  <2>1. CASE m.type = "REPLY"
    <3>1. S.answers = <<>>
      BY <1>3, <2>1
    <3> QED
      BY <3>1
  <2>2. CASE m.type # "REPLY"
    <3>1. Replies(rcv[r], S.rcv, m.no, S.answers)
      BY <1>3, <2>2
    <3> QED
      BY <3>1 DEF Replies
  <2> QED
    BY <2>1, <2>2
<1>5. Known(S.rcv) \subseteq Known(rcv[r]) \cup (IF m.type = "REPLY" THEN {} ELSE {m.no})
  <2>1. CASE m.type = "REPLY"
    <3>1. Known(S.rcv) \subseteq Known(rcv[r]) \cup {"none"} /\ Known(S.rcv) \subseteq Known(rcv[r]) \cup {"nothing"}
      BY <1>3, <2>1, KnownAfter
    <3> QED
      BY <2>1, <3>1
  <2>2. CASE m.type # "REPLY"
    BY <1>3, <2>2, KnownAfter
  <2> QED
    BY <2>1, <2>2
<1>6. Tail(down[r]) \in Seq(PacketType) /\ Len(Tail(down[r])) <= Len(down[r])
      /\ Channel(Tail(down[r]), S.rcv, start, sliceNo)
  BY <1>1, <1>2, <1>5, ChannelTaken DEF SideOK
<1>7. Len(Tail(down[r])) <= ChanCap
  <2>1. Len(down[r]) <= ChanCap /\ Len(down[r]) \in Nat /\ Len(Tail(down[r])) \in Nat
    BY <1>1, <1>6 DEF SideOK
  <2> QED
    BY <1>6, <2>1, ChanCapAssumption
<1>8. Arrive(up[r], S.answers) \in Seq(AnswerType) /\ Len(Arrive(up[r], S.answers)) <= ChanCap
  BY <1>1, <1>4, AnswersAdded DEF SideOK
<1>9. /\ down' = [down EXCEPT ![r] = Tail(down[r])] /\ up' = [up EXCEPT ![r] = Arrive(up[r], S.answers)]
  BY <1>1, <1>2 DEF Deliver, Unicast, Tables
<1>10. slices' = slices /\ UNCHANGED fillVars /\ valid' = valid /\ held' = held /\ dropped' = dropped
       /\ faults' \in Faults
  BY <1>1, <1>2 DEF senderState, dbVars, Frame
<1> QED
  BY <1>2, <1>3, <1>6, <1>7, <1>8, <1>9, <1>10, OneSide

\* A packet leaves the channel of a receiver that is none the wiser.
LEMMA PacketGone ==
  ASSUME NEW start, NetTypes, Transferred(start), sliceNo \in Nat, NEW r \in Receivers, down[r] # <<>>, down' = Deliver(down, r),
         UNCHANGED <<rcv, up, held, dropped, slices, fillVars, valid>>, faults' \in Faults
  PROVE  NetTypes' /\ Transferred(start)'
<1>1. Tables /\ SideOK(r, start, sliceNo)
  BY InvParts
<1>2. Tail(down[r]) \in Seq(PacketType) /\ Len(Tail(down[r])) <= Len(down[r])
      /\ Channel(Tail(down[r]), rcv[r], start, sliceNo)
  <2>1. down[r] \in Seq(PacketType) /\ Channel(down[r], rcv[r], start, sliceNo)
    BY <1>1 DEF SideOK
  <2>2. Known(rcv[r]) \subseteq Known(rcv[r]) \cup (IF Head(down[r]).type = "REPLY" THEN {} ELSE {Head(down[r]).no})
    OBVIOUS
  <2> QED
    BY <2>1, <2>2, ChannelTaken
<1>3. Len(Tail(down[r])) <= ChanCap
  <2>1. Len(down[r]) <= ChanCap /\ Len(down[r]) \in Nat /\ Len(Tail(down[r])) \in Nat
    BY <1>1, <1>2 DEF SideOK
  <2> QED
    BY <1>2, <2>1, ChanCapAssumption
<1>4. /\ rcv' = [rcv EXCEPT ![r] = rcv[r]] /\ down' = [down EXCEPT ![r] = Tail(down[r])]
      /\ up' = [up EXCEPT ![r] = up[r]]
  BY <1>1 DEF Deliver, Tables
<1> QED
  BY <1>1, <1>2, <1>3, <1>4, OneSide DEF SideOK

LEMMA SniffTransfer ==
  ASSUME NEW start, NetTypes, Transferred(start), sliceNo \in Nat, NEW r \in Receivers, Sniff(r)
  PROVE  NetTypes' /\ Transferred(start)'
<1> DEFINE m == Head(down[r])
           P == StartPacket(rcv[r], m)
<1>1. History(start) /\ Frame /\ Tables /\ SideOK(r, start, sliceNo)
  BY InvParts
<1>2. /\ rcv[r].phase = "start" /\ down[r] # <<>> /\ rcv' = [rcv EXCEPT ![r] = P]
      /\ down' = [down EXCEPT ![r] = Tail(down[r])] /\ up' = [up EXCEPT ![r] = up[r]]
      /\ UNCHANGED <<senderState, netVars, dropped>>
  BY <1>1 DEF Sniff, Deliver, Tables, netVars
<1>3. m \in PacketType /\ Truthful(m, start, sliceNo)
  BY <1>1, <1>2, HeadOfChannel DEF SideOK
<1>4. Receiver(P, start, sliceNo) /\ Known(P) \subseteq Known(rcv[r]) \cup (IF m.type = "REPLY" THEN {} ELSE {m.no})
  <2>1. Receiver(rcv[r], start, sliceNo) /\ Cuts(start, sliceNo)
    BY <1>1 DEF SideOK, History
  <2>2. CASE m.type = "REPLY"
    <3>1. P = Seed(rcv[r])
      BY <2>2 DEF StartPacket
    <3> QED
      BY <1>2, <2>1, <2>2, <3>1, Seeded DEF Seedling
  <2>3. CASE m.type # "REPLY"
    <3>1. P = Note(rcv[r], m)
      BY <2>3 DEF StartPacket
    <3> HIDE DEF m, P
    <3>2. Receiver(Note(rcv[r], m), start, sliceNo) /\ Known(Note(rcv[r], m)) \subseteq Known(rcv[r]) \cup {m.no}
      BY <1>2, <1>3, <2>1, <2>3, Noted
    <3> QED
      BY <2>3, <3>1, <3>2
  <2> QED
    BY <2>2, <2>3
<1> HIDE DEF P
<1>5. Tail(down[r]) \in Seq(PacketType) /\ Len(Tail(down[r])) <= Len(down[r])
      /\ Channel(Tail(down[r]), P, start, sliceNo)
  BY <1>1, <1>2, <1>4, ChannelTaken DEF SideOK
<1>6. Len(Tail(down[r])) <= ChanCap
  <2>1. Len(down[r]) <= ChanCap /\ Len(down[r]) \in Nat /\ Len(Tail(down[r])) \in Nat
    BY <1>1, <1>5 DEF SideOK
  <2> QED
    BY <1>5, <2>1, ChanCapAssumption
<1>7. slices' = slices /\ UNCHANGED fillVars /\ valid' = valid /\ held' = held /\ dropped' = dropped
      /\ faults' \in Faults
  BY <1>1, <1>2 DEF senderState, dbVars, Frame, netVars
<1>8. up[r] \in Seq(AnswerType) /\ Len(up[r]) <= ChanCap
  BY <1>1 DEF SideOK
<1> QED
  BY <1>2, <1>4, <1>5, <1>6, <1>7, <1>8, OneSide

\* A receiver that changes and takes no packet.
LEMMA ReceiverChanged ==
  ASSUME NEW start, NetTypes, Transferred(start), NEW r \in Receivers, NEW P,
         rcv' = [rcv EXCEPT ![r] = P], UNCHANGED <<down, held, dropped, slices, fillVars, valid>>,
         Receiver(P, start, sliceNo), Known(P) = Known(rcv[r]),
         up' = up \/ \E a \in Seq(AnswerType) : up' = Unicast(up, r, a),
         faults' \in Faults
  PROVE  NetTypes' /\ Transferred(start)'
<1>1. Tables /\ SideOK(r, start, sliceNo)
  BY InvParts
<1>2. Channel(down[r], P, start, sliceNo) /\ down' = [down EXCEPT ![r] = down[r]]
  BY <1>1 DEF SideOK, Channel, Tables
<1>3. PICK u \in Seq(AnswerType) : Len(u) <= ChanCap /\ up' = [up EXCEPT ![r] = u]
  <2>1. CASE up' = up
    <3>1. up' = [up EXCEPT ![r] = up[r]]
      BY <1>1, <2>1 DEF Tables
    <3> QED
      BY <1>1, <3>1 DEF SideOK
  <2>2. CASE \E a \in Seq(AnswerType) : up' = Unicast(up, r, a)
    <3>1. PICK a \in Seq(AnswerType) : up' = Unicast(up, r, a)
      BY <2>2
    <3>2. Arrive(up[r], a) \in Seq(AnswerType) /\ Len(Arrive(up[r], a)) <= ChanCap
      BY <1>1, AnswersAdded DEF SideOK
    <3>3. up' = [up EXCEPT ![r] = Arrive(up[r], a)]
      BY <1>1, <3>1 DEF Unicast, Tables
    <3> QED
      BY <3>2, <3>3
  <2> QED
    BY <2>1, <2>2
<1>4. down[r] \in Seq(PacketType) /\ Len(down[r]) <= ChanCap
  BY <1>1 DEF SideOK
<1> QED
  BY <1>2, <1>3, <1>4, OneSide

\* The writer, the ends of a receiver, and its failures.
LEMMA ReceiverEndsTransfer ==
  ASSUME NEW start, NetTypes, Transferred(start), sliceNo \in Nat, NEW r \in Receivers,
         Write(r) \/ DrainExit(r) \/ FinishReceiver(r) \/ TimesOut(r) \/ Kill(r)
  PROVE  NetTypes' /\ Transferred(start)'
<1>1. Frame /\ Tables /\ SideOK(r, start, sliceNo)
  BY InvParts
<1>2. rcv[r] \in ReceiverRecord /\ Receiver(rcv[r], start, sliceNo)
  BY <1>1 DEF SideOK
<1>3. UNCHANGED <<down, held, dropped, slices, fillVars, valid>>
  BY DEF Write, DrainExit, FinishReceiver, TimesOut, Kill, vars, sendVars, dbVars, netVars, fillVars
<1>4. faults' \in Faults
  <2>1. faults \in Faults
    BY <1>1 DEF Frame
  <2>2. UNCHANGED faults \/ \E quiet \in BOOLEAN : Expires(quiet)
    <3>1. CASE Write(r) \/ FinishReceiver(r) \/ Kill(r)
      BY <3>1 DEF Write, FinishReceiver, Kill, netVars
    <3>2. CASE DrainExit(r) \/ TimesOut(r)
      <4>1. Expires(down[r] = <<>>)
        BY <3>2 DEF DrainExit, TimesOut, HearsNothing
      <4>2. (down[r] = <<>>) \in BOOLEAN
        OBVIOUS
      <4> QED
        BY <4>1, <4>2
    <3> QED
      BY <3>1, <3>2
  <2> QED
    BY <2>1, <2>2, FaultsCounted
<1>5. up' = up \/ \E a \in Seq(AnswerType) : up' = Unicast(up, r, a)
  <2>1. CASE Write(r) \/ DrainExit(r) \/ Kill(r)
    BY <2>1 DEF Write, DrainExit, Kill, netVars
  <2>2. CASE FinishReceiver(r) \/ TimesOut(r)
    BY <2>2, DisconnectsTyped DEF FinishReceiver, TimesOut
  <2> QED
    BY <2>1, <2>2
<1>6. CASE Write(r)
  <2>1. CanWrite(rcv[r]) /\ rcv' = [rcv EXCEPT ![r] = WriteBlock(rcv[r])]
    BY <1>1, <1>6 DEF Write, Tables
  <2>2. Receiver(WriteBlock(rcv[r]), start, sliceNo) /\ Known(WriteBlock(rcv[r])) = Known(rcv[r])
    BY <1>2, <2>1, Wrote
  <2> QED
    BY <1>3, <1>4, <1>5, <2>1, <2>2, ReceiverChanged
<1>7. ASSUME NEW ph \in {"exited", "finished", "dead"}, rcv' = [rcv EXCEPT ![r].phase = ph],
             ph \in {"exited", "finished"} => rcv[r].phase \in {"drain", "exited"},
             ph = "finished" => CanFinish(rcv[r])
      PROVE  NetTypes' /\ Transferred(start)'
  <2> DEFINE Q == [rcv[r] EXCEPT !.phase = ph]
  <2>1. /\ Q \in ReceiverRecord /\ SameData(rcv[r], Q) /\ Q.slots = rcv[r].slots /\ Q.phase = ph
    BY <1>2 DEF ReceiverRecord, SameData
  <2>2. rcv' = [rcv EXCEPT ![r] = Q]
    BY <1>1, <1>7 DEF Tables
  <2> HIDE DEF Q
  <2>3. /\ ph \in {"exited", "finished"} => \E no \in rcv[r].completed : Size(start, no) = 0
        /\ ph = "finished" => rcv[r].dataEnd /\ Written(rcv[r]) = rcv[r].produced
    <3>1. rcv[r].produced \in Nat /\ Written(rcv[r]) \in Nat
      BY <1>2, Records
    <3> QED
      BY <1>2, <1>7, <3>1 DEF Receiver, Ends, CanFinish, Unwritten
  <2>4. Receiver(Q, start, sliceNo) /\ Known(Q) = Known(rcv[r])
    BY <1>2, <2>1, <2>3, PhaseChanged
  <2> QED
    BY <1>3, <1>4, <1>5, <2>2, <2>4, ReceiverChanged
<1>8. CASE DrainExit(r)
  BY <1>7, <1>8 DEF DrainExit
<1>9. CASE FinishReceiver(r)
  BY <1>7, <1>9 DEF FinishReceiver, CanFinish
<1>10. CASE TimesOut(r) \/ Kill(r)
  BY <1>7, <1>10 DEF TimesOut, Kill
<1> QED
  BY <1>6, <1>8, <1>9, <1>10

-----------------------------------------------------------------------------
(* Every step. *)

\* Without duplicates there are no other steps than these.
ReceiverSide(r) ==
  \/ ReceivePacket(r) \/ Sniff(r) \/ Discard(r) \/ LoseDown(r) \/ LoseUp(r)
  \/ Write(r) \/ DrainExit(r) \/ FinishReceiver(r) \/ TimesOut(r) \/ Kill(r)

LEMMA StepKinds ==
  ASSUME Duplicable = {}, held = {}, [Next]_transferVars
  PROVE  \/ DispatcherStep \/ LocalReaderStep \/ RcPushStep \/ UNCHANGED transferVars
         \/ \E r \in Receivers : RcStep(r) \/ ReceiverSide(r)
<1>1. \A r \in Receivers : ~DupDown(r) /\ ~DeliverCopy(r)
  BY DEF DupDown, DeliverCopy
<1> QED
  BY <1>1 DEF Next, ReceiverThreads, WriterThread, Failure, Terminated, ReceiverSide

\* The receivers leave all of the sender alone but the channels.
LEMMA SideQuiet ==
  ASSUME NEW r \in Receivers, ReceiverSide(r)
  PROVE  UNCHANGED senderVars /\ dropped' = dropped /\ held' = held
<1>1. CASE ReceivePacket(r) \/ Sniff(r) \/ Discard(r) \/ LoseDown(r)
  BY <1>1 DEF ReceivePacket, Sniff, Discard, LoseDown, senderState, rcVars, senderVars, netVars
<1>2. CASE LoseUp(r) \/ Write(r) \/ DrainExit(r) \/ FinishReceiver(r) \/ TimesOut(r) \/ Kill(r)
  BY <1>2 DEF LoseUp, Write, DrainExit, FinishReceiver, TimesOut, Kill, vars, sendVars, senderVars, netVars,
              fillVars, diskVars, rcVars
<1> QED
  BY <1>1, <1>2 DEF ReceiverSide

\* The answer of a participant, as it is queued.
LEMMA AnswerQueued ==
  ASSUME NEW r \in Receivers, NEW a \in AnswerType
  PROVE  Incoming(r, a) \in MsgType /\ Incoming(r, a).cl = r
BY DEF AnswerType, Incoming, MsgType, OkMsg, RetransmitMsg, DisconnectMsg

LEMMA RcStepMoves ==
  ASSUME NetTypes, NEW r \in Receivers, RcStep(r)
  PROVE  RcLookup(Incoming(r, Head(up[r]))) \/ UNCHANGED vars
BY DEF RcStep

LEMMA TransferMoves ==
  ASSUME Duplicable = {}, NetTypes, [Next]_transferVars
  PROVE  SenderMoves
<1>1. CASE DispatcherStep \/ LocalReaderStep \/ RcPushStep
  BY <1>1 DEF DispatcherStep, LocalReaderStep, RcPushStep, SenderMoves
<1>2. CASE UNCHANGED transferVars
  BY <1>2 DEF transferVars, vars, sendVars, dbVars, SenderMoves, senderVars, fillVars, rcVars, diskVars
<1>3. ASSUME NEW r \in Receivers, RcStep(r)
      PROVE  SenderMoves
  <2>1. up[r] # <<>> /\ up[r] \in Seq(AnswerType)
    BY <1>3 DEF RcStep, NetTypes
  <2>2. Head(up[r]) \in AnswerType
    BY <2>1, ElementOf
  <2>3. CASE RcLookup(Incoming(r, Head(up[r])))
    BY <2>2, <2>3, AnswerQueued DEF SenderMoves
  <2>4. CASE UNCHANGED vars
    BY <2>4 DEF vars, sendVars, dbVars, SenderMoves, senderVars, fillVars, rcVars, diskVars
  <2> QED
    BY <1>3, <2>3, <2>4, RcStepMoves
<1>4. ASSUME NEW r \in Receivers, ReceiverSide(r)
      PROVE  SenderMoves
  BY <1>4, SideQuiet DEF SenderMoves
<1> QED
  BY <1>1, <1>2, <1>3, <1>4, StepKinds DEF NetTypes

\* The threads of the sender that neither cut a slice nor send a packet.
LEMMA QuietThreads ==
  ASSUME LocalReaderStep \/ RcPushStep \/ UNCHANGED transferVars \/ \E r \in Receivers : RcStep(r)
  PROVE  /\ slices' = slices /\ UNCHANGED fillVars /\ valid' = valid
         /\ UNCHANGED <<rcv, faults, held, dropped, down>>
         /\ up' = up \/ \E r \in Receivers : up[r] # <<>> /\ up' = Deliver(up, r)
<1>1. CASE LocalReaderStep
  BY <1>1 DEF LocalReaderStep, LocalReader, LocalRead, LocalEof, LocalStop, fillVars, dbVars, netVars
<1>2. CASE RcPushStep
  BY <1>2 DEF RcPushStep, RcPush, fillVars, dbVars, netVars
<1>3. CASE UNCHANGED transferVars
  BY <1>3 DEF transferVars, vars, sendVars, dbVars, fillVars, netVars
<1>4. ASSUME NEW r \in Receivers, RcStep(r)
      PROVE  /\ slices' = slices /\ UNCHANGED fillVars /\ valid' = valid
             /\ UNCHANGED <<rcv, faults, held, dropped, down>>
             /\ up[r] # <<>> /\ up' = Deliver(up, r)
  <2>1. up[r] # <<>> /\ up' = Deliver(up, r) /\ UNCHANGED <<rcv, faults, held, dropped>>
    BY <1>4 DEF RcStep
  <2>2. CASE RcLookup(Incoming(r, Head(up[r])))
    BY <2>1, <2>2 DEF RcLookup, fillVars, dbVars
  <2>3. CASE UNCHANGED vars
    BY <2>1, <2>3 DEF vars, sendVars, dbVars, fillVars
  <2> QED
    BY <1>4, <2>2, <2>3 DEF RcStep
<1> QED
  BY <1>1, <1>2, <1>3, <1>4

LEMMA LossTransfer ==
  ASSUME NEW start, NetTypes, Transferred(start), sliceNo \in Nat, NEW r \in Receivers,
         Discard(r) \/ LoseDown(r) \/ LoseUp(r)
  PROVE  NetTypes' /\ Transferred(start)'
<1>1. Frame /\ Tables /\ SideOK(r, start, sliceNo)
  BY InvParts
<1>2. slices' = slices /\ UNCHANGED fillVars /\ valid' = valid /\ dropped' = dropped /\ held' = held
  BY SideQuiet DEF ReceiverSide, senderVars, dbVars, fillVars
<1>3. faults' \in Faults
  BY <1>1, FaultsCounted DEF Frame, Discard, LoseDown, LoseUp, netVars
<1>4. CASE Discard(r) \/ LoseDown(r)
  BY <1>2, <1>3, <1>4, PacketGone DEF Discard, LoseDown, netVars
<1>5. CASE LoseUp(r)
  <2>1. up[r] # <<>> /\ up[r] \in Seq(AnswerType) /\ Len(up[r]) <= ChanCap /\ ChanCap \in Nat
    BY <1>1, <1>5, ChanCapAssumption DEF SideOK, LoseUp
  <2>2. Tail(up[r]) \in Seq(AnswerType) /\ Len(Tail(up[r])) <= ChanCap
    BY <2>1
  <2>3. /\ rcv' = [rcv EXCEPT ![r] = rcv[r]] /\ down' = [down EXCEPT ![r] = down[r]]
        /\ up' = [up EXCEPT ![r] = Tail(up[r])]
    BY <1>1, <1>5 DEF Tables, Deliver, LoseUp, vars, sendVars
  <2>4. /\ down[r] \in Seq(PacketType) /\ Len(down[r]) <= ChanCap /\ Receiver(rcv[r], start, sliceNo)
        /\ Channel(down[r], rcv[r], start, sliceNo)
    BY <1>1 DEF SideOK
  <2> QED
    BY <1>2, <1>3, <2>2, <2>3, <2>4, OneSide
<1> QED
  BY <1>4, <1>5

\* The assumptions of the theorems: half duplex, no parity, no duplicates, and a ring
\* that holds the largest slice when it is found to have room for one.
Setting ==
  MaxInFlight = 1 /\ FecRedundancy = 0 /\ ~LastShort /\ Duplicable = {} /\ MaxSlice <= WaitFree

LEMMA TransferStep ==
  ASSUME Setting, SenderInv, HalfInv, NEW start \in [Nat -> Nat], NetTypes, Transferred(start),
         [Next]_transferVars
  PROVE  /\ SenderInv' /\ HalfInv'
         /\ \E new \in [Nat -> Nat] : GoesOn(start, new) /\ NetTypes' /\ Transferred(new)'
<1>1. SenderInv' /\ HalfInv'
  BY TransferMoves, SenderStep, HalfStep DEF Setting
<1>2. sliceNo \in Nat
  BY SenderTypes
<1>3. CASE DispatcherStep
  BY <1>1, <1>3, DispatcherTransfer DEF Setting
<1>4. CASE LocalReaderStep \/ RcPushStep \/ UNCHANGED transferVars \/ \E r \in Receivers : RcStep(r)
  <2>1. NetTypes' /\ Transferred(start)'
    BY <1>4, QuietThreads, QuietStep
  <2>2. GoesOn(start, start)
    BY <1>4, QuietThreads DEF GoesOn, fillVars
  <2> QED
    BY <1>1, <2>1, <2>2
<1>5. ASSUME NEW r \in Receivers, ReceiverSide(r)
      PROVE  GoesOn(start, start) /\ NetTypes' /\ Transferred(start)'
  <2>1. GoesOn(start, start)
    BY <1>5, SideQuiet DEF GoesOn, senderVars, fillVars
  <2>2. CASE ReceivePacket(r)
    BY <1>2, <2>1, <2>2, ReceivePacketTransfer DEF Setting
  <2>3. CASE Sniff(r)
    BY <1>2, <2>1, <2>3, SniffTransfer
  <2>4. CASE Discard(r) \/ LoseDown(r) \/ LoseUp(r)
    BY <1>2, <2>1, <2>4, LossTransfer
  <2>5. CASE Write(r) \/ DrainExit(r) \/ FinishReceiver(r) \/ TimesOut(r) \/ Kill(r)
    BY <1>2, <2>1, <2>5, ReceiverEndsTransfer
  <2> QED
    BY <1>5, <2>2, <2>3, <2>4, <2>5 DEF ReceiverSide
<1> QED
  BY <1>1, <1>3, <1>4, <1>5, StepKinds DEF NetTypes, Setting

LEMMA NewReceiverOK ==
  ASSUME NEW phase \in {"start", "run"}, NEW start, start[0] = 0
  PROVE  /\ Receiver(NewReceiver(phase), start, 0) /\ Known(NewReceiver(phase)) \subseteq {-1}
         /\ NewReceiver(phase) \in ReceiverRecord
<1> DEFINE R == NewReceiver(phase)
<1>1. /\ R.phase = phase /\ R.slots = [i \in 1..RecvSlots |-> FreeSlot] /\ R.completed = {} /\ R.late = <<>>
      /\ R.started = FALSE /\ R.ring = [i \in 0..RecvRing - 1 |-> 0] /\ R.produced = 0 /\ R.out = <<>>
      /\ R.dataEnd = FALSE
  BY DEF NewReceiver
<1>2. R \in ReceiverRecord
  BY DEF NewReceiver, ReceiverRecord, FreeSlot, SlotType
<1> HIDE DEF R
<1>3. \A i \in 1..RecvSlots : R.slots[i] = FreeSlot
  BY <1>1
<1>4. SlotTable(R, start, 0)
  BY <1>1, <1>3, FreeSlotFields DEF SlotTable, SlotTruthful
<1>5. Delivered(R, start, 0) /\ Written(R) = 0
  BY <1>1 DEF Delivered, Written
<1>6. Ends(R, start) /\ Late(R, start, 0)
  BY <1>1 DEF Ends, Late
<1>7. Prefix(R, start, 0)
  BY <1>1, <1>3, <1>5, FreeSlotFields DEF Prefix
<1>8. Known(R) \subseteq {-1}
  BY <1>1, <1>3, FreeSlotFields DEF Known, Heard
<1> QED
  BY <1>2, <1>4, <1>5, <1>6, <1>7, <1>8 DEF Receiver, R

LEMMA InitTransfer == Init => TransferInv
<1> SUFFICES ASSUME Init PROVE TransferInv
  OBVIOUS
<1>1. SenderInv /\ HalfInv
  BY InitSender DEF Init
<1> DEFINE start == [i \in Nat |-> 0]
           Begin(r) == NewReceiver(IF r \in LateReceivers THEN "start" ELSE "run")
<1>2. start \in [Nat -> Nat] /\ start[0] = 0
  OBVIOUS
<1>3. sliceNo = 0 /\ takenPos = 0 /\ Pending = {} /\ down = EmptyChannel(Receivers) /\ up = EmptyChannel(Receivers)
      /\ held = {} /\ dropped = {} /\ faults = [lost |-> 0, dup |-> 0, early |-> 0]
      /\ rcv = [r \in Receivers |-> Begin(r)]
  BY DEF Init, SendInit, Pending, FreeSlice
<1>4. History(start)
  BY <1>2, <1>3 DEF History, Cuts
<1>5. \A r \in Receivers : Receiver(rcv[r], start, 0) /\ rcv[r] \in ReceiverRecord
  <2> SUFFICES ASSUME NEW r \in Receivers PROVE Receiver(Begin(r), start, 0) /\ Begin(r) \in ReceiverRecord
    BY <1>3
  <2> QED
    BY <1>2, NewReceiverOK
<1> HIDE DEF start, Begin
<1>6. \A r \in Receivers : down[r] = <<>> /\ up[r] = <<>>
  BY <1>3 DEF EmptyChannel
<1>7. \A r \in Receivers : Channel(down[r], rcv[r], start, 0)
  BY <1>6 DEF Channel
<1>8. down \in [Receivers -> Seq(PacketType)] /\ up \in [Receivers -> Seq(AnswerType)]
  BY <1>3 DEF EmptyChannel
<1>9. rcv \in [Receivers -> ReceiverRecord]
  BY <1>3, <1>5
<1>10. NetTypes
  BY <1>3, <1>6, <1>8, <1>9, TransferAssumption, ChanCapAssumption DEF NetTypes
<1> QED
  BY <1>1, <1>2, <1>3, <1>4, <1>5, <1>7, <1>10 DEF TransferInv, Transferred

LEMMA Transfers == ASSUME Setting PROVE Spec => []TransferInv
<1>1. TransferInv /\ [Next]_transferVars => TransferInv'
  BY TransferStep DEF TransferInv
<1> QED
  BY <1>1, InitTransfer, PTL DEF Spec

-----------------------------------------------------------------------------
(* The theorems. *)

LEMMA ReceiverTyped ==
  ASSUME NEW start, SenderInv, History(start), NEW R, Receiver(R, start, sliceNo)
  PROVE  ReceiverType(R)
<1>1. R \in ReceiverRecord /\ sliceNo \in Nat /\ takenPos \in Nat /\ readPos \in Nat
      /\ takenPos <= readPos /\ readPos <= SourceBlocks /\ SourceBlocks \in Nat /\ MaxSlice \in Nat
  BY SenderTypes, SizesAssumption DEF Receiver
<1>2. Cuts(start, sliceNo) /\ start[sliceNo] = takenPos
  BY DEF History
<1>3. /\ R.slots \in [1..RecvSlots -> SlotType] /\ R.produced \in Nat /\ R.started \in BOOLEAN /\ R.dataEnd \in BOOLEAN
      /\ R.phase \in {"start", "run", "drain", "exited", "finished", "dead"}
  BY <1>1, Records
<1>4. R.completed \subseteq 0..sliceNo - 1
  BY DEF Receiver, SlotTable
<1>5. R.produced <= start[sliceNo] /\ Written(R) <= R.produced
  <2>1. sliceNo \in 0..sliceNo /\ \A no \in R.completed : no < sliceNo
    BY <1>1, <1>4
  <2> QED
    BY <2>1 DEF Receiver, Delivered
<1>6. ASSUME NEW i \in 1..RecvSlots
      PROVE  /\ R.slots[i].state \in {"Free", "Receiving", "Done"}
             /\ R.slots[i].no \in -1..sliceNo - 1
             /\ R.slots[i].have \subseteq 0..MaxSlice - 1
  <2>1. R.slots[i] \in SlotType /\ SlotTruthful(R.slots[i], R.completed, start, sliceNo)
    BY <1>3 DEF Receiver, SlotTable
  <2>2. CASE R.slots[i] = FreeSlot
    BY <1>1, <2>2, FreeSlotFields
  <2>3. CASE R.slots[i] # FreeSlot
    <3>1. R.slots[i].no \in 0..sliceNo - 1
      BY <1>4, <2>1, <2>3 DEF SlotTruthful
    <3>2. Size(start, R.slots[i].no) \in Nat /\ Size(start, R.slots[i].no) <= MaxSlice
      BY <1>1, <1>2, <3>1, CutTypes
    <3>3. R.slots[i].have = {} \/ R.slots[i].have \subseteq 0..Size(start, R.slots[i].no) - 1
      BY <2>1, <2>3 DEF SlotTruthful
    <3>4. R.slots[i].have \subseteq 0..MaxSlice - 1
      BY <1>1, <3>2, <3>3
    <3> QED
      BY <1>1, <2>1, <3>1, <3>4 DEF SlotType
  <2> QED
    BY <2>2, <2>3
<1> QED
  BY <1>1, <1>2, <1>3, <1>4, <1>5, <1>6 DEF ReceiverType

\* The receivers and the network keep their types: whatever is lost, whoever is dropped
\* and however early the sender asks again, a receiver only ever knows slices that were
\* cut and hands no more blocks to its writer than the source has.
THEOREM TransferTypes ==
  ASSUME Setting PROVE Spec => []TypeOK
<1>1. ASSUME TransferInv
      PROVE  TypeOK
  <2>1. PICK start \in [Nat -> Nat] : Transferred(start)
    BY <1>1 DEF TransferInv
  <2>2. SenderInv /\ NetTypes
    BY <1>1 DEF TransferInv
  <2>3. \A r \in Receivers : ReceiverType(rcv[r])
    BY <2>1, <2>2, ReceiverTyped DEF Transferred
  <2> QED
    BY <2>2, <2>3 DEF NetTypes, TypeOK
<1> QED
  BY <1>1, Transfers, PTL

\* A receiver that announced the end of the data has delivered every slice.
LEMMA EndHasAll ==
  ASSUME NEW start, NEW n \in Nat, Cuts(start, n), NEW R, Receiver(R, start, n), R.dataEnd
  PROVE  R.completed = 0..n - 1 /\ n > 0 /\ Size(start, n - 1) = 0
<1>1. PICK e \in R.completed : Size(start, e) = 0 /\ 0..e \subseteq R.completed
  BY DEF Receiver, Ends
<1>2. R.completed \subseteq 0..n - 1
  BY DEF Receiver, SlotTable
<1>3. e = n - 1 /\ e \in Nat /\ e \in 0..n - 1
  BY <1>1, <1>2 DEF Cuts
<1>4. 0..n - 1 \subseteq R.completed /\ n > 0
  BY <1>1, <1>3
<1> QED
  BY <1>1, <1>2, <1>3, <1>4

\* What a receiver that finished wrote.
Whole(R) == Written(R) = SourceBlocks /\ \A i \in 1..SourceBlocks : R.out[i] = i

LEMMA FinishedWhole ==
  ASSUME SenderInv, NEW start, History(start), NEW R, Receiver(R, start, sliceNo), R.phase = "finished"
  PROVE  Whole(R)
<1>1. sliceNo \in Nat /\ takenPos \in Nat /\ Cuts(start, sliceNo) /\ start[sliceNo] = takenPos
  BY SenderTypes DEF History
<1>2. R.dataEnd /\ Written(R) = R.produced
  BY DEF Receiver, Ends
<1>3. R.completed = 0..sliceNo - 1 /\ sliceNo > 0 /\ Size(start, sliceNo - 1) = 0
  BY <1>1, <1>2, EndHasAll
<1>4. takenPos = SourceBlocks
  <2>1. sliceNo - 1 \in 0..sliceNo - 1
    BY <1>1, <1>3
  <2>2. atEnd
    BY <1>3, <2>1 DEF History
  <2> QED
    BY <2>2 DEF SenderInv, StreamInv
<1>5. Prefix(R, start, sliceNo)
  BY <1>1, <1>3 DEF Receiver
<1>6. R.produced = SourceBlocks
  BY <1>1, <1>4, <1>5 DEF Prefix
<1>7. \A i \in 1..Written(R) : R.out[i] = i
  BY <1>5 DEF Prefix
<1> QED
  BY <1>2, <1>6, <1>7 DEF Whole

\* A receiver that reports success has written the whole source, each block in its place,
\* whatever was lost, whoever was dropped and however early the sender gave up.
THEOREM FinishedHasWhole ==
  ASSUME Setting
  PROVE  Spec => [](CompleteMeansWhole /\ \A r \in Receivers : rcv[r].phase = "finished" => Whole(rcv[r]))
<1>1. ASSUME TransferInv
      PROVE  CompleteMeansWhole /\ \A r \in Receivers : rcv[r].phase = "finished" => Whole(rcv[r])
  <2>1. PICK start \in [Nat -> Nat] : Transferred(start)
    BY <1>1 DEF TransferInv
  <2>2. \A r \in Receivers : rcv[r].phase = "finished" => Whole(rcv[r])
    BY <1>1, <2>1, FinishedWhole DEF TransferInv, Transferred
  <2> QED
    BY <2>2 DEF CompleteMeansWhole, Whole
<1> QED
  BY <1>1, Transfers, PTL

-----------------------------------------------------------------------------
(* In step: what the receivers do. *)

\* What a receiver's step does to the receivers and to the answers on their way; a receiver
\* that was dropped may answer what it likes.
SideMove(r) ==
  /\ \A x \in Receivers : x # r => rcv'[x] = rcv[x] /\ up'[x] = up[x]
  /\ rcv[r].completed \subseteq rcv'[r].completed /\ (Gone(r) => Gone(r)')
  /\ \/ rcv'[r].completed = rcv[r].completed
     \/ /\ rcv[r].phase \in {"run", "drain"}
        /\ \E no \in 0..sliceNo - 1 : rcv'[r].completed = rcv[r].completed \cup {no}
  /\ \/ r \in dropped
     \/ up'[r] = up[r]
     \/ up[r] # <<>> /\ up'[r] = Tail(up[r])
     \/ \E a \in Seq(AnswerType) :
          /\ up'[r] = Arrive(up[r], a) /\ ~Gone(r) /\ \A i \in 1..Len(a) : Honest(r, a[i])'
          /\ OnlyDisc(a) \/ \A i \in 1..Len(a) : a[i].type # "DISC"

\* Of the slices a participant lacks all but the newest would have to be in flight.
LEMMA OneLacks ==
  ASSUME SenderInv, HalfInv, InStep, NEW r \in valid, NEW no \in 0..sliceNo - 1, no \notin rcv[r].completed
  PROVE  no = sliceNo - 1
BY DEF InStep, HalfInv

LEMMA Participates ==
  ASSUME InStep, NEW r \in Kept, ~Gone(r)
  PROVE  r \in valid
BY DEF InStep

\* A participant always has a slot for the slice a packet is about.
LEMMA RoomForOne ==
  ASSUME SenderInv, HalfInv, InStep, NEW r \in valid, NEW start, Receiver(rcv[r], start, sliceNo),
         NEW no \in 0..sliceNo - 1, \A k \in Known(rcv[r]) : k <= no, FindSlot(rcv[r], no) = {}
  PROVE  SlotForNew(rcv[r]) # {}
<1> DEFINE R == rcv[r]
<1>1. R.slots[1] \in SlotType /\ 1 \in 1..RecvSlots /\ sliceNo \in Nat
  BY Records, RecvAssumption, SenderTypes DEF Receiver
<1>2. SlotTruthful(R.slots[1], R.completed, start, sliceNo)
  BY <1>1 DEF Receiver, SlotTable
<1>3. R.slots[1].state # "Receiving"
  <2> SUFFICES ASSUME R.slots[1].state = "Receiving" PROVE FALSE
    OBVIOUS
  <2>1. R.slots[1].no \in 0..sliceNo - 1 /\ R.slots[1].no \notin R.completed
    BY <1>2 DEF SlotTruthful, FreeSlot
  <2>2. R.slots[1].no = sliceNo - 1
    BY <2>1, OneLacks
  <2>3. R.slots[1].no <= no
    BY <1>1 DEF Known, Heard
  <2>4. R.slots[1].no = no
    BY <1>1, <2>2, <2>3
  <2> QED
    BY <1>1, <2>4 DEF FindSlot
<1>4. 1 \in InState(R, "Free") \/ 1 \in InState(R, "Done")
  BY <1>1, <1>3 DEF InState, SlotType
<1>5. ASSUME NEW S \in SUBSET (1..RecvSlots), S # {}
      PROVE  FirstIn(S) # {}
  <2>1. S \in SUBSET Nat
    OBVIOUS
  <2>2. PICK i \in S : \A j \in S : i <= j
    BY <1>5, <2>1, LeastNat
  <2> QED
    BY <2>2 DEF FirstIn
<1>6. InState(R, "Free") \in SUBSET (1..RecvSlots) /\ InState(R, "Done") \in SUBSET (1..RecvSlots)
  BY DEF InState
<1> QED
  BY <1>4, <1>5, <1>6 DEF SlotForNew

\* What taking a packet does.
LEMMA ReceiveMoves ==
  ASSUME MaxSlice <= WaitFree, SenderInv, HalfInv, InStep, NEW start, NetTypes, Transferred(start),
         NEW r \in Receivers, ReceivePacket(r)
  PROVE  SideMove(r)
<1> DEFINE m == Head(down[r])
           S == ProcessPacket(rcv[r], m)
           R == rcv[r]
<1>1. Tables /\ sliceNo \in Nat /\ SideOK(r, start, sliceNo)
  BY InvParts, SenderTypes
<1>2. /\ R.phase \in {"run", "drain"} /\ down[r] # <<>> /\ ~Stalls(R, m)
      /\ rcv' = [rcv EXCEPT ![r] = S.rcv] /\ up' = Unicast(up, r, S.answers)
  BY DEF ReceivePacket
<1>3. /\ Receiver(S.rcv, start, sliceNo) /\ m \in PacketType /\ Truthful(m, start, sliceNo)
      /\ m.type = "REPLY" => S.answers = <<>> /\ \A no : Reacted(R, S.rcv, no)
      /\ m.type # "REPLY" => /\ Reacted(R, S.rcv, m.no) /\ Replies(R, S.rcv, m.no, S.answers)
                             /\ \A k \in Known(R) : k <= m.no
  BY <1>1, <1>2, Received
<1> HIDE DEF S
<1>4. PICK P, a :
        /\ P = S.rcv /\ a = S.answers
        /\ \A x \in Receivers : x # r => rcv'[x] = rcv[x] /\ up'[x] = up[x]
        /\ rcv'[r] = P /\ up'[r] = Arrive(up[r], a)
  BY <1>1, <1>2 DEF Tables, Unicast
<1>5. ~Gone(r)
  BY <1>2 DEF Gone
<1>6. R.completed \subseteq P.completed
  BY <1>3, <1>4 DEF Reacted
<1>7. R \in ReceiverRecord /\ Receiver(R, start, sliceNo)
  BY <1>1 DEF SideOK
<1>8. CASE m.type = "REPLY"
  <2>1. a = <<>> /\ P.completed \subseteq R.completed \cup {"none"} /\ P.completed \subseteq R.completed \cup {"nothing"}
    BY <1>3, <1>4, <1>8 DEF Reacted
  <2>2. P.completed = R.completed
    BY <1>6, <2>1
  <2>3. a \in Seq(AnswerType) /\ Len(a) = 0
    BY <2>1
  <2> QED
    BY <1>4, <1>5, <2>2, <2>3 DEF SideMove, OnlyDisc
<1>9. CASE m.type # "REPLY"
  <2> DEFINE no == m.no
  <2>1. Reacted(R, P, no) /\ Replies(R, P, no, a) /\ \A k \in Known(R) : k <= no
    BY <1>3, <1>4, <1>9
  <2>2. no \in 0..sliceNo - 1
    BY <1>3, <1>9 DEF Truthful
  <2> HIDE DEF no
  <2>3. P.completed = R.completed \/ P.completed = R.completed \cup {no}
    BY <1>6, <2>1 DEF Reacted
  <2>4. CASE r \in dropped
    BY <1>2, <1>4, <1>5, <1>6, <2>2, <2>3, <2>4 DEF SideMove
  <2>5. CASE r \notin dropped
    <3>1. ~(FindSlot(R, no) = {} /\ SlotForNew(R) = {})
      BY <1>5, <1>7, <2>1, <2>2, <2>5, Participates, RoomForOne DEF Kept
    <3>2. a \in Seq(AnswerType)
          /\ \A i \in 1..Len(a) : a[i].type # "DISC" /\ (a[i].type = "OK" => a[i].no \in P.completed)
      BY <2>1, <3>1 DEF Replies
    <3>3. \A i \in 1..Len(a) : Honest(r, a[i])'
      BY <1>4, <3>2 DEF Honest
    <3> QED
      BY <1>2, <1>4, <1>5, <1>6, <2>2, <2>3, <3>2, <3>3 DEF SideMove
  <2> QED
    BY <2>4, <2>5
<1> QED
  BY <1>8, <1>9

LEMMA SideMoves ==
  ASSUME MaxSlice <= WaitFree, SenderInv, HalfInv, InStep, NEW start, NetTypes, Transferred(start),
         NEW r \in Receivers, ReceiverSide(r)
  PROVE  SideMove(r)
<1>1. Tables /\ SideOK(r, start, sliceNo)
  BY InvParts
<1>2. rcv[r] \in ReceiverRecord /\ Receiver(rcv[r], start, sliceNo)
  BY <1>1 DEF SideOK
<1>3. CASE ReceivePacket(r)
  BY <1>3, ReceiveMoves
<1>4. CASE Discard(r) \/ LoseDown(r) \/ LoseUp(r)
  <2>1. rcv' = rcv
    BY <1>4 DEF Discard, LoseDown, LoseUp
  <2>2. up' = up \/ (up[r] # <<>> /\ up' = [up EXCEPT ![r] = Tail(up[r])])
    BY <1>1, <1>4 DEF Discard, LoseDown, LoseUp, netVars, Deliver, Tables
  <2> QED
    BY <1>1, <2>1, <2>2 DEF SideMove, Gone, Tables
<1>5. ASSUME NEW P, rcv' = [rcv EXCEPT ![r] = P], P.completed = rcv[r].completed, Gone(r) => P.phase = rcv[r].phase,
             \/ up' = up
             \/ \E a \in Seq(AnswerType) :
                  up' = Unicast(up, r, a) /\ ~Gone(r) /\ OnlyDisc(a) /\ P.phase \in {"finished", "dead"}
      PROVE  SideMove(r)
  <2>1. rcv'[r] = P /\ \A x \in Receivers : x # r => rcv'[x] = rcv[x]
    BY <1>1, <1>5 DEF Tables
  <2>2. Gone(r) => Gone(r)'
    BY <1>5, <2>1 DEF Gone
  <2>3. CASE up' = up
    BY <1>5, <2>1, <2>2, <2>3 DEF SideMove
  <2>4. CASE up' # up
    <3>1. PICK a \in Seq(AnswerType) :
            up' = Unicast(up, r, a) /\ ~Gone(r) /\ OnlyDisc(a) /\ P.phase \in {"finished", "dead"}
      BY <1>5, <2>4
    <3>2. up'[r] = Arrive(up[r], a) /\ \A x \in Receivers : x # r => up'[x] = up[x]
      BY <1>1, <3>1 DEF Unicast, Tables
    <3>3. \A i \in 1..Len(a) : Honest(r, a[i])'
      BY <2>1, <3>1 DEF Honest, OnlyDisc, Gone
    <3> QED
      BY <1>5, <2>1, <2>2, <3>1, <3>2, <3>3 DEF SideMove
  <2> QED
    BY <2>3, <2>4
<1>6. CASE Sniff(r)
  <2>1. rcv[r].phase = "start" /\ rcv' = [rcv EXCEPT ![r] = StartPacket(rcv[r], Head(down[r]))] /\ up' = up
    BY <1>1, <1>6 DEF Sniff, Tables, netVars
  <2>2. rcv[r].completed = {} /\ ~Gone(r)
    BY <1>2, <2>1 DEF Receiver, Late, Gone
  <2>3. StartPacket(rcv[r], Head(down[r])).completed = {}
    <3>1. CASE Head(down[r]).type = "REPLY"
      <4>1. Cuts(start, sliceNo) /\ sliceNo \in Nat
        BY SenderTypes, InvParts DEF History
      <4>2. Seedling(rcv[r], Seed(rcv[r]))
        BY <1>2, <2>1, <4>1, Seeded
      <4> QED
        BY <3>1, <4>2 DEF Seedling, StartPacket
    <3>2. CASE Head(down[r]).type # "REPLY"
      BY <1>2, <2>2, <3>2 DEF StartPacket, Note, ReceiverRecord
    <3> QED
      BY <3>1, <3>2
  <2> QED
    BY <1>5, <2>1, <2>2, <2>3
<1>7. CASE Write(r)
  <2>1. rcv' = [rcv EXCEPT ![r] = WriteBlock(rcv[r])] /\ up' = up
    BY <1>1, <1>7 DEF Write, Tables, netVars
  <2>2. WriteBlock(rcv[r]).completed = rcv[r].completed /\ WriteBlock(rcv[r]).phase = rcv[r].phase
    BY <1>2 DEF WriteBlock, ReceiverRecord
  <2> QED
    BY <1>5, <2>1, <2>2
<1>8. CASE DrainExit(r) \/ FinishReceiver(r) \/ TimesOut(r) \/ Kill(r)
  <2>1. PICK ph \in {"exited", "finished", "dead"} :
          /\ rcv' = [rcv EXCEPT ![r].phase = ph]
          /\ \/ up' = up
             \/ \E a \in {<<Disc>>, FailingDisconnect} : up' = Unicast(up, r, a) /\ ph # "exited"
    BY <1>8 DEF DrainExit, FinishReceiver, TimesOut, Kill, netVars
  <2>2. ~Gone(r)
    BY <1>8 DEF Gone, DrainExit, FinishReceiver, TimesOut, Kill, CanFinish
  <2>3. PICK P : P = [rcv[r] EXCEPT !.phase = ph]
    OBVIOUS
  <2>4. P.phase = ph /\ P.completed = rcv[r].completed
    BY <1>2, <2>3 DEF ReceiverRecord
  <2>5. rcv' = [rcv EXCEPT ![r] = P]
    BY <1>1, <2>1, <2>3 DEF Tables
  <2>6. OnlyDisc(<<Disc>>) /\ OnlyDisc(FailingDisconnect)
    BY DEF OnlyDisc, FailingDisconnect, DisconnectRetries, Disc
  <2> QED
    BY <1>5, <2>1, <2>2, <2>4, <2>5, <2>6, DisconnectsTyped
<1> QED
  BY <1>3, <1>4, <1>6, <1>7, <1>8 DEF ReceiverSide

\* What a receiver's step leaves of the order in which slices are completed.
LEMMA OrderKept ==
  ASSUME SenderInv, HalfInv, InStep, NEW r \in Kept, SideMove(r), sliceNo' = sliceNo
  PROVE  InOrder(r)'
<1>1. sliceNo \in Nat
  BY SenderTypes
<1>2. PICK c \in 0..sliceNo : rcv[r].completed = 0..c - 1
  BY DEF InStep, InOrder
<1>3. CASE rcv'[r].completed = rcv[r].completed
  BY <1>2, <1>3 DEF InOrder
<1>4. ASSUME rcv'[r].completed # rcv[r].completed
      PROVE  InOrder(r)'
  <2>1. PICK no \in 0..sliceNo - 1 : rcv'[r].completed = rcv[r].completed \cup {no}
    BY <1>4 DEF SideMove
  <2>2. no \notin rcv[r].completed /\ r \in valid
    BY <1>4, <2>1, Participates DEF SideMove, Gone
  <2>3. c \in 0..sliceNo - 1 /\ c \notin rcv[r].completed
    BY <1>1, <1>2, <2>1, <2>2
  <2>4. no = c
    BY <2>2, <2>3, OneLacks
  <2>5. rcv'[r].completed = 0..(c + 1) - 1 /\ c + 1 \in 0..sliceNo
    BY <1>1, <1>2, <2>1, <2>3, <2>4
  <2> QED
    BY <2>5 DEF InOrder
<1> QED
  BY <1>3, <1>4

\* Answers stay honest while their receiver goes on.
LEMMA StaysHonest ==
  ASSUME NEW r, rcv[r].completed \subseteq rcv'[r].completed, Gone(r) => Gone(r)', NEW m, Honest(r, m)
  PROVE  Honest(r, m)'
BY DEF Honest

\* The answers on their way from one receiver.
AnswersOK(r) == DiscLast(up[r]) /\ \A i \in 1..Len(up[r]) : Honest(r, up[r][i])

LEMMA AnswersKept ==
  ASSUME NEW r \in Kept, SideMove(r), up[r] \in Seq(AnswerType), AnswersOK(r)
  PROVE  AnswersOK(r)' /\ (OnlyDisc(up[r]) /\ Gone(r) => OnlyDisc(up[r])')
<1>1. rcv[r].completed \subseteq rcv'[r].completed /\ (Gone(r) => Gone(r)')
  BY DEF SideMove
<1>2. ASSUME NEW m, Honest(r, m)
      PROVE  Honest(r, m)'
  BY <1>1, <1>2, StaysHonest
<1>4. PICK q \in Seq(AnswerType) : q = up[r]
  OBVIOUS
<1>5. DiscLast(q) /\ \A i \in 1..Len(q) : Honest(r, q[i])'
  BY <1>2, <1>4 DEF AnswersOK
<1>6. CASE up'[r] = q
  BY <1>4, <1>5, <1>6 DEF AnswersOK
<1>7. CASE q # <<>> /\ up'[r] = Tail(q)
  <2>1. Tail(q) \in Seq(AnswerType) /\ Len(Tail(q)) = Len(q) - 1
        /\ \A i \in 1..Len(q) - 1 : Tail(q)[i] = q[i + 1]
    BY <1>7
  <2>2. PICK t : t = Tail(q)
    OBVIOUS
  <2>3. \A i \in 1..Len(t) : i \in Int /\ i + 1 \in 1..Len(q) /\ t[i] = q[i + 1]
    BY <2>1, <2>2
  <2>4. (OnlyDisc(q) => OnlyDisc(t)) /\ \A i \in 1..Len(t) : Honest(r, t[i])'
    BY <1>5, <2>3 DEF OnlyDisc
  <2>5. DiscLast(t)
    <3> SUFFICES ASSUME NEW i \in 1..Len(t), NEW j \in 1..Len(t), i < j, t[i].type = "DISC"
                 PROVE  t[j].type = "DISC"
      BY DEF DiscLast
    <3>1. i + 1 < j + 1
      BY <2>3
    <3> QED
      BY <1>5, <2>3, <3>1 DEF DiscLast
  <2> QED
    BY <1>4, <1>7, <2>2, <2>4, <2>5 DEF AnswersOK
<1>8. ASSUME NEW a \in Seq(AnswerType), up'[r] = Arrive(q, a), ~Gone(r), \A i \in 1..Len(a) : Honest(r, a[i])',
             OnlyDisc(a) \/ \A i \in 1..Len(a) : a[i].type # "DISC"
      PROVE  AnswersOK(r)'
  <2>1. PICK u : u = Arrive(q, a)
    OBVIOUS
  <2>2. u \in Seq(AnswerType) /\ Len(u) <= Len(q) + Len(a)
        /\ \A i \in 1..Len(u) : u[i] = IF i <= Len(q) THEN q[i] ELSE a[i - Len(q)]
    BY <2>1, ArriveIs
  <2>3. \A i \in 1..Len(u) : \/ i \in 1..Len(q) /\ u[i] = q[i]
                             \/ i - Len(q) \in 1..Len(a) /\ u[i] = a[i - Len(q)] /\ i > Len(q)
    BY <2>2
  <2>4. \A i \in 1..Len(u) : Honest(r, u[i])'
    BY <1>5, <1>8, <2>3
  <2>5. \A i \in 1..Len(q) : q[i].type # "DISC"
    BY <1>4, <1>8 DEF AnswersOK, Honest
  <2>6. DiscLast(u)
    <3> SUFFICES ASSUME NEW i \in 1..Len(u), NEW j \in 1..Len(u), i < j, u[i].type = "DISC"
                 PROVE  u[j].type = "DISC"
      BY DEF DiscLast
    <3>1. i - Len(q) \in 1..Len(a) /\ u[i] = a[i - Len(q)] /\ i > Len(q)
      BY <2>3, <2>5
    <3>2. OnlyDisc(a)
      BY <1>8, <3>1
    <3>3. j - Len(q) \in 1..Len(a) /\ u[j] = a[j - Len(q)]
      BY <2>2, <2>3, <3>1
    <3> QED
      BY <3>2, <3>3 DEF OnlyDisc
  <2> QED
    BY <1>8, <2>1, <2>4, <2>6 DEF AnswersOK
<1> QED
  BY <1>4, <1>6, <1>7, <1>8 DEF SideMove, Kept

LEMMA SyncParts ==
  ASSUME SyncInv, NEW r \in Kept
  PROVE  AnswersOK(r)
BY DEF SyncInv, AnswersHonest, DisconnectLast, AnswersOK

LEMMA SideMoveSync ==
  ASSUME SenderInv, HalfInv, NetTypes, SyncInv, NEW r \in Receivers, SideMove(r), UNCHANGED senderVars,
         dropped' = dropped
  PROVE  SyncInv'
<1>1. SideMove(r)
  OBVIOUS
<1>2. /\ Unseen' = Unseen /\ valid' = valid /\ sliceNo' = sliceNo /\ slices' = slices /\ pc' = pc /\ atEnd' = atEnd
      /\ Pending' = Pending /\ Queued' = Queued /\ Kept' = Kept /\ Kept \subseteq Receivers
  BY DEF senderVars, rcVars, fillVars, dbVars, Unseen, Pending, Queued, Kept
<1>3. \A x \in Receivers : x # r => rcv'[x] = rcv[x] /\ up'[x] = up[x]
  BY <1>1 DEF SideMove
<1>4. \A x \in Receivers : up[x] \in Seq(AnswerType)
  BY DEF NetTypes
<1>5. \A x \in Receivers : rcv[x].completed \subseteq rcv'[x].completed /\ (Gone(x) => Gone(x)')
  BY <1>1, <1>3 DEF SideMove, Gone
<1>6. \A x \in Kept : AnswersOK(x)' /\ (OnlyDisc(up[x]) /\ Gone(x) => OnlyDisc(up[x])')
  <2> SUFFICES ASSUME NEW x \in Kept
               PROVE  AnswersOK(x)' /\ (OnlyDisc(up[x]) /\ Gone(x) => OnlyDisc(up[x])')
    OBVIOUS
  <2>1. AnswersOK(x)
    BY SyncParts
  <2>2. CASE x = r
    BY <1>1, <1>4, <2>1, <2>2, AnswersKept
  <2>3. CASE x # r
    BY <1>2, <1>3, <2>1, <2>3 DEF AnswersOK, Honest, Gone
  <2> QED
    BY <2>2, <2>3
<1>7. \A i \in Queued : Unseen[i].cl \in Receivers
  BY QueueType DEF SenderInv, MsgType
<1>8. AnswersHonest'
  <2>1. \A i \in Queued : Honest(Unseen[i].cl, Unseen[i]) /\ (Unseen[i].type # "DISC" => Unseen[i].cl \in valid)
    BY DEF SyncInv, AnswersHonest
  <2>2. \A i \in Queued : Honest(Unseen[i].cl, Unseen[i])'
    BY <1>2, <1>5, <1>7, <2>1 DEF Honest
  <2> QED
    BY <1>2, <1>6, <2>1, <2>2 DEF AnswersHonest, AnswersOK
<1>9. DisconnectLast'
  <2>1. ASSUME NEW i \in Queued, Unseen[i].type = "DISC", Unseen[i].cl \in Kept
        PROVE  OnlyDisc(up[Unseen[i].cl])'
    <3>1. PICK x \in Kept : x = Unseen[i].cl
      BY <2>1
    <3>2. OnlyDisc(up[x]) /\ Gone(x)
      BY <2>1, <3>1 DEF SyncInv, DisconnectLast, AnswersHonest, Honest
    <3>3. OnlyDisc(up[x])'
      BY <1>6, <3>2
    <3> QED
      BY <1>2, <3>1, <3>3 DEF OnlyDisc
  <2>2. \A x \in Kept : DiscLast(up[x])'
    BY <1>6 DEF AnswersOK
  <2> QED
    BY <1>2, <2>1, <2>2 DEF SyncInv, DisconnectLast
<1>10. ReadyHonest'
  <2>1. valid \subseteq Receivers
    BY DEF SenderInv, CoreInv, SenderTypeOK
  <2> QED
    BY <1>2, <1>5, <2>1 DEF SyncInv, ReadyHonest
<1>11. InStep'
  <2>1. valid \subseteq Receivers /\ InStep
    BY DEF SenderInv, CoreInv, SenderTypeOK, SyncInv
  <2>2. \A x \in Kept : InOrder(x)'
    <3>1. r \in Kept => InOrder(r)'
      BY <1>1, <1>2, <2>1, OrderKept
    <3>2. \A x \in Kept : x # r => InOrder(x)'
      BY <1>2, <1>3, <2>1 DEF InStep, InOrder
    <3> QED
      BY <3>1, <3>2
  <2> QED
    BY <1>2, <1>5, <2>1, <2>2 DEF InStep
<1>12. Ended'
  BY <1>2 DEF SyncInv, Ended
<1> QED
  BY <1>8, <1>9, <1>10, <1>11, <1>12 DEF SyncInv

LEMMA SideSync ==
  ASSUME MaxSlice <= WaitFree, SenderInv, HalfInv, NEW start, NetTypes, Transferred(start), SyncInv,
         NEW r \in Receivers, ReceiverSide(r)
  PROVE  SyncInv'
<1>1. SideMove(r) /\ UNCHANGED senderVars /\ dropped' = dropped
  BY SideMoves, SideQuiet DEF SyncInv
<1> QED
  BY <1>1, SideMoveSync

-----------------------------------------------------------------------------
(* In step: what the sender does. *)

\* An answer is looked up.
LEMMA LookupSync ==
  ASSUME SenderInv, HalfInv, NetTypes, SyncInv, NEW r \in Receivers, RcStep(r)
  PROVE  SyncInv'
<1>1. up[r] # <<>> /\ up[r] \in Seq(AnswerType) /\ rcv' = rcv /\ up' = [up EXCEPT ![r] = Tail(up[r])]
      /\ DOMAIN up = Receivers /\ CoreInv /\ dropped' = dropped /\ Kept' = Kept
  BY DEF RcStep, NetTypes, Deliver, SenderInv, Kept
<1>2. SideMove(r) /\ \A x \in Receivers : x # r => up'[x] = up[x]
  BY <1>1 DEF SideMove, Gone
<1>3. CASE UNCHANGED vars
  BY <1>1, <1>2, <1>3, SideMoveSync DEF vars, sendVars, dbVars, senderVars, fillVars, rcVars, diskVars
<1>4. ASSUME r \in valid, RcLookup(Incoming(r, Head(up[r])))
      PROVE  SyncInv'
  <2> r \in Kept
    BY <1>4 DEF NetTypes, Kept
  <2>1. PICK a \in AnswerType : a = Head(up[r]) /\ a = up[r][1] /\ 1 \in 1..Len(up[r])
    BY <1>1, ElementOf
  <2>2. PICK m \in MsgType : m = Incoming(r, a) /\ m.cl = r
    BY AnswerQueued
  <2>3. m.type = a.type /\ (m.type = "OK" => m.no = a.no)
    BY <2>2 DEF AnswerType, Incoming, OkMsg, RetransmitMsg, DisconnectMsg
  <2>4. Unseen' = Append(Unseen, m) /\ Unseen \in Seq(MsgType)
    BY <1>1, <1>4, <2>1, <2>2, LookingUp, QueueType
  <2>5. /\ valid' = valid /\ sliceNo' = sliceNo /\ slices' = slices /\ pc' = pc /\ atEnd' = atEnd
        /\ Pending' = Pending
    BY <1>4 DEF RcLookup, fillVars, dbVars, Pending
  <2>6. AnswersOK(r) /\ Honest(r, a) /\ Honest(r, m)
    BY <2>1, <2>3, SyncParts DEF AnswersOK, Honest
  <2>7. a.type = "DISC" => OnlyDisc(up[r]) /\ Gone(r)
    <3> SUFFICES ASSUME a.type = "DISC", NEW i \in 1..Len(up[r]) PROVE up[r][i].type = "DISC"
      BY <2>6 DEF OnlyDisc, Honest
    <3>1. i = 1 \/ 1 < i
      OBVIOUS
    <3> QED
      BY <2>1, <2>6, <3>1 DEF AnswersOK, DiscLast
  <2>8. \A x \in Kept : AnswersOK(x)' /\ (OnlyDisc(up[x]) /\ Gone(x) => OnlyDisc(up[x])')
    <3> SUFFICES ASSUME NEW x \in Kept
                 PROVE  AnswersOK(x)' /\ (OnlyDisc(up[x]) /\ Gone(x) => OnlyDisc(up[x])')
      OBVIOUS
    <3>1. AnswersOK(x)
      BY SyncParts
    <3>2. CASE x = r
      BY <1>1, <1>2, <3>1, <3>2, AnswersKept
    <3>3. CASE x # r
      BY <1>1, <1>2, <3>1, <3>3 DEF AnswersOK, Honest, Gone, Kept
    <3> QED
      BY <3>2, <3>3
  <2>9. Queued' = 1..Len(Unseen) + 1 /\ Len(Unseen) \in Nat
        /\ \A i \in Queued' : \/ i \in Queued /\ Unseen'[i] = Unseen[i]
                              \/ i = Len(Unseen) + 1 /\ Unseen'[i] = m
    BY <2>4 DEF Queued
  <2>10. AnswersHonest'
    <3>1. ASSUME NEW i \in Queued'
          PROVE  Honest(Unseen'[i].cl, Unseen'[i]) /\ (Unseen'[i].type # "DISC" => Unseen'[i].cl \in valid)
      BY <1>4, <2>2, <2>6, <2>9 DEF SyncInv, AnswersHonest
    <3>2. \A i \in Queued' : Honest(Unseen[i].cl, Unseen[i])'
      BY <1>1, <3>1 DEF Honest, Gone
    <3> QED
      BY <1>1, <2>5, <2>8, <3>1, <3>2 DEF AnswersHonest, AnswersOK
  <2>11. DisconnectLast'
    <3>1. ASSUME NEW i \in Queued', Unseen'[i].type = "DISC", Unseen'[i].cl \in Kept
          PROVE  OnlyDisc(up[Unseen[i].cl])'
      <4>1. CASE Unseen'[i] = m
        BY <2>2, <2>3, <2>7, <2>8, <3>1, <4>1
      <4>2. CASE i \in Queued /\ Unseen'[i] = Unseen[i]
        <5>1. Unseen[i].cl \in Kept /\ OnlyDisc(up[Unseen[i].cl]) /\ Gone(Unseen[i].cl)
          BY <1>1, <3>1, <4>2 DEF SyncInv, DisconnectLast, AnswersHonest, Honest
        <5> QED
          BY <2>8, <4>2, <5>1
      <4> QED
        BY <2>9, <4>1, <4>2
    <3>2. ASSUME NEW i \in Queued', NEW j \in Queued', i < j, Unseen'[i].type = "DISC", Unseen'[j].cl = Unseen'[i].cl
          PROVE  Unseen'[j].type = "DISC"
      <4>1. i \in Queued /\ Unseen'[i] = Unseen[i]
        BY <2>9, <3>2
      <4>2. CASE j \in Queued /\ Unseen'[j] = Unseen[j]
        BY <3>2, <4>1, <4>2 DEF SyncInv, DisconnectLast
      <4>3. CASE Unseen'[j] = m
        <5>1. OnlyDisc(up[r])
          BY <2>2, <3>2, <4>1, <4>3 DEF SyncInv, DisconnectLast
        <5> QED
          BY <2>1, <2>3, <4>3, <5>1 DEF OnlyDisc
      <4> QED
        BY <2>9, <4>2, <4>3
    <3> QED
      BY <1>1, <2>8, <3>1, <3>2 DEF DisconnectLast, AnswersOK
  <2>12. ReadyHonest' /\ InStep' /\ Ended'
    BY <1>1, <2>5 DEF SyncInv, ReadyHonest, InStep, InOrder, Ended, Gone
  <2> QED
    BY <2>10, <2>11, <2>12 DEF SyncInv
<1> QED
  BY <1>3, <1>4 DEF RcStep

\* Who is ready once an answer was handled.
LEMMA HandleReady ==
  ASSUME CoreInv, HandleNextMessage, NEW s \in Slots, NEW r \in slices'[s].ready
  PROVE  \/ r \in slices[s].ready /\ (Head(msgs).type = "DISC" => r # Head(msgs).cl)
         \/ Head(msgs).type = "OK" /\ r = Head(msgs).cl /\ slices[s].no = Head(msgs).no
<1> DEFINE m == Head(msgs)
<1>1. slices[s] \in SliceType
  BY DEF CoreInv, SenderTypeOK
<1>2. HandleOk(m) \/ HandleRetransmit(m) \/ HandleDisconnect(m)
  BY DEF HandleNextMessage
<1> HIDE DEF m
<1>3. CASE HandleOk(m)
  BY <1>1, <1>3 DEF HandleOk, SliceType, FindSlice, m
<1>4. CASE HandleRetransmit(m)
  BY <1>1, <1>4 DEF HandleRetransmit, SliceType, m
<1>5. CASE HandleDisconnect(m)
  BY <1>1, <1>5 DEF HandleDisconnect, SliceType, m
<1> QED
  BY <1>2, <1>3, <1>4, <1>5

LEMMA HandleSync ==
  ASSUME SenderInv, HalfInv, NetTypes, SyncInv, HandleNextMessage, async' = async, rcv' = rcv, up' = up,
         dropped' = dropped
  PROVE  SyncInv'
<1>1. CoreInv /\ pc = "top" /\ msgs # <<>> /\ msgs' = Tail(msgs) /\ rcHeld' = rcHeld /\ pc' = pc
      /\ UNCHANGED fillVars /\ valid \subseteq Receivers /\ Kept' = Kept
  BY DEF SenderInv, HandleNextMessage, CoreInv, SenderTypeOK, Kept
<1>2. PICK m : m = Head(msgs) /\ m = Head(Unseen) /\ Unseen # <<>> /\ Unseen' = Tail(Unseen)
  BY <1>1, Taking
<1>3. Unseen \in Seq(MsgType) /\ Len(Unseen) \in Nat /\ m = Unseen[1] /\ 1 \in Queued /\ m \in MsgType
  BY <1>1, <1>2, QueueType DEF Queued
<1>4. Queued' = 1..Len(Unseen) - 1
      /\ \A i \in Queued' : i \in Int /\ i + 1 \in Queued /\ Unseen'[i] = Unseen[i + 1] /\ 1 < i + 1
  BY <1>2, <1>3 DEF Queued
<1>5. /\ \A c \in valid : c \in valid' \/ (m.type = "DISC" /\ c = m.cl)
      /\ valid' \subseteq valid /\ (m.type = "DISC" => m.cl \notin valid')
  BY <1>2 DEF HandleNextMessage, HandleOk, HandleRetransmit, HandleDisconnect, MarkAnswered, RemoveParticipants
<1>6. Dispatcher
  BY DEF Dispatcher
<1>7. SameSlices
  <2>1. \A s \in Slots : ~Ack(s) /\ \A n \in 0..MaxSlice : ~NewSlice(s, n)
    BY <1>1 DEF Ack, NewSlice, AtAck, AtRexmit, AtReqack, AtFill
  <2>2. msgs' # msgs
    <3>1. msgs \in Seq(MsgType) /\ msgs # <<>>
      BY <1>1, QueueType
    <3>2. Len(Tail(msgs)) = Len(msgs) - 1 /\ Len(msgs) \in Nat
      BY <3>1
    <3>3. Tail(msgs) # msgs
      <4>1. Len(msgs) - 1 # Len(msgs)
        BY <3>2
      <4> QED
        BY <3>2, <4>1
    <3> QED
      BY <1>1, <3>3
  <2>3. ~LocalReader
    BY <2>2 DEF LocalReader, LocalRead, LocalEof, LocalStop, rcVars
  <2> QED
    BY <1>1, <1>6, <2>1, <2>3, SenderKinds DEF SenderMoves
<1>8. Pending' = Pending /\ \A s \in Pending : slices'[s].no = slices[s].no /\ s \in Slots
  BY <1>7 DEF SameSlices, Pending
<1>9. Honest(m.cl, m) /\ (m.type # "DISC" => m.cl \in valid) /\ m.cl \in Receivers
  BY <1>3 DEF SyncInv, AnswersHonest, MsgType
<1>10. AnswersHonest'
  <2>1. ASSUME NEW i \in Queued'
        PROVE  Honest(Unseen'[i].cl, Unseen'[i]) /\ (Unseen'[i].type # "DISC" => Unseen'[i].cl \in valid')
    <3>1. Honest(Unseen[i + 1].cl, Unseen[i + 1]) /\ (Unseen[i + 1].type # "DISC" => Unseen[i + 1].cl \in valid)
      BY <1>4 DEF SyncInv, AnswersHonest
    <3>2. m.type = "DISC" /\ Unseen[i + 1].cl = m.cl => Unseen[i + 1].type = "DISC"
      BY <1>3, <1>4 DEF SyncInv, DisconnectLast
    <3> QED
      BY <1>4, <1>5, <3>1, <3>2
  <2>2. \A i \in Queued' : Honest(Unseen[i].cl, Unseen[i])'
    BY <2>1 DEF Honest, Gone
  <2>3. \A r \in Kept : \A i \in 1..Len(up[r]) : Honest(r, up[r][i])'
    BY DEF SyncInv, AnswersHonest, Honest, Gone
  <2> QED
    BY <1>1, <2>1, <2>2, <2>3 DEF AnswersHonest
<1>11. DisconnectLast'
  <2>1. ASSUME NEW i \in Queued', Unseen'[i].type = "DISC", Unseen'[i].cl \in Kept
        PROVE  OnlyDisc(up'[Unseen'[i].cl])
    BY <1>4, <2>1 DEF SyncInv, DisconnectLast
  <2>2. ASSUME NEW i \in Queued', NEW j \in Queued', i < j, Unseen'[i].type = "DISC", Unseen'[j].cl = Unseen'[i].cl
        PROVE  Unseen'[j].type = "DISC"
    <3>1. i + 1 < j + 1
      BY <1>4, <2>2
    <3> QED
      BY <1>4, <2>2, <3>1 DEF SyncInv, DisconnectLast
  <2> QED
    BY <1>1, <2>1, <2>2 DEF SyncInv, DisconnectLast
<1>12. ReadyHonest'
  <2> SUFFICES ASSUME NEW s \in Pending, NEW r \in slices'[s].ready
               PROVE  r \in valid' /\ slices'[s].no \in rcv[r].completed
    BY <1>8 DEF ReadyHonest
  <2>1. CASE r \in slices[s].ready /\ (m.type = "DISC" => r # m.cl)
    BY <1>5, <1>8, <2>1 DEF SyncInv, ReadyHonest
  <2>2. CASE m.type = "OK" /\ r = m.cl /\ slices[s].no = m.no
    BY <1>5, <1>8, <1>9, <2>2 DEF Honest
  <2> QED
    BY <1>1, <1>2, <1>8, <2>1, <2>2, HandleReady
<1>13. InStep'
  <2>1. InStep /\ sliceNo' = sliceNo
    BY <1>1 DEF SyncInv, fillVars
  <2>2. \A r \in Kept \ valid' : Gone(r)
    BY <1>5, <1>9, <2>1 DEF InStep, Honest
  <2>3. \A r \in valid' : \A no \in 0..sliceNo - 1 : no \in rcv[r].completed \/ \E s \in Pending' : slices'[s].no = no
    BY <1>5, <1>8, <2>1 DEF InStep
  <2>4. \A r \in Kept : InOrder(r)'
    BY <2>1 DEF InStep, InOrder
  <2> QED
    BY <1>1, <2>1, <2>2, <2>3, <2>4 DEF InStep, Gone
<1>14. Ended'
  BY <1>1 DEF Ended
<1> QED
  BY <1>10, <1>11, <1>12, <1>13, <1>14 DEF SyncInv

\* The ready sets of the slices in flight change with the answers only.
LEMMA ReadyStays ==
  ASSUME CoreInv, Dispatcher, ~HandleNextMessage, NEW s \in Pending'
  PROVE  (s \in Pending /\ slices'[s].no = slices[s].no /\ slices'[s].ready = slices[s].ready) \/ slices'[s].ready = {}
<1>1. slices \in [Slots -> SliceType]
  BY DEF CoreInv, SenderTypeOK
<1>2. CASE slices' = slices
  BY <1>2 DEF Pending
<1>3. ASSUME NEW t \in Slots, Ack(t) \/ Rexmit(t)
      PROVE  s \in Pending /\ slices'[s].no = slices[s].no /\ slices'[s].ready = slices[s].ready
  <2>1. slices[t] \in SliceType
    BY <1>1
  <2>2. CASE Ack(t)
    BY <1>1, <2>2 DEF Ack, FreeSlice, Pending
  <2>3. CASE Rexmit(t)
    BY <1>1, <2>1, <2>3 DEF Rexmit, SliceType, Pending
  <2> QED
    BY <1>3, <2>2, <2>3
<1>4. ASSUME NEW t \in Slots, ReqackAnswered(t) \/ Expire(t)
      PROVE  s \in Pending /\ slices'[s].no = slices[s].no /\ slices'[s].ready = slices[s].ready
  <2>1. slices' = slices \/ slices' = [slices EXCEPT ![t] = NewRound(NextRound(slices[t]))]
    BY <1>4 DEF ReqackAnswered, Expire
  <2>2. /\ NewRound(NextRound(slices[t])).no = slices[t].no /\ NewRound(NextRound(slices[t])).state = slices[t].state
        /\ NewRound(NextRound(slices[t])).ready = slices[t].ready
    BY <1>1, NewRoundKeeps
  <2> QED
    BY <1>1, <2>1, <2>2 DEF Pending
<1>5. ASSUME NEW t \in Slots, NEW n \in 0..MaxSlice, NewSlice(t, n)
      PROVE  (s \in Pending /\ slices'[s].no = slices[s].no /\ slices'[s].ready = slices[s].ready) \/ slices'[s].ready = {}
  BY <1>1, <1>5 DEF NewSlice, FreeSlice, Pending
<1>6. ReReply \/ BlockOnData \/ Finish \/ Wait \/ Wake => slices' = slices
  BY DEF ReReply, BlockOnData, Finish, Wait, Wake
<1> QED
  BY <1>2, <1>3, <1>4, <1>5, <1>6 DEF Dispatcher

\* A slice is released only when every participant has delivered it.
LEMMA AckedByAll ==
  ASSUME CoreInv, ReadyHonest, NEW s \in Ackable, NEW r \in valid
  PROVE  slices[s].no \in rcv[r].completed
<1>1. s \in Slots /\ s \in Pending /\ slices[s].nrReady >= nrParticipants
  BY DEF Ackable, Pending
<1>2. slices[s].ready \subseteq valid
  BY <1>1 DEF ReadyHonest
<1>3. /\ slices[s].nrReady = Cardinality(slices[s].ready)
      /\ nrParticipants = Cardinality(valid) /\ valid \in SUBSET Receivers
      /\ slices[s].ready \in SUBSET Receivers
  BY <1>1, <1>2 DEF CoreInv, CountersMatch, SenderTypeOK
<1>4. IsFiniteSet(valid) /\ Cardinality(valid) \in Nat /\ Cardinality(slices[s].ready) \in Nat
  BY <1>3, FiniteSubset
<1>5. Cardinality(slices[s].ready) <= Cardinality(valid)
      /\ (Cardinality(valid) = Cardinality(slices[s].ready) => valid = slices[s].ready)
  BY <1>2, <1>4, FS_Subset
<1>6. valid = slices[s].ready
  BY <1>1, <1>3, <1>4, <1>5
<1> QED
  BY <1>1, <1>6 DEF ReadyHonest

\* The dispatcher's loop is over when everything was acknowledged, or nobody is left.
LEMMA EndsWell ==
  ASSUME MaxInFlight = 1, CoreInv, async = FALSE, Ended, Dispatcher
  PROVE  Ended'
<1>1. pc # "done"
  BY DEF Dispatcher, HandleNextMessage, ReReply, BlockOnData, Finish, Wait, Wake, Ack, Rexmit, ReqackAnswered,
         Expire, NewSlice, AtAck, AtRexmit, AtReqack, AtFill
<1>2. CASE Finish
  <2>1. Pending = {} /\ ~WantsSlice
    BY <1>2 DEF Finish
  <2>2. Cardinality(Pending) = 0
    BY <2>1, FS_EmptySet
  <2>3. atEnd
    BY <2>1, <2>2 DEF WantsSlice
  <2>4. slices' = slices /\ atEnd' = atEnd
    BY <1>2 DEF Finish, fillVars
  <2> QED
    BY <2>1, <2>3, <2>4 DEF Ended, Pending
<1>3. ASSUME NEW s \in Slots, Expire(s), pc' = "done"
      PROVE  valid' = {}
  <2>1. RemoveParticipants(ToDrop(s)) /\ nrParticipants' = 0
    BY <1>3 DEF Expire
  <2>2. nrParticipants' = Cardinality(valid') /\ valid' \subseteq Receivers
    <3>1. CoreInv'
      BY CoreStep DEF SenderMoves
    <3> QED
      BY <3>1 DEF CoreInv, CountersMatch, SenderTypeOK
  <2>3. IsFiniteSet(valid')
    BY <2>2, FiniteSubset
  <2> QED
    BY <2>1, <2>2, <2>3, FS_EmptySet
<1>4. ASSUME pc' = "done"
      PROVE  Finish \/ \E s \in Slots : Expire(s)
  BY <1>1, <1>4 DEF Dispatcher, HandleNextMessage, ReReply, BlockOnData, Wait, Wake, Ack, Rexmit, ReqackAnswered, NewSlice
<1> QED
  BY <1>2, <1>3, <1>4 DEF Ended

LEMMA StageSync ==
  ASSUME MaxInFlight = 1, SenderInv, HalfInv, NetTypes, SyncInv, async = FALSE, Dispatcher, ~HandleNextMessage,
         rcv' = rcv, up' = up, valid' = valid, dropped' = dropped
  PROVE  SyncInv'
<1>1. CoreInv /\ valid \subseteq Receivers /\ SenderMoves /\ sliceNo \in Nat /\ slices \in [Slots -> SliceType]
  BY DEF SenderInv, CoreInv, SenderTypeOK, SenderMoves
<1>2. Unseen' = Unseen /\ Queued' = Queued /\ Kept' = Kept
  BY DEF Kept, Dispatcher, ReReply, BlockOnData, Finish, Wait, Wake, Ack, Rexmit, ReqackAnswered, Expire, NewSlice,
         rcVars, Unseen, Queued
<1>3. AnswersHonest' /\ DisconnectLast'
  <2>1. \A r \in Kept : \A i \in 1..Len(up[r]) : Honest(r, up[r][i])'
    BY DEF SyncInv, AnswersHonest, Honest, Gone
  <2>2. \A i \in Queued : Honest(Unseen[i].cl, Unseen[i])'
    BY <1>2 DEF SyncInv, AnswersHonest, Honest, Gone
  <2> QED
    BY <1>2, <2>1, <2>2 DEF SyncInv, AnswersHonest, DisconnectLast
<1>4. ReadyHonest'
  BY <1>1, ReadyStays DEF SyncInv, ReadyHonest
<1>5. InStep'
  <2>1. InStep
    BY DEF SyncInv
  <2>2. \A r \in Kept' \ valid' : Gone(r)'
    BY <1>2, <2>1 DEF InStep, Gone
  <2>3. CASE SameSlices /\ UNCHANGED fillVars
    <3>1. Pending' = Pending /\ sliceNo' = sliceNo /\ \A s \in Pending : slices'[s].no = slices[s].no
      BY <2>3 DEF SameSlices, Pending, fillVars
    <3> QED
      BY <1>2, <2>1, <2>2, <3>1 DEF InStep, InOrder
  <2>4. ASSUME NEW s \in Slots, Ack(s)
        PROVE  InStep'
    <3>1. s \in Ackable /\ sliceNo' = sliceNo
      BY <2>4 DEF Ack, IsOldest, fillVars
    <3>2. \A t \in Pending : t # s => t \in Pending' /\ slices'[t].no = slices[t].no
      BY <1>1, <2>4 DEF Ack, Pending
    <3>3. \A r \in valid : slices[s].no \in rcv[r].completed
      BY <1>1, <3>1, AckedByAll DEF SyncInv
    <3> QED
      BY <1>2, <2>1, <2>2, <3>1, <3>2, <3>3 DEF InStep, InOrder
  <2>5. ASSUME NEW s \in Slots, NEW n \in 0..MaxSlice, NewSlice(s, n)
        PROVE  InStep'
    <3>1. sliceNo' = sliceNo + 1 /\ slices[s].state = "Free"
      BY <2>5 DEF NewSlice, IsFreeSlot
    <3>2. CASE ~(async /\ n > 0)
      <4>1. s \in Pending' /\ slices'[s].no = sliceNo
        BY <1>1, <2>5, <3>2 DEF NewSlice, Pending, FreeSlice
      <4>2. \A t \in Pending : t \in Pending' /\ slices'[t].no = slices[t].no
        BY <1>1, <2>5, <3>1, <3>2 DEF NewSlice, Pending
      <4>3. \A no \in 0..sliceNo' - 1 : no = sliceNo \/ no \in 0..sliceNo - 1
        BY <1>1, <3>1
      <4>4. \A r \in Kept : InOrder(r)'
        <5>1. 0..sliceNo \subseteq 0..sliceNo'
          BY <1>1, <3>1
        <5> QED
          BY <2>1, <5>1 DEF InStep, InOrder
      <4> QED
        BY <1>2, <2>1, <2>2, <4>1, <4>2, <4>3, <4>4 DEF InStep
    <3> QED
      BY <3>2
  <2>6. ~LocalReader \/ (SameSlices /\ UNCHANGED fillVars)
    BY DEF LocalReader, LocalRead, LocalEof, LocalStop, SameSlices
  <2> QED
    BY <1>1, <2>3, <2>4, <2>5, <2>6, SenderKinds
<1>6. Ended'
  BY <1>1, EndsWell DEF SyncInv
<1> QED
  BY <1>3, <1>4, <1>5, <1>6 DEF SyncInv

\* Participants are dropped with nothing but disconnections on its way.
LEMMA ExpireSync ==
  ASSUME MaxInFlight = 1, SenderInv, HalfInv, SyncInv, async = FALSE, NEW s \in Slots, Expire(s), async' = async,
         rcv' = rcv, up' = up, dropped' = dropped \cup (valid \ valid'), OnlyDisc(Unseen)
  PROVE  SyncInv'
<1>1. CoreInv /\ Dispatcher /\ ~HandleNextMessage /\ valid \subseteq Receivers /\ slices \in [Slots -> SliceType]
  BY DEF SenderInv, CoreInv, SenderTypeOK, Dispatcher, Expire, HandleNextMessage
<1>2. /\ valid' = valid \ ToDrop(s) /\ s \in Pending /\ sliceNo' = sliceNo /\ Unseen' = Unseen /\ Queued' = Queued
      /\ Kept' \subseteq Kept /\ Kept' \ valid' \subseteq Kept \ valid
  BY DEF Expire, RemoveParticipants, IsOldest, fillVars, rcVars, Unseen, Queued, Kept
<1>3. AnswersHonest'
  <2>1. \A r \in Kept : \A i \in 1..Len(up[r]) : Honest(r, up[r][i])'
    BY DEF SyncInv, AnswersHonest, Honest, Gone
  <2>2. \A i \in Queued : Honest(Unseen[i].cl, Unseen[i])' /\ Unseen[i].type = "DISC"
    BY <1>2 DEF SyncInv, AnswersHonest, Honest, Gone, OnlyDisc, Queued
  <2> QED
    BY <1>2, <2>1, <2>2 DEF AnswersHonest
<1>4. DisconnectLast'
  BY <1>2 DEF SyncInv, DisconnectLast
<1>5. Pending' = Pending /\ \A t \in Pending : slices'[t].no = slices[t].no /\ slices'[t].ready = slices[t].ready
  <2>1. slices' = slices \/ slices' = [slices EXCEPT ![s] = NewRound(NextRound(slices[s]))]
    BY DEF Expire
  <2>2. /\ NewRound(NextRound(slices[s])).no = slices[s].no /\ NewRound(NextRound(slices[s])).state = slices[s].state
        /\ NewRound(NextRound(slices[s])).ready = slices[s].ready
    BY <1>1, NewRoundKeeps
  <2> QED
    BY <1>1, <2>1, <2>2 DEF Pending
<1>6. ReadyHonest'
  <2> SUFFICES ASSUME NEW t \in Pending, NEW r \in slices[t].ready
               PROVE  r \in valid' /\ slices[t].no \in rcv[r].completed
    BY <1>5 DEF ReadyHonest
  <2>1. t = s
    BY <1>2 DEF HalfInv
  <2>2. r \in valid /\ slices[t].no \in rcv[r].completed
    BY DEF SyncInv, ReadyHonest
  <2>3. r \notin ToDrop(s)
    BY <2>1 DEF ToDrop
  <2> QED
    BY <1>2, <2>2, <2>3
<1>7. InStep'
  <2>1. InStep
    BY DEF SyncInv
  <2>2. \A r \in Kept' : InOrder(r)'
    BY <1>2, <2>1 DEF InStep, InOrder
  <2>3. \A r \in Kept' \ valid' : Gone(r)'
    BY <1>2, <2>1 DEF InStep, Gone
  <2>4. \A r \in valid' : r \in valid
    BY <1>2
  <2> QED
    BY <1>2, <1>5, <2>1, <2>2, <2>3, <2>4 DEF InStep
<1>8. Ended'
  BY <1>1, EndsWell DEF SyncInv
<1> QED
  BY <1>3, <1>4, <1>6, <1>7, <1>8 DEF SyncInv

LEMMA DispatcherSync ==
  ASSUME MaxInFlight = 1, SenderInv, HalfInv, NetTypes, SyncInv, async = FALSE, DispatcherStep,
         pc = "expired" => OnlyDisc(Unseen) \/ dropped' = {}
  PROVE  SyncInv'
<1>1. /\ Dispatcher /\ rcv' = rcv /\ up' = up /\ async' = async
      /\ dropped' = IF pc = "expired" THEN dropped \cup (valid \ valid') ELSE dropped
  BY DEF DispatcherStep, Dispatcher
<1>2. CASE HandleNextMessage
  BY <1>1, <1>2, HandleSync DEF HandleNextMessage
<1>3. ASSUME NEW s \in Slots, Expire(s)
      PROVE  SyncInv'
  <2>1. pc = "expired" /\ dropped' = dropped \cup (valid \ valid') /\ valid' \subseteq valid /\ ~HandleNextMessage
    BY <1>1, <1>3 DEF Expire, RemoveParticipants, HandleNextMessage
  <2>2. CASE OnlyDisc(Unseen)
    BY <1>1, <1>3, <2>1, <2>2, ExpireSync
  <2>3. CASE dropped' = {}
    <3>1. valid' = valid /\ dropped' = dropped
      BY <2>1, <2>3
    <3> QED
      BY <1>1, <2>1, <3>1, StageSync
  <2> QED
    BY <2>1, <2>2, <2>3
<1>4. CASE ~HandleNextMessage /\ \A s \in Slots : ~Expire(s)
  <2>1. valid' = valid
    BY <1>1, <1>4 DEF Dispatcher, ReReply, BlockOnData, Finish, Wait, Wake, Ack, Rexmit, ReqackAnswered, NewSlice, dbVars
  <2>2. dropped' = dropped
    BY <1>1, <2>1
  <2> QED
    BY <1>1, <1>4, <2>1, <2>2, StageSync
<1> QED
  BY <1>2, <1>3, <1>4

\* The other threads of the sender.
LEMMA ThreadSync ==
  ASSUME CoreInv, SyncInv, LocalReaderStep \/ RcPushStep \/ UNCHANGED transferVars
  PROVE  SyncInv'
<1>1. slices' = slices /\ valid' = valid /\ rcv' = rcv /\ up' = up /\ sliceNo' = sliceNo /\ pc' = pc /\ atEnd' = atEnd
      /\ Pending' = Pending /\ Kept' = Kept
  BY DEF Kept, LocalReaderStep, LocalReader, LocalRead, LocalEof, LocalStop, RcPushStep, RcPush, transferVars, vars, sendVars,
         dbVars, fillVars, netVars, Pending
<1>2. Unseen' = Unseen /\ Queued' = Queued
  <2>1. CASE RcPushStep
    BY <2>1, Pushing DEF RcPushStep, Queued
  <2>2. CASE LocalReaderStep \/ UNCHANGED transferVars
    BY <2>2 DEF LocalReaderStep, LocalReader, LocalRead, LocalEof, LocalStop, transferVars, vars, sendVars, rcVars,
                Unseen, Queued
  <2> QED
    BY <2>1, <2>2
<1> QED
  BY <1>1, <1>2 DEF SyncInv, AnswersHonest, DisconnectLast, ReadyHonest, InStep, InOrder, Ended, Honest, Gone

-----------------------------------------------------------------------------
(* In step: the theorems. *)

\* The default mode: half duplex, answers expected.
HalfDuplex == Setting /\ AsyncModes = {FALSE}

\* The answers of the receivers the sender may still lose are what they seem.
Undisturbed == MaxEarly = 0 \/ dropped = {}
StepInv == TransferInv /\ QuietInv /\ (Undisturbed => SyncInv)

LEMMA InitSync == Init => SyncInv
<1> SUFFICES ASSUME Init PROVE SyncInv
  OBVIOUS
<1>1. /\ sliceNo = 0 /\ Pending = {} /\ pc = "top" /\ valid = Receivers /\ msgs = <<>> /\ rcHeld = <<>> /\ Kept \subseteq Receivers
      /\ up = EmptyChannel(Receivers)
      /\ rcv = [r \in Receivers |-> NewReceiver(IF r \in LateReceivers THEN "start" ELSE "run")]
  BY DEF Init, SendInit, DbInit, Pending, FreeSlice, Kept
<1>2. \A r \in Receivers : up[r] = <<>> /\ rcv[r].completed = {}
  BY <1>1 DEF EmptyChannel, NewReceiver
<1>3. Queued = {}
  BY <1>1 DEF Queued, Unseen
<1>4. AnswersHonest /\ DisconnectLast
  BY <1>1, <1>2, <1>3 DEF AnswersHonest, DisconnectLast, DiscLast
<1>5. \A r \in Receivers : InOrder(r)
  <2>1. 0 \in 0..sliceNo /\ 0..0 - 1 = {}
    BY <1>1
  <2> QED
    BY <1>2, <2>1 DEF InOrder
<1> QED
  BY <1>1, <1>4, <1>5 DEF SyncInv, ReadyHonest, InStep, Ended

\* A channel that loses its oldest datagram or gets more disconnections.
LEMMA DiscLeaves ==
  ASSUME NEW T, NEW q \in Seq(T), q # <<>>, OnlyDisc(q)
  PROVE  OnlyDisc(Tail(q)) /\ Head(q).type = "DISC"
BY DEF OnlyDisc

LEMMA DiscArrives ==
  ASSUME NEW q \in Seq(AnswerType), NEW a \in Seq(AnswerType), OnlyDisc(q), OnlyDisc(a)
  PROVE  OnlyDisc(Arrive(q, a))
<1>1. PICK u : u = Arrive(q, a)
  OBVIOUS
<1>2. u \in Seq(AnswerType) /\ Len(u) <= Len(q) + Len(a)
      /\ \A i \in 1..Len(u) : u[i] = IF i <= Len(q) THEN q[i] ELSE a[i - Len(q)]
  BY <1>1, ArriveIs
<1>3. \A i \in 1..Len(u) : \/ i \in 1..Len(q) /\ u[i] = q[i]
                           \/ i - Len(q) \in 1..Len(a) /\ u[i] = a[i - Len(q)]
  BY <1>2
<1> QED
  BY <1>1, <1>3 DEF OnlyDisc

\* A timeout that never is early expires on quiet channels; while the dispatcher acts on it
\* the receivers can only leave.
LEMMA QuietKept ==
  ASSUME Duplicable = {}, TransferInv, QuietInv, [Next]_transferVars
  PROVE  QuietInv'
<1> SUFFICES ASSUME MaxEarly = 0, pc' = "expired"
             PROVE  /\ \A x \in Receivers : down'[x] = <<>> /\ OnlyDisc(up'[x])
                    /\ OnlyDisc(Unseen')
  BY DEF QuietInv, OnlyDisc
<1>1. CoreInv /\ NetTypes /\ held = {} /\ \A x \in Receivers : up[x] \in Seq(AnswerType)
  BY DEF TransferInv, SenderInv, NetTypes
<1>2. DOMAIN up = Receivers /\ DOMAIN down = Receivers
  BY <1>1 DEF NetTypes
<1>3. pc = "expired" => /\ \A x \in Receivers : down[x] = <<>> /\ OnlyDisc(up[x])
                        /\ OnlyDisc(Unseen)
  BY DEF QuietInv
<1>4. CASE DispatcherStep
  <2>1. Dispatcher /\ up' = up
    BY <1>4 DEF DispatcherStep
  <2>2. Wake /\ msgs = <<>>
    BY <2>1 DEF Dispatcher, HandleNextMessage, ReReply, BlockOnData, Finish, Wait, Wake, Ack, Rexmit, ReqackAnswered,
                Expire, NewSlice, AtAck, AtRexmit, AtReqack, AtFill, Stop
  <2>3. Quiet
    <3>1. Expires(msgs = <<>> => Quiet) /\ faults.early \in 0..0
      BY <1>1, <1>4, <2>2 DEF DispatcherStep, Wake, NetTypes
    <3> QED
      BY <2>2, <3>1 DEF Expires
  <2>4. down' = down /\ Unseen' = <<>>
    BY <2>2, <2>3 DEF Wake, Unseen, rcVars, Quiet
  <2> QED
    BY <2>1, <2>3, <2>4 DEF Quiet, OnlyDisc
<1>5. CASE LocalReaderStep \/ UNCHANGED transferVars
  <2>1. pc' = pc /\ down' = down /\ up' = up /\ Unseen' = Unseen
    BY <1>5 DEF LocalReaderStep, LocalReader, LocalRead, LocalEof, LocalStop, transferVars, vars, sendVars, rcVars,
                dbVars, netVars, Unseen
  <2> QED
    BY <1>3, <2>1
<1>6. CASE RcPushStep
  <2>1. pc' = pc /\ down' = down /\ up' = up /\ Unseen' = Unseen
    BY <1>1, <1>6, Pushing DEF RcPushStep, RcPush, netVars
  <2> QED
    BY <1>3, <2>1
<1>7. ASSUME NEW r \in Receivers, RcStep(r)
      PROVE  /\ \A x \in Receivers : down'[x] = <<>> /\ OnlyDisc(up'[x])
             /\ OnlyDisc(Unseen')
  <2>1. up[r] # <<>> /\ up' = [up EXCEPT ![r] = Tail(up[r])]
    BY <1>7 DEF RcStep, Deliver
  <2>2. RcLookup(Incoming(r, Head(up[r]))) \/ UNCHANGED vars
    BY <1>1, <1>7, RcStepMoves
  <2>3. pc' = pc /\ down' = down
    BY <2>2 DEF RcLookup, vars, sendVars
  <2>4. OnlyDisc(Tail(up[r])) /\ Head(up[r]).type = "DISC"
    BY <1>1, <1>3, <2>1, <2>3, DiscLeaves
  <2>5. \A x \in Receivers : OnlyDisc(up'[x])
    BY <1>2, <1>3, <2>1, <2>3, <2>4
  <2>6. OnlyDisc(Unseen')
    <3>1. CASE UNCHANGED vars
      <4>1. Unseen' = Unseen
        BY <3>1 DEF vars, sendVars, rcVars, Unseen
      <4> QED
        BY <1>3, <2>3, <4>1
    <3>2. CASE RcLookup(Incoming(r, Head(up[r])))
      <4>1. Incoming(r, Head(up[r])).type = "DISC"
        BY <2>4 DEF Incoming, DisconnectMsg
      <4>2. msgs' = msgs /\ rcHeld = <<>> /\ rcHeld' = <<Incoming(r, Head(up[r]))>>
        BY <3>2 DEF RcLookup
      <4> DEFINE m == Incoming(r, Head(up[r]))
      <4> HIDE DEF m
      <4>3. msgs \in Seq(MsgType) /\ Unseen = msgs
        BY <1>1, <4>2, QueueType DEF Unseen
      <4>4. Unseen' = msgs \o <<m>> /\ m.type = "DISC"
        BY <4>1, <4>2 DEF Unseen, m
      <4>5. OnlyDisc(msgs)
        BY <1>3, <2>3, <4>3
      <4>6. OnlyDisc(msgs \o <<m>>)
        BY <4>3, <4>4, <4>5 DEF OnlyDisc
      <4> QED
        BY <4>4, <4>6
    <3> QED
      BY <2>2, <3>1, <3>2
  <2> QED
    BY <1>3, <2>3, <2>5, <2>6
<1>8. ASSUME NEW r \in Receivers, ReceiverSide(r)
      PROVE  /\ \A x \in Receivers : down'[x] = <<>> /\ OnlyDisc(up'[x])
             /\ OnlyDisc(Unseen')
  <2>1. pc' = pc /\ Unseen' = Unseen
    BY <1>8, SideQuiet DEF senderVars, rcVars, Unseen
  <2>2. down[r] = <<>> /\ ~ReceivePacket(r) /\ ~Sniff(r) /\ ~Discard(r) /\ ~LoseDown(r)
    BY <1>3, <2>1 DEF ReceivePacket, Sniff, Discard, LoseDown
  <2>3. LoseUp(r) \/ Write(r) \/ DrainExit(r) \/ FinishReceiver(r) \/ TimesOut(r) \/ Kill(r)
    BY <1>8, <2>2 DEF ReceiverSide
  <2>4. down' = down
    BY <2>3 DEF LoseUp, Write, DrainExit, FinishReceiver, TimesOut, Kill, vars, sendVars
  <2>5. \/ up' = up
        \/ up[r] # <<>> /\ up' = [up EXCEPT ![r] = Tail(up[r])]
        \/ \E a \in {<<Disc>>, FailingDisconnect} : up' = [up EXCEPT ![r] = Arrive(up[r], a)]
    BY <2>3 DEF LoseUp, Write, DrainExit, FinishReceiver, TimesOut, Kill, netVars, Deliver, Unicast
  <2>6. OnlyDisc(<<Disc>>) /\ OnlyDisc(FailingDisconnect)
    BY DEF OnlyDisc, FailingDisconnect, DisconnectRetries, Disc
  <2>7. OnlyDisc(up[r]) /\ up[r] \in Seq(AnswerType)
    BY <1>1, <1>3, <2>1
  <2>8. /\ up[r] # <<>> => OnlyDisc(Tail(up[r]))
        /\ \A a \in {<<Disc>>, FailingDisconnect} : OnlyDisc(Arrive(up[r], a))
    BY <2>6, <2>7, DiscLeaves, DiscArrives, DisconnectsTyped
  <2>9. \A x \in Receivers : OnlyDisc(up'[x])
    BY <1>2, <1>3, <2>1, <2>5, <2>8
  <2> QED
    BY <1>3, <2>1, <2>4, <2>9
<1> QED
  BY <1>1, <1>4, <1>5, <1>6, <1>7, <1>8, StepKinds

LEMMA SyncStep ==
  ASSUME HalfDuplex, TransferInv, QuietInv, SyncInv, Undisturbed', [Next]_transferVars
  PROVE  SyncInv'
<1>1. PICK start \in [Nat -> Nat] : Transferred(start)
  BY DEF TransferInv
<1>2. /\ SenderInv /\ HalfInv /\ NetTypes /\ CoreInv /\ async = FALSE /\ held = {} /\ Setting
  BY DEF TransferInv, SenderInv, CoreInv, SenderTypeOK, NetTypes, HalfDuplex
<1>3. CASE DispatcherStep
  <2>1. pc = "expired" => OnlyDisc(Unseen) \/ dropped' = {}
    BY DEF QuietInv, Undisturbed
  <2> QED
    BY <1>2, <1>3, <2>1, DispatcherSync DEF Setting
<1>4. CASE LocalReaderStep \/ RcPushStep \/ UNCHANGED transferVars
  BY <1>2, <1>4, ThreadSync
<1>5. ASSUME NEW r \in Receivers, RcStep(r)
      PROVE  SyncInv'
  BY <1>2, <1>5, LookupSync
<1>6. ASSUME NEW r \in Receivers, ReceiverSide(r)
      PROVE  SyncInv'
  BY <1>1, <1>2, <1>6, SideSync DEF Setting
<1> QED
  BY <1>2, <1>3, <1>4, <1>5, <1>6, StepKinds DEF Setting

\* Who was dropped stays so.
LEMMA DropsGrow ==
  ASSUME TransferInv, Duplicable = {}, [Next]_transferVars
  PROVE  dropped \subseteq dropped'
<1>1. held = {}
  BY DEF TransferInv, NetTypes
<1>2. CASE DispatcherStep
  BY <1>2 DEF DispatcherStep
<1>3. CASE LocalReaderStep \/ RcPushStep \/ UNCHANGED transferVars \/ \E r \in Receivers : RcStep(r)
  BY <1>3 DEF LocalReaderStep, RcPushStep, RcStep, transferVars
<1>4. ASSUME NEW r \in Receivers, ReceiverSide(r)
      PROVE  dropped' = dropped
  BY <1>4, SideQuiet
<1> QED
  BY <1>1, <1>2, <1>3, <1>4, StepKinds

LEMMA StaysInStep == ASSUME HalfDuplex PROVE Spec => []StepInv
<1>1. Init => StepInv
  <2>1. Init => pc = "top"
    BY DEF Init, SendInit
  <2> QED
    BY <2>1, InitTransfer, InitSync DEF StepInv, QuietInv
<1>2. StepInv /\ [Next]_transferVars => StepInv'
  <2> SUFFICES ASSUME StepInv, [Next]_transferVars PROVE StepInv'
    OBVIOUS
  <2>1. TransferInv'
    BY TransferStep DEF StepInv, TransferInv, HalfDuplex
  <2>2. Undisturbed' => Undisturbed
    BY DropsGrow DEF StepInv, HalfDuplex, Setting, Undisturbed
  <2>3. QuietInv'
    BY QuietKept DEF StepInv, HalfDuplex, Setting
  <2>4. Undisturbed' => SyncInv'
    BY <2>2, SyncStep DEF StepInv
  <2> QED
    BY <2>1, <2>3, <2>4 DEF StepInv
<1> QED
  BY <1>1, <1>2, PTL DEF Spec

\* A receiver in step has delivered the slices up to some slice c, and what it handed
\* to its writer is the source up to there.
LEMMA InStepPrefix ==
  ASSUME SenderInv, NEW start, Transferred(start), InStep, NEW r \in Kept
  PROVE  \E c \in 0..sliceNo : rcv[r].completed = 0..c - 1 /\ Prefix(rcv[r], start, c)
BY DEF InStep, InOrder, Transferred, Receiver, Kept

LEMMA InStepDelivers ==
  ASSUME SenderInv, NEW start, Transferred(start), InStep
  PROVE  CompletedInOrder /\ WriterReleased /\ OutputIsPrefix
<1>1. sliceNo \in Nat /\ Cuts(start, sliceNo)
  BY SenderTypes DEF Transferred, History
<1>2. ASSUME NEW r \in Kept
      PROVE  /\ \A no \in rcv[r].completed : 0..no \subseteq rcv[r].completed
             /\ rcv[r].phase = "exited" => rcv[r].dataEnd
             /\ \A i \in 1..Written(rcv[r]) : rcv[r].out[i] = i
  <2>1. PICK c \in 0..sliceNo : rcv[r].completed = 0..c - 1 /\ Prefix(rcv[r], start, c)
    BY InStepPrefix
  <2>2. \A no \in rcv[r].completed : 0..no \subseteq rcv[r].completed
    BY <2>1
  <2>3. ASSUME rcv[r].phase = "exited"
        PROVE  rcv[r].dataEnd
    <3>1. PICK e \in rcv[r].completed : Size(start, e) = 0
      BY <2>3 DEF Transferred, Receiver, Ends, Kept
    <3>2. e \in 0..sliceNo - 1 /\ e \in 0..c - 1
      BY <1>1, <2>1, <3>1
    <3>3. e = sliceNo - 1
      BY <1>1, <3>1, <3>2 DEF Cuts
    <3>4. c > 0 /\ c - 1 = e
      BY <1>1, <3>2, <3>3
    <3> QED
      BY <2>1, <3>1, <3>4 DEF Prefix
  <2> QED
    BY <2>1, <2>2, <2>3 DEF Prefix
<1>3. ASSUME NEW r \in Receivers, rcv[r].phase = "finished"
      PROVE  \A i \in 1..Written(rcv[r]) : rcv[r].out[i] = i
  <2>1. Whole(rcv[r])
    BY <1>3, FinishedWhole DEF Transferred
  <2> QED
    BY <2>1 DEF Whole
<1>4. OutputIsPrefix
  BY <1>2, <1>3 DEF OutputIsPrefix, Kept
<1> QED
  BY <1>2, <1>4 DEF CompletedInOrder, WriterReleased, Kept

LEMMA StepDelivers ==
  ASSUME StepInv, Undisturbed
  PROVE  CompletedInOrder /\ WriterReleased /\ OutputIsPrefix
<1>1. PICK start \in [Nat -> Nat] : Transferred(start)
  BY DEF StepInv, TransferInv
<1> QED
  BY <1>1, InStepDelivers DEF StepInv, TransferInv, SyncInv

\* A receiver the sender has not dropped delivers the slices in the order of their numbers
\* and gets to its writer's end once it stops listening, whatever was lost and whoever was
\* killed or gave up: as long as nobody was dropped whenever timeouts expire, and for good
\* when they outlast what is on its way.
THEOREM DeliversInOrder ==
  ASSUME HalfDuplex
  PROVE  Spec => [](Undisturbed => CompletedInOrder /\ WriterReleased)
<1>1. StepInv => (Undisturbed => CompletedInOrder /\ WriterReleased)
  BY StepDelivers
<1> QED
  BY <1>1, StaysInStep, PTL

\* With timeouts that outlast what is on its way the order of the slices is an invariant, ...
THEOREM OrderWhenPatient ==
  ASSUME HalfDuplex, MaxEarly = 0 PROVE Spec => []CompletedInOrder
<1>1. StepInv => CompletedInOrder
  BY StepDelivers DEF Undisturbed
<1> QED
  BY <1>1, StaysInStep, PTL

\* ... and so is that the writer of a receiver that stopped listening has its end.
THEOREM WriterWhenPatient ==
  ASSUME HalfDuplex, MaxEarly = 0 PROVE Spec => []WriterReleased
<1>1. StepInv => WriterReleased
  BY StepDelivers DEF Undisturbed
<1> QED
  BY <1>1, StaysInStep, PTL

\* A receiver the sender has not dropped has written the source, block by block, each into
\* its place, and so has one that reports success, whatever was lost: as long as nobody was
\* dropped whenever timeouts expire, and for good when they outlast what is on its way.
THEOREM WritesSource ==
  ASSUME HalfDuplex PROVE Spec => [](Undisturbed => OutputIsPrefix)
<1>1. StepInv => (Undisturbed => OutputIsPrefix)
  BY StepDelivers
<1> QED
  BY <1>1, StaysInStep, PTL

LEMMA DoneDelivered ==
  ASSUME TransferInv, SyncInv, pc = "done", NEW r \in valid
  PROVE  rcv[r].completed = 0..sliceNo - 1 /\ atEnd
<1>1. Pending = {} /\ atEnd /\ r \in Receivers /\ sliceNo \in Nat
  BY SenderTypes DEF SyncInv, Ended, TransferInv, SenderInv, CoreInv, SenderTypeOK
<1>2. 0..sliceNo - 1 \subseteq rcv[r].completed
  BY <1>1 DEF SyncInv, InStep
<1>3. rcv[r].completed \subseteq 0..sliceNo - 1
  BY <1>1 DEF TransferInv, Transferred, Receiver, SlotTable
<1> QED
  BY <1>1, <1>2, <1>3

\* When the sender ends and has dropped nobody, every remaining participant has delivered
\* every slice, the end marker included.
THEOREM SuccessDelivers ==
  ASSUME HalfDuplex PROVE Spec => []SuccessMeansDelivered
<1>1. StepInv => SuccessMeansDelivered
  BY DoneDelivered DEF StepInv, SuccessMeansDelivered, Undisturbed
<1> QED
  BY <1>1, StaysInStep, PTL

-----------------------------------------------------------------------------
(* The transfer implements the broadcast. *)

\* What the mapping keeps of the receivers.
Status(R) == IF R.phase = "finished" THEN "done" ELSE IF R.phase = "dead" THEN "failed" ELSE "active"
Amounts  == [r \in Receivers |-> rcv[r].produced]
Outputs  == [r \in Receivers |-> rcv[r].out]
Statuses == [r \in Receivers |-> Status(rcv[r])]

LEMMA BroadcastStarts == Init => B!BroadcastInit
<1> SUFFICES ASSUME Init PROVE B!BroadcastInit
  OBVIOUS
<1>1. /\ rcv = [r \in Receivers |-> NewReceiver(IF r \in LateReceivers THEN "start" ELSE "run")]
      /\ valid = Receivers /\ pc = "top"
  BY DEF Init, SendInit, DbInit
<1>2. \A r \in Receivers : /\ rcv[r].produced = 0 /\ rcv[r].out = <<>> /\ rcv[r].phase \in {"start", "run"}
  BY <1>1 DEF NewReceiver
<1> QED
  BY <1>1, <1>2 DEF B!BroadcastInit

\* What one receiver may do to what the mapping keeps of it.
Moves(R, P) ==
  \/ P.produced = R.produced /\ P.out = R.out /\ Status(P) = Status(R)
  \/ /\ Status(R) = "active" /\ Status(P) = "active"
     /\ P.out = R.out /\ P.produced \in R.produced + 1..SourceBlocks
  \/ /\ Status(R) = "active" /\ Status(P) = "active" /\ P.produced = R.produced
     /\ Len(R.out) < R.produced /\ P.out = Append(R.out, Len(R.out) + 1)
  \/ /\ Status(R) = "active" /\ P.produced = R.produced /\ P.out = R.out
     /\ Status(P) = "failed" \/ (Status(P) = "done" /\ Len(R.out) = SourceBlocks)

LEMMA MovesMap ==
  ASSUME NEW r \in Receivers, NEW P, rcv \in [Receivers -> ReceiverRecord], rcv' = [rcv EXCEPT ![r] = P],
         valid' = valid, pc' = pc, Moves(rcv[r], P)
  PROVE  [B!BroadcastNext]_(B!broadcastVars)
<1> DEFINE R == rcv[r]
<1>1. /\ Amounts' = [Amounts EXCEPT ![r] = P.produced] /\ Outputs' = [Outputs EXCEPT ![r] = P.out]
      /\ Statuses' = [Statuses EXCEPT ![r] = Status(P)]
      /\ Amounts[r] = R.produced /\ Outputs[r] = R.out /\ Statuses[r] = Status(R)
  BY DEF Amounts, Outputs, Statuses
<1>2. /\ P.produced = R.produced => Amounts' = Amounts
      /\ P.out = R.out => Outputs' = Outputs
      /\ Status(P) = Status(R) => Statuses' = Statuses
  BY <1>1 DEF Amounts, Outputs, Statuses
<1>3. CASE P.produced = R.produced /\ P.out = R.out /\ Status(P) = Status(R)
  BY <1>2, <1>3 DEF B!broadcastVars, Amounts, Outputs, Statuses, Status
<1>4. CASE /\ Status(R) = "active" /\ Status(P) = "active"
           /\ P.out = R.out /\ P.produced \in R.produced + 1..SourceBlocks
  <2>1. B!Receive(r)
    BY <1>1, <1>2, <1>4 DEF B!Receive, Amounts, Outputs, Statuses, Status
  <2> QED
    BY <2>1 DEF B!BroadcastNext
<1>5. CASE /\ Status(R) = "active" /\ Status(P) = "active" /\ P.produced = R.produced
           /\ Len(R.out) < R.produced /\ P.out = Append(R.out, Len(R.out) + 1)
  <2>1. B!Write(r)
    BY <1>1, <1>2, <1>5 DEF B!Write, Amounts, Outputs, Statuses, Status
  <2> QED
    BY <2>1 DEF B!BroadcastNext
<1>6. CASE /\ Status(R) = "active" /\ P.produced = R.produced /\ P.out = R.out /\ Status(P) = "failed"
  <2>1. B!Fail(r)
    BY <1>1, <1>2, <1>6 DEF B!Fail, Amounts, Outputs, Statuses, Status
  <2> QED
    BY <2>1 DEF B!BroadcastNext
<1>7. CASE /\ Status(R) = "active" /\ P.produced = R.produced /\ P.out = R.out
           /\ Status(P) = "done" /\ Len(R.out) = SourceBlocks
  <2>1. B!Finish(r)
    BY <1>1, <1>2, <1>7 DEF B!Finish, Amounts, Outputs, Statuses, Status
  <2> QED
    BY <2>1 DEF B!BroadcastNext
<1> QED
  BY <1>3, <1>4, <1>5, <1>6, <1>7 DEF Moves

\* A receiver that delivered every slice cut got the whole source, once the end was cut.
LEMMA AllReceived ==
  ASSUME SenderInv, NEW start, History(start), NEW R, Receiver(R, start, sliceNo),
         R.completed = 0..sliceNo - 1, atEnd
  PROVE  R.produced = SourceBlocks
<1>1. sliceNo \in Nat /\ sliceNo \in 0..sliceNo /\ start[sliceNo] = takenPos /\ takenPos = SourceBlocks
  BY SenderTypes DEF History, SenderInv, StreamInv
<1>2. Prefix(R, start, sliceNo)
  BY <1>1 DEF Receiver
<1> QED
  BY <1>1, <1>2 DEF Prefix

\* So did one whose writer was told of the end.
LEMMA EndedReceived ==
  ASSUME SenderInv, NEW start, History(start), NEW R, Receiver(R, start, sliceNo), R.dataEnd
  PROVE  R.produced = SourceBlocks
<1>1. sliceNo \in Nat /\ Cuts(start, sliceNo)
  BY SenderTypes DEF History
<1>2. R.completed = 0..sliceNo - 1 /\ sliceNo - 1 \in 0..sliceNo - 1 /\ Size(start, sliceNo - 1) = 0
  BY <1>1, EndHasAll
<1>3. atEnd
  BY <1>2 DEF History
<1> QED
  BY <1>2, <1>3, AllReceived

\* A packet of the data phase.
LEMMA PacketMoves ==
  ASSUME MaxSlice <= WaitFree, SenderInv, NEW start, NetTypes, Transferred(start), NEW r \in Receivers,
         ReceivePacket(r)
  PROVE  \E P : rcv' = [rcv EXCEPT ![r] = P] /\ Moves(rcv[r], P)
<1> DEFINE S == ProcessPacket(rcv[r], Head(down[r]))
           R == rcv[r]
           P == S.rcv
<1>1. R.phase \in {"run", "drain"} /\ down[r] # <<>> /\ ~Stalls(R, Head(down[r])) /\ rcv' = [rcv EXCEPT ![r] = P]
  BY DEF ReceivePacket
<1> DEFINE m == Head(down[r])
<1>2. sliceNo \in Nat
  BY SenderTypes
<1>3. /\ Receiver(S.rcv, start, sliceNo)
      /\ m.type = "REPLY" => \A no : Reacted(rcv[r], S.rcv, no)
      /\ m.type # "REPLY" => Reacted(rcv[r], S.rcv, m.no)
  BY <1>1, <1>2, Received
<1> HIDE DEF S, m
<1>4. Receiver(P, start, sliceNo) /\ \E no : Reacted(R, P, no)
  BY <1>3
<1>5. R.produced \in Nat /\ P.produced \in 0..SourceBlocks /\ SourceBlocks \in Nat
  <2>1. R \in ReceiverRecord /\ History(start)
    BY DEF NetTypes, Transferred
  <2>2. ReceiverType(P)
    BY <1>4, <2>1, ReceiverTyped
  <2> QED
    BY <2>1, <2>2, Records, SizesAssumption DEF ReceiverType
<1>6. PICK no : Reacted(R, P, no)
  BY <1>4
<1>7. P.out = R.out /\ R.produced <= P.produced /\ Status(R) = "active"
  BY <1>1, <1>6 DEF Reacted, Status
<1>8. CASE P.phase = "dead" /\ P.produced = R.produced
  BY <1>1, <1>7, <1>8 DEF Moves, Status
<1>9. CASE P.phase = R.phase \/ (R.phase = "run" /\ P.phase = "drain")
  <2>1. Status(P) = "active"
    BY <1>1, <1>9 DEF Status
  <2>2. P.produced = R.produced \/ P.produced \in R.produced + 1..SourceBlocks
    BY <1>5, <1>7
  <2> QED
    BY <1>1, <1>7, <2>1, <2>2 DEF Moves
<1> QED
  BY <1>6, <1>8, <1>9 DEF Reacted

LEMMA SniffMoves ==
  ASSUME SenderInv, NEW start, NetTypes, Transferred(start), NEW r \in Receivers, Sniff(r)
  PROVE  \E P : rcv' = [rcv EXCEPT ![r] = P] /\ Moves(rcv[r], P)
<1> DEFINE m == Head(down[r])
           P == StartPacket(rcv[r], m)
           R == rcv[r]
<1>1. Tables /\ sliceNo \in Nat /\ History(start) /\ SideOK(r, start, sliceNo)
  BY InvParts, SenderTypes
<1>2. R.phase = "start" /\ down[r] # <<>> /\ rcv' = [rcv EXCEPT ![r] = P]
  BY <1>1 DEF Sniff, Tables
<1>3. Receiver(R, start, sliceNo) /\ m \in PacketType /\ Truthful(m, start, sliceNo) /\ Cuts(start, sliceNo)
  BY <1>1, <1>2, HeadOfChannel DEF SideOK, History
<1>4. R.produced = 0 /\ R.out = <<>>
  BY <1>2, <1>3 DEF Receiver, Late
<1> HIDE DEF m
<1>5. CASE m.type = "REPLY"
  <2>1. Seedling(R, Seed(R)) /\ P = Seed(R)
    BY <1>1, <1>2, <1>3, <1>5, Seeded DEF StartPacket
  <2> QED
    BY <1>2, <1>4, <2>1 DEF Seedling, Moves, Status
<1>6. CASE m.type # "REPLY"
  <2>1. P = Note(R, m)
    BY <1>6 DEF StartPacket
  <2> HIDE DEF R, P
  <2>2. PICK Q : /\ Q = Note(R, m) /\ Receiver(Q, start, sliceNo) /\ Q.phase = "start"
              /\ Q.produced = R.produced /\ Q.out = R.out
    BY <1>1, <1>2, <1>3, <1>6, Noted
  <2> QED
    BY <1>2, <2>1, <2>2 DEF Moves, Status, R
<1> QED
  BY <1>5, <1>6

LEMMA WriteMoves ==
  ASSUME SenderInv, InStep, NEW start, NetTypes, Transferred(start), NEW r \in Kept, Write(r)
  PROVE  \E P : rcv' = [rcv EXCEPT ![r] = P] /\ Moves(rcv[r], P)
<1> DEFINE R == rcv[r]
           P == WriteBlock(R)
<1>1. Tables /\ sliceNo \in Nat /\ Receiver(R, start, sliceNo) /\ R \in ReceiverRecord /\ r \in Receivers
  BY InvParts, SenderTypes DEF SideOK, Kept
<1>2. CanWrite(R) /\ rcv' = [rcv EXCEPT ![r] = P]
  BY <1>1 DEF Write, Tables
<1> HIDE DEF R, P
<1>3. Receiver(WriteBlock(R), start, sliceNo) /\ WriteBlock(R).produced = R.produced /\ WriteBlock(R).phase = R.phase
      /\ WriteBlock(R).out = Append(R.out, R.ring[Written(R) % RecvRing])
  BY <1>1, <1>2, Wrote
<1> USE DEF R, P
<1>4. R.produced \in Nat /\ Written(R) \in Nat /\ Written(R) < R.produced /\ Status(R) = "active"
  <2>1. R.produced \in Nat /\ Written(R) \in Nat
    BY <1>1, Records
  <2> QED
    BY <1>2, <2>1 DEF CanWrite, Unwritten, Status
<1>5. R.ring[Written(R) % RecvRing] = Written(R) + 1
  <2>1. PICK c \in 0..sliceNo : Prefix(R, start, c)
    BY InStepPrefix
  <2>2. Written(R) \in Written(R)..R.produced - 1
    BY <1>4
  <2> QED
    BY <2>1, <2>2 DEF Prefix
<1>6. P.out = Append(R.out, Len(R.out) + 1) /\ Len(R.out) < R.produced /\ Status(P) = Status(R)
  BY <1>3, <1>4, <1>5 DEF Written, Status
<1> QED
  BY <1>2, <1>3, <1>4, <1>6 DEF Moves

\* The ends of a receiver.
LEMMA EndMoves ==
  ASSUME SenderInv, NEW start, NetTypes, Transferred(start), NEW r \in Receivers,
         DrainExit(r) \/ FinishReceiver(r) \/ TimesOut(r) \/ Kill(r)
  PROVE  \E P : rcv' = [rcv EXCEPT ![r] = P] /\ Moves(rcv[r], P)
<1> DEFINE R == rcv[r]
<1>1. Tables /\ History(start) /\ Receiver(R, start, sliceNo) /\ R \in ReceiverRecord
  BY InvParts DEF SideOK
<1>2. PICK ph \in {"exited", "finished", "dead"} :
        /\ rcv' = [rcv EXCEPT ![r].phase = ph] /\ R.phase \in {"start", "run", "drain", "exited"}
        /\ ph = "finished" => CanFinish(R)
  BY DEF DrainExit, FinishReceiver, TimesOut, Kill, CanFinish
<1>3. PICK P : P = [R EXCEPT !.phase = ph]
  OBVIOUS
<1>4. rcv' = [rcv EXCEPT ![r] = P] /\ P.phase = ph /\ P.produced = R.produced /\ P.out = R.out
  BY <1>1, <1>2, <1>3 DEF Tables, ReceiverRecord
<1>5. Status(R) = "active"
  BY <1>2 DEF Status
<1>6. ASSUME ph = "finished"
      PROVE  Len(R.out) = SourceBlocks
  <2>1. R.dataEnd /\ Unwritten(R) = 0
    BY <1>2, <1>6 DEF CanFinish
  <2>2. R.produced = SourceBlocks
    BY <1>1, <2>1, EndedReceived
  <2>3. R.produced \in Nat /\ Written(R) \in Nat
    BY <1>1, Records
  <2> QED
    BY <2>1, <2>2, <2>3 DEF Unwritten, Written
<1>7. Status(P) = "active" \/ Status(P) = "failed" \/ (Status(P) = "done" /\ ph = "finished")
  BY <1>2, <1>4 DEF Status
<1> QED
  BY <1>4, <1>5, <1>6, <1>7 DEF Moves

LEMMA SideMaps ==
  ASSUME MaxSlice <= WaitFree, SenderInv, InStep, NEW start, NetTypes, Transferred(start), dropped = {},
         NEW r \in Receivers, ReceiverSide(r)
  PROVE  [B!BroadcastNext]_(B!broadcastVars)
<1>1. UNCHANGED senderVars /\ rcv \in [Receivers -> ReceiverRecord]
  BY SideQuiet DEF NetTypes
<1>2. valid' = valid /\ pc' = pc
  BY <1>1 DEF senderVars, dbVars
<1>3. CASE Discard(r) \/ LoseDown(r) \/ LoseUp(r)
  <2>1. rcv' = rcv
    BY <1>3 DEF Discard, LoseDown, LoseUp
  <2> QED
    BY <1>2, <2>1 DEF B!broadcastVars
<1>4. CASE ~(Discard(r) \/ LoseDown(r) \/ LoseUp(r))
  <2>1. \E P : rcv' = [rcv EXCEPT ![r] = P] /\ Moves(rcv[r], P)
    BY <1>4, PacketMoves, SniffMoves, WriteMoves, EndMoves DEF ReceiverSide, Kept
  <2> QED
    BY <1>1, <1>2, <2>1, MovesMap
<1> QED
  BY <1>3, <1>4

\* The participant whose disconnection the dispatcher takes has failed, or has everything.
LEMMA LeaveMaps ==
  ASSUME TransferInv, SyncInv, HandleNextMessage, rcv' = rcv
  PROVE  [B!BroadcastNext]_(B!broadcastVars)
<1> DEFINE m == Head(msgs)
<1>1. pc' = pc /\ pc = "top" /\ msgs # <<>> /\ msgs' = Tail(msgs) /\ rcHeld' = rcHeld
      /\ (HandleOk(m) \/ HandleRetransmit(m) \/ HandleDisconnect(m))
  BY DEF HandleNextMessage
<1>2. CoreInv /\ SenderInv /\ NetTypes /\ valid \in SUBSET Receivers
  BY DEF TransferInv, SenderInv, CoreInv, SenderTypeOK
<1>3. Unseen # <<>> /\ m = Head(Unseen) /\ Unseen \in Seq(MsgType)
  BY <1>1, <1>2, Taking, QueueType
<1>4. m = Unseen[1] /\ 1 \in Queued /\ m \in MsgType
  BY <1>3 DEF Queued
<1>5. Honest(m.cl, m) /\ m.cl \in Receivers
  BY <1>4 DEF SyncInv, AnswersHonest, MsgType
<1> HIDE DEF m
<1>6. CASE valid' = valid
  BY <1>1, <1>6 DEF B!broadcastVars
<1>7. ASSUME valid' # valid
      PROVE  B!Leave
  <2>1. m.type = "DISC" /\ valid' = valid \ {m.cl}
    BY <1>1, <1>7 DEF HandleOk, HandleRetransmit, HandleDisconnect, MarkAnswered, RemoveParticipants
  <2>2. Gone(m.cl)
    BY <1>5, <2>1 DEF Honest
  <2>3. rcv[m.cl].phase = "finished" => rcv[m.cl].produced = SourceBlocks
    <3>1. PICK start \in [Nat -> Nat] : Transferred(start)
      BY DEF TransferInv
    <3>2. Receiver(rcv[m.cl], start, sliceNo) /\ History(start)
      BY <1>5, <3>1 DEF Transferred
    <3> QED
      BY <1>2, <3>2, EndedReceived DEF Receiver, Ends
  <2>4. \A r \in valid \ valid' : Statuses[r] = "failed" \/ Amounts[r] = SourceBlocks
    BY <1>2, <1>5, <2>1, <2>2, <2>3 DEF Gone, Statuses, Amounts, Status
  <2>5. valid' \in (SUBSET valid) \ {valid}
    BY <1>7, <2>1
  <2>6. (pc # "done") = TRUE /\ (pc # "done")' = TRUE
    BY <1>1
  <2>7. Statuses' = Statuses /\ Amounts' = Amounts /\ Outputs' = Outputs
    BY DEF Statuses, Amounts, Outputs
  <2> QED
    BY <2>4, <2>5, <2>6, <2>7 DEF B!Leave, Statuses, Amounts, Outputs, Status
<1> QED
  BY <1>6, <1>7 DEF B!BroadcastNext

LEMMA EndMaps ==
  ASSUME TransferInv, SyncInv, Ended', rcv' = rcv, valid' = valid, pc # "done", pc' = "done",
         slices' = slices, atEnd' = atEnd
  PROVE  [B!BroadcastNext]_(B!broadcastVars)
<1>1. valid = {} \/ (Pending = {} /\ atEnd)
  BY DEF Ended, Pending
<1>2. ASSUME NEW r \in valid
      PROVE  Amounts[r] = SourceBlocks
  <2>1. SenderInv /\ r \in Receivers /\ Pending = {} /\ atEnd
    BY <1>1, <1>2 DEF TransferInv, SenderInv, CoreInv, SenderTypeOK
  <2>2. PICK start \in [Nat -> Nat] : Transferred(start)
    BY DEF TransferInv
  <2>3. Receiver(rcv[r], start, sliceNo) /\ History(start)
    BY <2>1, <2>2 DEF Transferred
  <2>4. rcv[r].completed = 0..sliceNo - 1
    <3>1. rcv[r].completed \subseteq 0..sliceNo - 1
      BY <2>3 DEF Receiver, SlotTable
    <3>2. 0..sliceNo - 1 \subseteq rcv[r].completed
      BY <1>2, <2>1 DEF SyncInv, InStep
    <3> QED
      BY <3>1, <3>2
  <2> QED
    BY <2>1, <2>3, <2>4, AllReceived DEF Amounts
<1>3. B!End
  BY <1>2 DEF B!End, Amounts
<1> QED
  BY <1>3 DEF B!BroadcastNext

LEMMA BroadcastStep ==
  ASSUME HalfDuplex, TransferInv, SyncInv, SyncInv', dropped = {}, dropped' = {}, [Next]_transferVars
  PROVE  [B!BroadcastNext]_(B!broadcastVars)
<1>1. PICK start \in [Nat -> Nat] : Transferred(start)
  BY DEF TransferInv
<1>2. SenderInv /\ HalfInv /\ NetTypes /\ held = {} /\ Setting /\ InStep /\ Ended'
  BY DEF TransferInv, NetTypes, HalfDuplex, SyncInv
<1>3. CASE LocalReaderStep \/ RcPushStep \/ UNCHANGED transferVars \/ \E r \in Receivers : RcStep(r)
  <2>1. valid' = valid /\ rcv' = rcv
    BY <1>3, QuietThreads
  <2>2. pc' = pc
    BY <1>3 DEF LocalReaderStep, LocalReader, LocalRead, LocalEof, LocalStop, RcPushStep, RcPush, RcStep, RcLookup,
                transferVars, vars, sendVars
  <2> QED
    BY <2>1, <2>2 DEF B!broadcastVars
<1>4. ASSUME NEW r \in Receivers, ReceiverSide(r)
      PROVE  [B!BroadcastNext]_(B!broadcastVars)
  BY <1>1, <1>2, <1>4, SideMaps DEF Setting
<1>5. CASE DispatcherStep
  <2>1. Dispatcher /\ rcv' = rcv /\ dropped' = IF pc = "expired" THEN dropped \cup (valid \ valid') ELSE dropped
    BY <1>5 DEF DispatcherStep
  <2>2. CASE HandleNextMessage
    BY <2>1, <2>2, LeaveMaps
  <2>3. CASE ~HandleNextMessage
    <3>1. valid' = valid
      <4>1. ASSUME NEW s \in Slots, Expire(s)
            PROVE  valid' = valid
        BY <2>1, <4>1 DEF Expire, RemoveParticipants
      <4> QED
        BY <2>1, <2>3, <4>1 DEF Dispatcher, ReReply, BlockOnData, Finish, Wait, Wake, Ack, Rexmit, ReqackAnswered,
                                NewSlice, dbVars
    <3>2. pc # "done"
      BY <2>1 DEF Dispatcher, HandleNextMessage, ReReply, BlockOnData, Finish, Wait, Wake, Ack, Rexmit,
                  ReqackAnswered, Expire, NewSlice, AtAck, AtRexmit, AtReqack, AtFill
    <3>3. ASSUME pc' = "done"
          PROVE  slices' = slices /\ atEnd' = atEnd
      <4>1. Finish \/ \E s \in Slots : Expire(s)
        BY <2>1, <2>3, <3>2, <3>3 DEF Dispatcher, ReReply, BlockOnData, Wait, Wake, Ack, Rexmit, ReqackAnswered,
                                      NewSlice
      <4> QED
        BY <3>3, <4>1 DEF Finish, Expire, fillVars
    <3>4. CASE pc' = "done"
      BY <1>2, <2>1, <3>1, <3>2, <3>3, <3>4, EndMaps
    <3>5. CASE pc' # "done"
      BY <2>1, <3>1, <3>2, <3>5 DEF B!broadcastVars
    <3> QED
      BY <3>4, <3>5
  <2> QED
    BY <2>2, <2>3
<1> QED
  BY <1>2, <1>3, <1>4, <1>5, StepKinds DEF Setting

\* As long as nobody is dropped, slices, answers, retransmissions, losses, timeouts and the
\* threads come to no more than the broadcast: outputs that grow as prefixes of the source,
\* receivers that are done only with the whole of it, and a sender that ends only when every
\* receiver it still counts has everything.
THEOREM TransferIsBroadcast ==
  ASSUME HalfDuplex PROVE Spec /\ [](dropped = {}) => ImplementsBroadcast
<1>1. StepInv /\ StepInv' /\ dropped = {} /\ (dropped = {})' /\ [Next]_transferVars
      => [B!BroadcastNext]_(B!broadcastVars)
  BY BroadcastStep DEF StepInv, Undisturbed
<1> QED
  BY <1>1, BroadcastStarts, StaysInStep, PTL DEF Spec, ImplementsBroadcast, B!Spec

=============================================================================
