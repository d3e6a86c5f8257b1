----------------------------- MODULE SendData -----------------------------
(***************************************************************************)
(* The sender's data phase (senddata.rs): the dispatcher loop of           *)
(* spawn_net_sender, the return-channel thread that queues the receivers'  *)
(* answers for it, and the local reader thread (diskio.rs) that fills the  *)
(* ring the slices are cut from.                                           *)
(*                                                                         *)
(* Data is counted in blocks: source block k is the number k, position p   *)
(* of the stream lives in cell p % RingBlocks of the ring.  The size of a  *)
(* new slice is any size up to MaxSlice, which is what the adaptive slice  *)
(* size can come to (SliceSize).  A block stands for the byte it has at    *)
(* one place; the last block of the input may be too short to have a byte  *)
(* there.  Rates, statistics and diagnostics are left out; so is the wait  *)
(* average, a timeout may come at any time.                                *)
(***************************************************************************)
EXTENDS Participants, Udp, Fec

CONSTANTS
  SourceBlocks,       \* blocks in the input
  LastShort,          \* the last of them ends before the byte the model follows
  RingBlocks,         \* blocks in the ring
  MaxSlice,           \* blocks in the largest slice
  MinTake,            \* blocks the dispatcher waits for before it cuts a slice (10)
  NrSlices,           \* slice table slots (8)
  MaxInFlight,        \* 1 in half duplex, 3 in full duplex
  AsyncModes,         \* the settings of FLAG_ASYNC
  RetriesUntilDrop,   \* --retries-until-drop
  QueueSize,          \* answers the return channel queues (256)
  FecStripes,         \* -F: the stripes of a slice
  FecRedundancy       \* -F: parity blocks per stripe, none without FLAG_FEC

ASSUME SizesAssumption ==
  /\ SourceBlocks \in Nat /\ LastShort \in BOOLEAN /\ RingBlocks \in Nat \ {0}
  /\ MaxSlice \in 1..RingBlocks /\ MinTake \in 1..RingBlocks
  /\ NrSlices \in Nat /\ MaxInFlight \in 1..NrSlices
  /\ RetriesUntilDrop \in Nat /\ QueueSize \in Nat \ {0}
  /\ AsyncModes \subseteq BOOLEAN
  /\ FecStripes \in Nat \ {0} /\ FecRedundancy \in Nat

VARIABLES
  async,            \* FLAG_ASYNC: no return traffic, slices count as acked once sent
  pc,               \* where the dispatcher is in its loop
  slices,           \* the slice table
  sliceNo,          \* number of the next slice
  atEnd,            \* the end marker has been cut
  firstSliceAcked,  \* late joiners get no CONNECT_REPLY any more
  msgs,             \* answers queued by the return channel
  rcHeld,           \* the answer its thread has looked up and not queued yet
  ring,             \* the data buffer
  readPos,          \* blocks the local reader has produced
  takenPos,         \* blocks cut into slices
  freeMem,          \* blocks the free memory queue holds
  freeEnd,          \* the free memory queue was ended
  reader,           \* "reading", "eof" (end of input announced) or "stopped"
  down              \* datagrams on their way to the receivers

rcVars    == <<msgs, rcHeld>>
diskVars  == <<ring, readPos, reader>>
fillVars  == <<sliceNo, atEnd, takenPos>>
sendVars  == <<async, pc, slices, sliceNo, atEnd, firstSliceAcked, msgs, rcHeld,
               ring, readPos, takenPos, freeMem, freeEnd, reader, down>>
vars      == <<sendVars, dbVars>>

Slots == 1..NrSlices

\* A slot not in use.  What a freed slice leaves in its slot is never read:
\* the next slice put there starts from fresh fields.
FreeSlice ==
  [state |-> "Free", no |-> NoSlice, base |-> 0, blocks |-> 0, rxmitId |-> 0,
   ready |-> {}, answered |-> {}, nrReady |-> 0, nrAnswered |-> 0,
   needRxmit |-> FALSE, rxmitMap |-> {}, isXmitted |-> {}]

\* Datagrams the sender multicasts.
Data(no, block, of, content) ==
  [type |-> "DATA", no |-> no, block |-> block, of |-> of, content |-> content]
Reqack(sl) == [type |-> "REQACK", no |-> sl.no, of |-> sl.blocks, rxmit |-> sl.rxmitId]
FecBlock(sl, block, content) ==
  [type |-> "FEC", no |-> sl.no, block |-> block, of |-> sl.blocks, stripes |-> FecStripes,
   content |-> content]
Reply == [type |-> "REPLY"]

\* Answers in the queue.
OkMsg(c, no)            == [type |-> "OK", cl |-> c, no |-> no]
RetransmitMsg(c, no, have) == [type |-> "RETR", cl |-> c, no |-> no, have |-> have]
DisconnectMsg(c)        == [type |-> "DISC", cl |-> c]

SendInit ==
  /\ async \in AsyncModes
  /\ pc = "top"
  /\ slices = [s \in Slots |-> FreeSlice]
  /\ sliceNo = 0 /\ atEnd = FALSE /\ firstSliceAcked = FALSE
  /\ msgs = <<>> /\ rcHeld = <<>>
  /\ ring = [i \in 0..RingBlocks - 1 |-> 0]
  /\ readPos = 0 /\ takenPos = 0
  /\ freeMem = RingBlocks /\ freeEnd = FALSE
  /\ reader = "reading"
  /\ down = EmptyChannel(Receivers)
  /\ DbInit

-----------------------------------------------------------------------------
(* The slices in flight. *)

Pending == {s \in Slots : slices[s].state = "Xmitted"}

\* pending.first(): slices enter the list in the order of their numbers.
IsOldest(s, S) == s \in S /\ \A t \in S : slices[s].no <= slices[t].no

\* Mutant: a slice everybody answered counts as acknowledged.
AckableOnceAnswered == {s \in Pending : slices[s].nrAnswered >= nrParticipants}

Ackable    == {s \in Pending : slices[s].nrReady >= nrParticipants}
Rexmitable == {s \in Pending : slices[s].needRxmit}
Answered   == {s \in Pending : slices[s].nrAnswered >= nrParticipants}

\* The position in the slice table of slice no, if it is still there.
FindSlice(no) == {s \in Slots : slices[s].state # "Free" /\ slices[s].no = no}

\* Mutant: the rounds are not counted.
SameRound(sl) == sl

NextRound(sl) == [sl EXCEPT !.rxmitId = @ + 1]

\* What a REQACK does to the slice it is about: a new round starts.
NewRound(sl) ==
  [sl EXCEPT !.answered = sl.ready, !.nrAnswered = sl.nrReady,
             !.needRxmit = FALSE, !.rxmitMap = {}, !.isXmitted = {}]

\* The input has no byte in the block at position pos.
Padded(pos) == LastShort /\ pos = SourceBlocks - 1

\* A packet holds the bytes of its block that the slice has (append_ring).
BlockPacket(sl, i) ==
  Data(sl.no, i, sl.blocks,
       IF Padded(sl.base + i) THEN NoByte ELSE ring[(sl.base + i) % RingBlocks])

-----------------------------------------------------------------------------
(* The stages of the dispatcher loop.  The message queue is looked at when  *)
(* the loop starts over; a stage is reached when those before it have       *)
(* nothing to do.  "acking", "rexmitting" and "reqacking" are the middle of *)
(* a stage that goes through several slices.                                *)

AtAck    == (pc = "top" /\ msgs = <<>>) \/ pc = "replied"
AtRexmit == AtAck /\ Ackable = {}
AtReqack == AtRexmit /\ Rexmitable = {}
AtFill   == (AtReqack /\ Answered = {}) \/ pc = "fill"

\* The dispatcher cuts a new slice when the window has room.
WantsSlice == Cardinality(Pending) < MaxInFlight /\ ~atEnd

Available == readPos - takenPos
DataReady == Available >= MinTake \/ reader = "eof"

-----------------------------------------------------------------------------
(* handle_next_message: one queued answer. *)

HandleOk(m) ==
  /\ m.type = "OK"
  /\ LET S == FindSlice(m.no)
     IN  /\ slices' = [s \in Slots |->
              IF s \notin S THEN slices[s]
              ELSE [slices[s] EXCEPT
                      !.ready = @ \cup {m.cl},
                      !.nrReady = IF m.cl \in slices[s].ready THEN @ ELSE @ + 1,
                      !.answered = @ \cup {m.cl},
                      !.nrAnswered = IF m.cl \in slices[s].answered THEN @ ELSE @ + 1]]
         /\ IF S = {} THEN MarkAnswered(m.cl, NoSlice, 0)
            ELSE \E s \in S : MarkAnswered(m.cl, m.no, slices[s].rxmitId)

\* The echoed round is not looked at: a stale map is accepted.
HandleRetransmit(m) ==
  /\ m.type = "RETR"
  /\ LET S == FindSlice(m.no)
     IN  /\ slices' = [s \in Slots |->
              IF s \notin S THEN slices[s]
              ELSE [slices[s] EXCEPT
                      !.rxmitMap = @ \cup ((0..slices[s].blocks - 1) \ m.have),
                      !.needRxmit = TRUE,
                      !.answered = @ \cup {m.cl},
                      !.nrAnswered = IF m.cl \in slices[s].answered THEN @ ELSE @ + 1]]
         /\ IF S = {} THEN MarkAnswered(m.cl, NoSlice, 0)
            ELSE \E s \in S : MarkAnswered(m.cl, m.no, slices[s].rxmitId)

\* Mutant: the counter of ready clients goes down for one that was not ready.
HandleDisconnectUnready(m) ==
  /\ m.type = "DISC"
  /\ slices' = [s \in Slots |->
       [slices[s] EXCEPT !.ready = @ \ {m.cl}, !.nrReady = @ - 1]]
  /\ RemoveParticipants({m.cl})

\* Mutant: the bits of the client stay in the slices.
HandleDisconnectKeepingBits(m) ==
  m.type = "DISC" /\ RemoveParticipants({m.cl}) /\ UNCHANGED slices

HandleDisconnect(m) ==
  /\ m.type = "DISC"
  /\ slices' = [s \in Slots |->
       [slices[s] EXCEPT
          !.ready = @ \ {m.cl},
          !.nrReady = IF m.cl \in slices[s].ready THEN @ - 1 ELSE @,
          !.answered = @ \ {m.cl},
          !.nrAnswered = IF m.cl \in slices[s].answered THEN @ - 1 ELSE @]]
  /\ RemoveParticipants({m.cl})

HandleNextMessage ==
  /\ pc = "top" /\ msgs # <<>>
  /\ msgs' = Tail(msgs)
  /\ \/ HandleOk(Head(msgs))
     \/ HandleRetransmit(Head(msgs))
     \/ HandleDisconnect(Head(msgs))
  /\ UNCHANGED <<pc, fillVars, firstSliceAcked, rcHeld, diskVars, freeMem, freeEnd, down>>

-----------------------------------------------------------------------------
(* The stages in flight slices go through. *)

\* Participants whose CONNECT_REPLY is sent again (once a second) because
\* they may have missed it.
ReplyTargets == {c \in valid : c \notin everAnswered /\ c \in LateJoiners}

ReReply ==
  /\ pc = "top" /\ msgs = <<>>
  /\ ~firstSliceAcked /\ ReplyTargets # {}
  /\ pc' = "replied"
  /\ down' = [c \in Receivers |-> IF c \in ReplyTargets
                                  THEN Arrive(down[c], <<Reply>>) ELSE down[c]]
  /\ UNCHANGED <<slices, fillVars, firstSliceAcked, rcVars, diskVars, freeMem, freeEnd, dbVars>>

\* Mutant: the memory of the slice is not given back.
AckLeaking(s) ==
  /\ AtAck \/ pc = "acking"
  /\ IsOldest(s, Ackable)
  /\ slices' = [slices EXCEPT ![s] = FreeSlice]
  /\ pc' = IF Ackable = {s} THEN "top" ELSE "acking"
  /\ firstSliceAcked' = TRUE
  /\ UNCHANGED <<fillVars, rcVars, diskVars, freeMem, freeEnd, down, dbVars>>

\* Every participant has acknowledged slice s: its memory is released.
Ack(s) ==
  /\ AtAck \/ pc = "acking"
  /\ IsOldest(s, Ackable)
  /\ freeMem' = freeMem + slices[s].blocks
  /\ firstSliceAcked' = TRUE
  /\ slices' = [slices EXCEPT ![s] = FreeSlice]
  /\ pc' = IF Ackable = {s} THEN "top" ELSE "acking"
  /\ UNCHANGED <<fillVars, rcVars, diskVars, freeEnd, down, dbVars>>

\* The blocks somebody misses, each sent twice, none sent twice in a round.
RexmitPackets(sl) ==
  LET due == [i \in 1..sl.blocks |-> i - 1 \in sl.rxmitMap \ sl.isXmitted]
      twice[i \in 0..sl.blocks] ==
        IF i = 0 THEN <<>>
        ELSE IF due[i] THEN twice[i - 1] \o <<BlockPacket(sl, i - 1), BlockPacket(sl, i - 1)>>
        ELSE twice[i - 1]
  IN  twice[sl.blocks]

Rexmit(s) ==
  /\ AtRexmit \/ pc = "rexmitting"
  /\ IsOldest(s, Rexmitable)
  /\ down' = Multicast(down, RexmitPackets(slices[s]))
  /\ slices' = [slices EXCEPT ![s].needRxmit = FALSE,
                              ![s].isXmitted = @ \cup slices[s].rxmitMap]
  /\ pc' = IF Rexmitable = {s} THEN "top" ELSE "rexmitting"
  /\ UNCHANGED <<fillVars, firstSliceAcked, rcVars, diskVars, freeMem, freeEnd, dbVars>>

\* Everybody answered slice s but somebody still misses blocks: a new round
\* is started at once.  The loop goes on to the next stage afterwards.
ReqackAnswered(s) ==
  /\ AtReqack \/ pc = "reqacking"
  /\ IsOldest(s, Answered)
  /\ LET sl == NextRound(slices[s])
     IN  /\ slices' = [slices EXCEPT ![s] = NewRound(sl)]
         /\ down' = Multicast(down, <<Reqack(sl)>>)
  /\ pc' = IF Answered = {s} THEN "fill" ELSE "reqacking"
  /\ UNCHANGED <<fillVars, firstSliceAcked, rcVars, diskVars, freeMem, freeEnd, dbVars>>

-----------------------------------------------------------------------------
(* A new slice is cut and sent. *)

\* The dispatcher sleeps in data.consume, and reads no answers meanwhile.
BlockOnData ==
  /\ AtFill /\ pc # "fill"
  /\ WantsSlice /\ ~DataReady
  /\ pc' = "fill"
  /\ UNCHANGED <<slices, fillVars, firstSliceAcked, rcVars, diskVars, freeMem, freeEnd, down, dbVars>>

\* Mutant: a slice is not cut down to whole blocks.
SliceSizesUncut == IF Available = 0 THEN {0} ELSE {n \in 1..MaxSlice : n <= Available}

\* The sizes a slice may get: all there is, or less if the current slice size
\* is less, cut down to whole blocks if it is more than one, so that a short
\* last block is a slice of its own.  Nothing there means the end of the input:
\* the end marker.
SliceSizes ==
  IF Available = 0 THEN {0}
  ELSE {n \in 1..MaxSlice : n <= Available /\ (n > 1 => ~Padded(takenPos + n - 1))}

\* position(Free): the first slot not in use.
IsFreeSlot(s) == slices[s].state = "Free" /\ \A t \in 1..s - 1 : slices[t].state # "Free"

\* Parity block b belongs to stripe b % FecStripes: the blocks of the slice with
\* the same remainder, a short one filled up with zeros.  (Of a stripe without blocks
\* the code sends what is left in its buffer, which nobody uses.)
StripeLength(n, stripe) == (n - stripe + FecStripes - 1) \div FecStripes
StripeContents(sl, stripe) ==
  LET pos(j) == sl.base + stripe + (j - 1) * FecStripes
  IN  [j \in 1..StripeLength(sl.blocks, stripe) |->
         IF Padded(pos(j)) THEN 0 ELSE ring[pos(j) % RingBlocks]]

\* fec_encode_slice and send_fec_blocks
FecPackets(sl) ==
  [b \in 1..IF sl.blocks > 0 THEN FecStripes * FecRedundancy ELSE 0 |->
     FecBlock(sl, b - 1, Parity(StripeContents(sl, (b - 1) % FecStripes), (b - 1) \div FecStripes))]

\* In asynchronous mode a data slice is acked by its own REQACK stage, with
\* no REQACK sent, and its slot is free again.
NewSlice(s, n) ==
  /\ AtFill /\ WantsSlice /\ DataReady
  /\ IsFreeSlot(s) /\ n \in SliceSizes
  /\ LET sl == [FreeSlice EXCEPT !.state = "Xmitted", !.no = sliceNo,
                                 !.base = takenPos, !.blocks = n]
         packets == [i \in 1..n |-> BlockPacket(sl, i - 1)] \o FecPackets(sl)
     IN  IF async /\ n > 0
         THEN /\ down' = Multicast(down, packets)
              /\ freeMem' = freeMem + n
              /\ firstSliceAcked' = TRUE
              /\ UNCHANGED slices
         ELSE /\ down' = Multicast(down, Append(packets, Reqack(sl)))
              /\ slices' = [slices EXCEPT ![s] = sl]
              /\ UNCHANGED <<freeMem, firstSliceAcked>>
  /\ sliceNo' = sliceNo + 1
  /\ takenPos' = takenPos + n
  /\ atEnd' = (n = 0)
  /\ pc' = "top"
  /\ UNCHANGED <<rcVars, diskVars, freeEnd, dbVars>>

-----------------------------------------------------------------------------
(* Nothing to do: the transfer is over, or the dispatcher waits. *)

\* Leaving the loop ends the free memory queue.
Stop == pc' = "done" /\ freeEnd' = TRUE

Finish ==
  /\ AtFill /\ ~WantsSlice
  /\ async \/ Pending = {}
  /\ Stop
  /\ UNCHANGED <<slices, fillVars, firstSliceAcked, rcVars, diskVars, freeMem, down, dbVars>>

Wait ==
  /\ AtFill /\ ~WantsSlice
  /\ ~async /\ Pending # {}
  /\ pc' = "wait"
  /\ UNCHANGED <<slices, fillVars, firstSliceAcked, rcVars, diskVars, freeMem, freeEnd, down, dbVars>>

\* consume_with_timeout returns: an answer is there, or time is up.
Wake ==
  /\ pc = "wait"
  /\ pc' = IF msgs # <<>> THEN "top" ELSE "expired"
  /\ UNCHANGED <<slices, fillVars, firstSliceAcked, rcVars, diskVars, freeMem, freeEnd, down, dbVars>>

\* Mutant: participants that acknowledged the slice are dropped with the others.
ToDropReadyToo(s) ==
  IF slices[s].rxmitId > RetriesUntilDrop
  THEN {c \in valid : slices[s].rxmitId - BudgetBase(c, slices[s].no) > RetriesUntilDrop}
  ELSE {}

\* Participants that used up their retries on slice s.
ToDrop(s) ==
  IF slices[s].rxmitId > RetriesUntilDrop
  THEN {c \in valid \ slices[s].ready :
          slices[s].rxmitId - BudgetBase(c, slices[s].no) > RetriesUntilDrop}
  ELSE {}

\* Time was up: silent participants are dropped, those left are asked again.
\* The bits of a dropped participant stay in the slices.
Expire(s) ==
  /\ pc = "expired"
  /\ IsOldest(s, Pending)
  /\ RemoveParticipants(ToDrop(s))
  /\ IF slices[s].rxmitId > RetriesUntilDrop /\ nrParticipants' = 0
     THEN Stop /\ UNCHANGED <<slices, down>>
     ELSE LET sl == NextRound(slices[s])
          IN  /\ slices' = [slices EXCEPT ![s] = NewRound(sl)]
              /\ down' = Multicast(down, <<Reqack(sl)>>)
              /\ pc' = "top"
              /\ UNCHANGED freeEnd
  /\ UNCHANGED <<fillVars, firstSliceAcked, rcVars, diskVars, freeMem>>

-----------------------------------------------------------------------------
(* The return-channel thread.  It looks the client up under the lock of the *)
(* participant table and queues the answer later, which it waits for when   *)
(* the queue is full: the client may be gone by then.                       *)

\* An answer of an address that is not a participant's is dropped.
RcLookup(m) ==
  /\ pc # "done"
  /\ rcHeld = <<>>
  /\ m.cl \in valid
  /\ rcHeld' = <<m>>
  /\ UNCHANGED <<async, pc, slices, fillVars, firstSliceAcked, msgs, diskVars, freeMem, freeEnd, down, dbVars>>

RcPush ==
  /\ pc # "done"
  /\ rcHeld # <<>> /\ Len(msgs) < QueueSize
  /\ msgs' = msgs \o rcHeld
  /\ rcHeld' = <<>>
  /\ UNCHANGED <<async, pc, slices, fillVars, firstSliceAcked, diskVars, freeMem, freeEnd, down, dbVars>>

\* The answers the dispatcher has not seen yet, in their order.
Unseen == msgs \o rcHeld

-----------------------------------------------------------------------------
(* The local reader thread.  It reads nothing, not even the end of the      *)
(* input, without free memory to read into.                                 *)

\* The ring with the block at position pos read into it.
Refilled(pos) == IF Padded(pos) THEN ring ELSE [ring EXCEPT ![pos % RingBlocks] = pos + 1]

\* Mutant: what is read is not taken from the free memory.
LocalReadUnclaimed ==
  /\ reader = "reading" /\ freeMem > 0
  /\ readPos < SourceBlocks
  /\ ring' = Refilled(readPos)
  /\ readPos' = readPos + 1
  /\ UNCHANGED <<pc, slices, fillVars, firstSliceAcked, rcVars, freeMem, reader, freeEnd, down, dbVars>>

LocalRead ==
  /\ reader = "reading" /\ freeMem > 0
  /\ readPos < SourceBlocks
  /\ ring' = Refilled(readPos)
  /\ readPos' = readPos + 1
  /\ freeMem' = freeMem - 1
  /\ UNCHANGED <<pc, slices, fillVars, firstSliceAcked, rcVars, reader, freeEnd, down, dbVars>>

LocalEof ==
  /\ reader = "reading" /\ freeMem > 0
  /\ readPos = SourceBlocks
  /\ reader' = "eof"
  /\ UNCHANGED <<pc, slices, fillVars, firstSliceAcked, rcVars, ring, readPos, freeMem, freeEnd, down, dbVars>>

LocalStop ==
  /\ reader = "reading" /\ freeMem = 0 /\ freeEnd
  /\ reader' = "stopped"
  /\ UNCHANGED <<pc, slices, fillVars, firstSliceAcked, rcVars, ring, readPos, freeMem, freeEnd, down, dbVars>>

LocalReader == UNCHANGED async /\ (LocalRead \/ LocalEof \/ LocalStop)

-----------------------------------------------------------------------------
Dispatcher ==
  /\ UNCHANGED async
  /\ \/ HandleNextMessage
     \/ ReReply
     \/ BlockOnData \/ Finish \/ Wait \/ Wake
     \/ \E s \in Slots :
          \/ Ack(s) \/ Rexmit(s) \/ ReqackAnswered(s) \/ Expire(s)
          \/ \E n \in 0..MaxSlice : NewSlice(s, n)

\* The dispatcher left its loop and the reader thread returned.
SenderDone == pc = "done" /\ reader # "reading"

-----------------------------------------------------------------------------
(* Properties of the sender alone, whoever its receivers are. *)

SliceType ==
  [state : {"Free", "Xmitted"}, no : Nat \cup {NoSlice}, base : Nat, blocks : Nat,
   rxmitId : Nat, ready : SUBSET Receivers, answered : SUBSET Receivers,
   nrReady : Nat, nrAnswered : Nat, needRxmit : BOOLEAN,
   rxmitMap : SUBSET Nat, isXmitted : SUBSET Nat]

MsgType ==
  [type : {"OK"}, cl : Receivers, no : Nat]
  \cup [type : {"RETR"}, cl : Receivers, no : Nat, have : SUBSET Nat]
  \cup [type : {"DISC"}, cl : Receivers]

\* Every variable of the sender and of its participant table keeps its type;
\* the unsigned counters nr_ready, nr_answered and nr_participants never wrap
\* below zero.
SenderTypeOK ==
  /\ async \in AsyncModes
  /\ pc \in {"top", "replied", "acking", "rexmitting", "reqacking", "fill", "wait", "expired", "done"}
  /\ slices \in [Slots -> SliceType]
  /\ sliceNo \in Nat /\ atEnd \in BOOLEAN /\ firstSliceAcked \in BOOLEAN
  /\ msgs \in Seq(MsgType) /\ rcHeld \in Seq(MsgType) /\ Len(rcHeld) <= 1
  /\ ring \in [0..RingBlocks - 1 -> Nat]
  /\ readPos \in Nat /\ takenPos \in Nat /\ freeMem \in Nat
  /\ freeEnd \in BOOLEAN /\ reader \in {"reading", "eof", "stopped"}
  /\ valid \in SUBSET Receivers /\ nrParticipants \in Nat
  /\ everAnswered \in SUBSET Receivers
  /\ firstRound \in [Receivers -> [no : Nat \cup {NoSlice}, round : Nat]]

\* The counters the dispatcher decides by (nr_ready, nr_answered,
\* nr_participants) are the sizes of the sets they stand for, in whatever
\* order answers, disconnections and drops come.
CountersMatch ==
  /\ nrParticipants = Cardinality(valid)
  /\ \A s \in Slots :
       /\ slices[s].nrReady = Cardinality(slices[s].ready)
       /\ slices[s].nrAnswered = Cardinality(slices[s].answered)

\* A block of a slice in flight is still in its ring cell, so a
\* retransmission sends the source block it names.
RingIntact ==
  \A s \in Pending : \A i \in 0..slices[s].blocks - 1 :
    Padded(slices[s].base + i) \/ ring[(slices[s].base + i) % RingBlocks] = slices[s].base + i + 1

\* The blocks of the slices of a table; a free slot has none.
BlocksIn(table) ==
  LET upTo[s \in 0..NrSlices] == IF s = 0 THEN 0 ELSE upTo[s - 1] + table[s].blocks
  IN  upTo[NrSlices]

\* Memory is neither lost nor released twice: free blocks, blocks waiting to be
\* cut and blocks in flight make up the ring.
MemoryConserved == freeMem + Available + BlocksIn(slices) = RingBlocks
=============================================================================
