----------------------------- MODULE ReleaseProofs -----------------------------
(***************************************************************************)
(* What TLAPS proves of the sender against every behaviour of the          *)
(* receivers that SendDataEnv allows: its types and counters, its memory,  *)
(* when it may release a slice and when it may drop a participant.         *)
(*                                                                         *)
(* The memory of a slice is handed back only when every participant that   *)
(* was not dropped has acknowledged it.  The argument is about the queue   *)
(* of answers: nothing but disconnections of a receiver follows its first  *)
(* disconnection there, so no late OK of a receiver that left can mark it  *)
(* ready again.  Reorder is FALSE for this: the answers of one receiver    *)
(* are queued in the order it sent them.                                   *)
(***************************************************************************)
EXTENDS SendDataProofs, SendDataEnv

EnvTypes ==
  /\ okd \in [Receivers -> SUBSET Nat]
  /\ left \in SUBSET Receivers /\ dropped \in SUBSET Receivers

\* What is known of the sender among receivers that do what they like.
EnvInv == SenderInv /\ EnvTypes

\* The answers a receiver gives are well formed.
LEMMA AnswersTyped ==
  ASSUME CoreInv, NEW r \in Receivers
  PROVE  /\ \A no \in 0..sliceNo - 1 : OkMsg(r, no) \in MsgType
         /\ \A s \in Pending : \A have \in SUBSET Nat : RetransmitMsg(r, slices[s].no, have) \in MsgType
         /\ DisconnectMsg(r) \in MsgType
<1>1. sliceNo \in Nat /\ \A s \in Pending : slices[s].no \in Nat
  BY DEF CoreInv, SenderTypeOK, Numbered
<1> QED
  BY <1>1 DEF OkMsg, RetransmitMsg, DisconnectMsg, MsgType

\* The steps of the environment are moves of the sender.
LEMMA EnvMoves ==
  ASSUME CoreInv, [Next]_allVars
  PROVE  SenderMoves
<1>1. CASE DispatcherStep \/ LocalReaderStep \/ RcStep
  BY <1>1 DEF DispatcherStep, LocalReaderStep, RcStep, SenderMoves
<1>2. CASE UNCHANGED allVars
  BY <1>2 DEF allVars, vars, sendVars, dbVars, SenderMoves, senderVars, fillVars, rcVars, diskVars
<1>3. ASSUME NEW r \in Receivers, ReceiverStep(r)
      PROVE  SenderMoves
  <2>1. CASE \E no \in 0..sliceNo - 1 : AnswerOk(r, no)
    BY <2>1, AnswersTyped DEF AnswerOk, SenderMoves
  <2>2. CASE \E s \in Slots : \E have \in SUBSET (0..MaxSlice - 1) : AnswerRetransmit(r, s, have)
    <3>1. PICK s \in Slots, have \in SUBSET (0..MaxSlice - 1) : AnswerRetransmit(r, s, have)
      BY <2>2
    <3>2. have \in SUBSET Nat
      OBVIOUS
    <3> QED
      BY <3>1, <3>2, AnswersTyped DEF AnswerRetransmit, SenderMoves
  <2>3. CASE Disconnect(r)
    BY <2>3, AnswersTyped DEF Disconnect, SenderMoves
  <2> QED
    BY <1>3, <2>1, <2>2, <2>3 DEF ReceiverStep
<1> QED
  BY <1>1, <1>2, <1>3 DEF Next, Terminated

LEMMA EnvTypesStep ==
  ASSUME CoreInv, EnvTypes, [Next]_allVars
  PROVE  EnvTypes'
<1>1. sliceNo \in Nat /\ valid \in SUBSET Receivers
  BY DEF CoreInv, SenderTypeOK
<1>2. CASE DispatcherStep
  BY <1>1, <1>2 DEF DispatcherStep, EnvTypes
<1>3. CASE LocalReaderStep \/ RcStep \/ UNCHANGED allVars
  BY <1>3 DEF LocalReaderStep, RcStep, allVars, envVars, EnvTypes
<1>4. ASSUME NEW r \in Receivers, ReceiverStep(r)
      PROVE  EnvTypes'
  <2>1. \/ \E no \in 0..sliceNo - 1 : okd' = [okd EXCEPT ![r] = @ \cup {no}] /\ UNCHANGED <<left, dropped>>
        \/ UNCHANGED envVars
        \/ left' = left \cup {r} /\ UNCHANGED <<okd, dropped>>
    BY <1>4 DEF ReceiverStep, AnswerOk, AnswerRetransmit, Disconnect
  <2> QED
    BY <1>1, <2>1 DEF EnvTypes, envVars
<1> QED
  BY <1>2, <1>3, <1>4 DEF Next, Terminated

LEMMA EnvStep ==
  ASSUME EnvInv, [Next]_allVars
  PROVE  EnvInv'
BY EnvMoves, SenderStep, EnvTypesStep DEF EnvInv, SenderInv

LEMMA InitEnv == Init => EnvInv /\ HalfInv
BY InitSender DEF Init, EnvInv, EnvTypes

LEMMA Environment == Spec => []EnvInv
<1>1. Init => EnvInv
  BY InitEnv
<1>2. EnvInv /\ [Next]_allVars => EnvInv'
  BY EnvStep
<1> QED
  BY <1>1, <1>2, PTL DEF Spec

\* Every variable of the sender keeps its type; in particular the unsigned
\* counters that handle_next_message and remove_participant count down never
\* go below zero.
THEOREM TypeCorrect == Spec => []TypeOK
<1>1. EnvInv => TypeOK
  BY DEF EnvInv, SenderInv, CoreInv, EnvTypes, TypeOK
<1> QED
  BY <1>1, Environment, PTL

\* nr_ready, nr_answered and nr_participants are the sizes of the sets they
\* stand for, for any number of receivers that answer, repeat themselves,
\* disconnect and are dropped in any order.
THEOREM CountersCorrect == Spec => []CountersMatch
<1>1. EnvInv => CountersMatch
  BY DEF EnvInv, SenderInv, CoreInv
<1> QED
  BY <1>1, Environment, PTL

\* Free blocks, blocks waiting to be cut and blocks in flight make up the ring, for
\* every ring, window and slice size: what Ack produces into the free memory queue is
\* what NewSlice took, once.
THEOREM MemoryIsConserved == Spec => []MemoryConserved
<1>1. EnvInv => MemoryConserved
  BY DEF EnvInv, SenderInv, MemoryInv
<1> QED
  BY <1>1, Environment, PTL

\* In half duplex the local reader never overwrites a block that may have to be sent
\* again: the only slice in flight is next to what was not cut yet, so that the memory
\* freed is always behind it.  In full duplex it is not (the run MCSendRing).
THEOREM RingStaysIntact ==
  ASSUME MaxInFlight = 1
  PROVE  Spec => []RingIntact
<1>1. EnvInv /\ HalfInv /\ [Next]_allVars => HalfInv'
  BY EnvMoves, HalfStep DEF EnvInv, SenderInv
<1>2. EnvInv /\ HalfInv => RingIntact
  BY HalfRing DEF EnvInv
<1> QED
  BY <1>1, <1>2, InitEnv, Environment, PTL DEF Spec

-----------------------------------------------------------------------------
(* The queue of answers. *)

\* An OK is about a slice its sender acknowledged; who disconnects has left.
QueueHonest ==
  \A i \in Queued :
    /\ Unseen[i].type = "OK" => Unseen[i].no \in okd[Unseen[i].cl]
    /\ Unseen[i].type = "DISC" => Unseen[i].cl \in left

\* A client with an answer in the queue is still a participant, or was dropped.
QueueKnown ==
  \A i \in Queued : Unseen[i].type # "DISC" => Unseen[i].cl \in valid \cup dropped

\* Nothing but disconnections follows a client's disconnection.
DisconnectLast ==
  \A i, j \in Queued :
    (i < j /\ Unseen[i].type = "DISC" /\ Unseen[i].cl = Unseen[j].cl) => Unseen[j].type = "DISC"

QueueInv == QueueHonest /\ QueueKnown /\ DisconnectLast

\* The inductive strengthening of ReadyAccounted.
ReleaseInv == CoreInv /\ EnvTypes /\ ReadyAccounted /\ QueueInv

-----------------------------------------------------------------------------
(* Steps of the queue. *)

LEMMA QueueKept ==
  ASSUME QueueInv, Unseen' = Unseen, okd' = okd, left' = left,
         valid \cup dropped \subseteq valid' \cup dropped'
  PROVE  QueueInv'
BY DEF QueueInv, QueueHonest, QueueKnown, DisconnectLast, Queued

\* The oldest answer is taken; only if it is a disconnection may its sender
\* stop being known.
LEMMA QueueTaken ==
  ASSUME CoreInv, QueueInv, Unseen # <<>>, Unseen' = Tail(Unseen), okd' = okd, left' = left,
         \A c \in valid \cup dropped :
           (Head(Unseen).type = "DISC" /\ Head(Unseen).cl = c) \/ c \in valid' \cup dropped'
  PROVE  QueueInv'
<1>1. Len(Unseen) \in Nat /\ Len(Unseen) > 0 /\ Head(Unseen) = Unseen[1]
  BY QueueType
<1>2. Queued' = 1..Len(Unseen) - 1
  BY QueueType DEF Queued
<1>3. \A i \in Queued' : i + 1 \in Queued /\ Unseen'[i] = Unseen[i + 1] /\ 1 < i + 1
  BY <1>1, <1>2, QueueType DEF Queued
<1>4. 1 \in Queued
  BY <1>1 DEF Queued
<1>5. QueueHonest'
  BY <1>3 DEF QueueInv, QueueHonest
<1>6. QueueKnown'
  BY <1>1, <1>3, <1>4 DEF QueueInv, QueueKnown, DisconnectLast
<1>7. DisconnectLast'
  <2> SUFFICES ASSUME NEW i \in Queued', NEW j \in Queued', i < j,
                      Unseen'[i].type = "DISC", Unseen'[i].cl = Unseen'[j].cl
               PROVE  Unseen'[j].type = "DISC"
    BY DEF DisconnectLast
  <2>1. i + 1 < j + 1
    BY <1>2
  <2> QED
    BY <1>3, <2>1 DEF QueueInv, DisconnectLast
<1> QED
  BY <1>5, <1>6, <1>7 DEF QueueInv

\* An answer of client c joins the queue.
LEMMA QueueJoined ==
  ASSUME CoreInv, QueueInv, NEW m \in MsgType, Unseen' = Append(Unseen, m),
         m.cl \in valid, valid' = valid, dropped' = dropped,
         \A c \in Receivers : okd[c] \subseteq okd'[c],
         left \subseteq left',
         m.type = "OK" => m.no \in okd'[m.cl],
         m.type = "DISC" => m.cl \in left',
         m.type # "DISC" => m.cl \notin left
  PROVE  QueueInv'
<1>1. Len(Unseen) \in Nat /\ Queued' = 1..Len(Unseen) + 1
  BY QueueType DEF Queued
<1>2. \A i \in Queued' : \/ i \in Queued /\ Unseen'[i] = Unseen[i]
                         \/ i = Len(Unseen) + 1 /\ Unseen'[i] = m
  BY <1>1, QueueType DEF Queued
<1>3. \A i \in Queued : Unseen[i].cl \in Receivers
  BY QueueType DEF MsgType
<1>4. QueueHonest'
  BY <1>2, <1>3 DEF QueueInv, QueueHonest
<1>5. QueueKnown'
  BY <1>2 DEF QueueInv, QueueKnown
<1>6. DisconnectLast'
  <2> SUFFICES ASSUME NEW i \in Queued', NEW j \in Queued', i < j,
                      Unseen'[i].type = "DISC", Unseen'[i].cl = Unseen'[j].cl
               PROVE  Unseen'[j].type = "DISC"
    BY DEF DisconnectLast
  <2>1. i \in Queued /\ Unseen'[i] = Unseen[i]
    BY <1>1, <1>2
  <2>2. CASE j \in Queued /\ Unseen'[j] = Unseen[j]
    BY <2>1, <2>2 DEF QueueInv, DisconnectLast
  <2>3. CASE Unseen'[j] = m
    BY <2>1, <2>3 DEF QueueInv, QueueHonest
  <2> QED
    BY <1>2, <2>2, <2>3
<1> QED
  BY <1>4, <1>5, <1>6 DEF QueueInv

-----------------------------------------------------------------------------
(* Steps of the slice table. *)

\* Slices whose ready sets do not grow keep ReadyAccounted while nobody stops
\* being known.
LEMMA ReadyKept ==
  ASSUME CoreInv, ReadyAccounted,
         \A c \in Receivers : okd[c] \subseteq okd'[c],
         valid \cup dropped \subseteq valid' \cup dropped',
         \A s \in Slots :
           \/ slices'[s].ready = {}
           \/ /\ slices'[s].state = slices[s].state
              /\ slices'[s].no = slices[s].no
              /\ slices'[s].ready = slices[s].ready
  PROVE  ReadyAccounted'
<1> SUFFICES ASSUME NEW s \in Slots, slices'[s].state = "Xmitted", NEW r \in slices'[s].ready
             PROVE  slices'[s].no \in okd'[r] /\ r \in valid' \cup dropped'
  BY DEF ReadyAccounted, Pending
<1>1. /\ slices[s].state = "Xmitted" /\ r \in slices[s].ready
      /\ slices'[s].no = slices[s].no
  OBVIOUS
<1>2. slices[s].no \in okd[r] /\ r \in valid \cup dropped
  BY <1>1 DEF ReadyAccounted, Pending
<1>3. r \in Receivers
  BY <1>1, SlicesOK DEF SliceOK, SliceType
<1> QED
  BY <1>1, <1>2, <1>3

-----------------------------------------------------------------------------
(* Each kind of step preserves ReleaseInv. *)

LEMMA HandleMessageRelease ==
  ASSUME ReleaseInv, HandleNextMessage, okd' = okd, left' = left, dropped' = dropped
  PROVE  ReadyAccounted' /\ QueueInv'
<1> DEFINE m == Head(msgs)
<1>1. Unseen # <<>> /\ Unseen' = Tail(Unseen) /\ m = Head(Unseen)
  BY Taking DEF ReleaseInv, HandleNextMessage
<1>2. m = Unseen[1] /\ 1 \in Queued /\ m \in MsgType
  BY <1>1, QueueType DEF ReleaseInv, Queued
<1> HIDE DEF m
<1>3. CASE HandleOk(m)
  <2>1. valid' = valid
    BY <1>3 DEF HandleOk, MarkAnswered
  <2>2. QueueInv'
    BY <1>1, <2>1, QueueTaken DEF ReleaseInv
  <2>3. m.no \in okd[m.cl] /\ m.cl \in valid \cup dropped
    BY <1>2, <1>3 DEF ReleaseInv, QueueInv, QueueHonest, QueueKnown, HandleOk
  <2>4. \A s \in Slots :
          /\ slices'[s].state = slices[s].state /\ slices'[s].no = slices[s].no
          /\ \/ slices'[s].ready = slices[s].ready
             \/ slices[s].no = m.no /\ slices'[s].ready = slices[s].ready \cup {m.cl}
    <3> SUFFICES ASSUME NEW s \in Slots
                 PROVE  /\ slices'[s].state = slices[s].state /\ slices'[s].no = slices[s].no
                        /\ \/ slices'[s].ready = slices[s].ready
                           \/ slices[s].no = m.no /\ slices'[s].ready = slices[s].ready \cup {m.cl}
      OBVIOUS
    <3>1. slices[s] \in SliceType
      BY SlicesOK DEF ReleaseInv, SliceOK
    <3> QED
      BY <1>3, <3>1 DEF HandleOk, FindSlice, SliceType
  <2>5. ReadyAccounted'
    BY <2>1, <2>3, <2>4 DEF ReleaseInv, ReadyAccounted, Pending
  <2> QED
    BY <2>2, <2>5
<1>4. CASE HandleRetransmit(m)
  <2>1. valid' = valid
    BY <1>4 DEF HandleRetransmit, MarkAnswered
  <2>2. QueueInv'
    BY <1>1, <2>1, QueueTaken DEF ReleaseInv
  <2>3. \A s \in Slots :
          /\ slices'[s].state = slices[s].state /\ slices'[s].no = slices[s].no
          /\ slices'[s].ready = slices[s].ready
    <3> SUFFICES ASSUME NEW s \in Slots
                 PROVE  /\ slices'[s].state = slices[s].state /\ slices'[s].no = slices[s].no
                        /\ slices'[s].ready = slices[s].ready
      OBVIOUS
    <3>1. slices[s] \in SliceType
      BY SlicesOK DEF ReleaseInv, SliceOK
    <3> QED
      BY <1>4, <3>1 DEF HandleRetransmit, FindSlice, SliceType
  <2>4. ReadyAccounted'
    BY <2>1, <2>3, ReadyKept DEF ReleaseInv
  <2> QED
    BY <2>2, <2>4
<1>5. CASE HandleDisconnect(m)
  <2>1. valid' = valid \ {m.cl} /\ m.type = "DISC"
    BY <1>5 DEF HandleDisconnect, RemoveParticipants
  <2>2. QueueInv'
    BY <1>1, <2>1, QueueTaken DEF ReleaseInv
  <2>3. \A s \in Slots :
          /\ slices'[s].state = slices[s].state /\ slices'[s].no = slices[s].no
          /\ slices'[s].ready = slices[s].ready \ {m.cl}
    <3> SUFFICES ASSUME NEW s \in Slots
                 PROVE  /\ slices'[s].state = slices[s].state /\ slices'[s].no = slices[s].no
                        /\ slices'[s].ready = slices[s].ready \ {m.cl}
      OBVIOUS
    <3>1. slices[s] \in SliceType
      BY SlicesOK DEF ReleaseInv, SliceOK
    <3> QED
      BY <1>5, <3>1 DEF HandleDisconnect, SliceType
  <2>4. ReadyAccounted'
    BY <2>1, <2>3 DEF ReleaseInv, ReadyAccounted, Pending
  <2> QED
    BY <2>2, <2>4
<1> QED
  BY <1>3, <1>4, <1>5 DEF HandleNextMessage, m

LEMMA DispatcherRelease ==
  ASSUME ReleaseInv, DispatcherStep
  PROVE  ReadyAccounted' /\ QueueInv'
<1>1. okd' = okd /\ left' = left /\ dropped \subseteq dropped'
  BY DEF DispatcherStep
<1>2. CASE HandleNextMessage
  <2>1. dropped' = dropped
    BY <1>2 DEF DispatcherStep, HandleNextMessage
  <2> QED
    BY <1>1, <1>2, <2>1, HandleMessageRelease
<1>3. CASE ReReply \/ BlockOnData \/ Finish \/ Wait \/ Wake
  <2>1. valid' = valid /\ slices' = slices /\ Unseen' = Unseen
    BY <1>3 DEF ReReply, BlockOnData, Finish, Wait, Wake, rcVars, Unseen, dbVars
  <2> QED
    BY <1>1, <2>1, QueueKept, ReadyKept DEF ReleaseInv
<1>4. ASSUME NEW s \in Slots, Ack(s) \/ Rexmit(s) \/ ReqackAnswered(s)
      PROVE  ReadyAccounted' /\ QueueInv'
  <2>1. valid' = valid /\ Unseen' = Unseen
    BY <1>4 DEF Ack, Rexmit, ReqackAnswered, rcVars, Unseen, dbVars
  <2>2. slices[s] \in SliceType
    BY SlicesOK DEF ReleaseInv, SliceOK
  <2>3. \A t \in Slots \ {s} : slices'[t] = slices[t]
    BY <1>4 DEF Ack, Rexmit, ReqackAnswered, ReleaseInv, CoreInv, SenderTypeOK
  <2>4. \/ slices'[s].ready = {}
        \/ /\ slices'[s].state = slices[s].state /\ slices'[s].no = slices[s].no
           /\ slices'[s].ready = slices[s].ready
    <3>1. slices \in [Slots -> SliceType]
      BY DEF ReleaseInv, CoreInv, SenderTypeOK
    <3>2. CASE Ack(s)
      BY <3>1, <3>2 DEF Ack, FreeSlice
    <3>3. CASE Rexmit(s)
      BY <2>2, <3>1, <3>3 DEF Rexmit, SliceType
    <3>4. CASE ReqackAnswered(s)
      BY <2>2, <3>1, <3>4, NewRoundKeeps DEF ReqackAnswered
    <3> QED
      BY <1>4, <3>2, <3>3, <3>4
  <2> QED
    BY <1>1, <2>1, <2>3, <2>4, QueueKept, ReadyKept DEF ReleaseInv
<1>5. ASSUME NEW s \in Slots, Expire(s)
      PROVE  ReadyAccounted' /\ QueueInv'
  <2>1. Unseen' = Unseen /\ dropped' = dropped \cup (valid \ valid')
    BY <1>5 DEF Expire, DispatcherStep, rcVars, Unseen
  <2>2. slices[s] \in SliceType /\ slices \in [Slots -> SliceType]
    BY SlicesOK DEF ReleaseInv, SliceOK, CoreInv, SenderTypeOK
  <2>3. \A t \in Slots \ {s} : slices'[t] = slices[t]
    BY <1>5, <2>2 DEF Expire
  <2>4. /\ slices'[s].state = slices[s].state /\ slices'[s].no = slices[s].no
        /\ slices'[s].ready = slices[s].ready
    <3>1. slices' = slices \/ slices' = [slices EXCEPT ![s] = NewRound(NextRound(slices[s]))]
      BY <1>5 DEF Expire
    <3> QED
      BY <2>2, <3>1, NewRoundKeeps
  <2> QED
    BY <1>1, <2>1, <2>3, <2>4, QueueKept, ReadyKept DEF ReleaseInv
<1>6. ASSUME NEW s \in Slots, NEW n \in 0..MaxSlice, NewSlice(s, n)
      PROVE  ReadyAccounted' /\ QueueInv'
  <2>1. valid' = valid /\ Unseen' = Unseen
    BY <1>6 DEF NewSlice, rcVars, Unseen, dbVars
  <2>2. \A t \in Slots : slices'[t] = slices[t] \/ slices'[t].ready = {}
    BY <1>6 DEF NewSlice, FreeSlice, ReleaseInv, CoreInv, SenderTypeOK
  <2> QED
    BY <1>1, <2>1, <2>2, QueueKept, ReadyKept DEF ReleaseInv
<1> QED
  BY <1>2, <1>3, <1>4, <1>5, <1>6 DEF DispatcherStep, Dispatcher

LEMMA ReceiverRelease ==
  ASSUME Reorder = FALSE, ReleaseInv, NEW r \in Receivers, ReceiverStep(r)
  PROVE  ReadyAccounted' /\ QueueInv'
<1>1. slices' = slices /\ valid' = valid /\ dropped' = dropped
  BY DEF ReceiverStep, AnswerOk, AnswerRetransmit, Disconnect, RcLookup, dbVars, envVars
<1>2. okd \in [Receivers -> SUBSET Nat] /\ sliceNo \in Nat
  BY DEF ReleaseInv, CoreInv, SenderTypeOK, EnvTypes
<1>3. CASE \E no \in 0..sliceNo - 1 : AnswerOk(r, no)
  <2>1. PICK no \in 0..sliceNo - 1 : AnswerOk(r, no)
    BY <1>3
  <2>2. OkMsg(r, no) \in MsgType /\ OkMsg(r, no).type = "OK"
        /\ OkMsg(r, no).cl = r /\ OkMsg(r, no).no = no
    BY <1>2 DEF OkMsg, MsgType
  <2>3. /\ Unseen' = Append(Unseen, OkMsg(r, no)) /\ r \in valid /\ r \notin left
        /\ left' = left /\ okd' = [okd EXCEPT ![r] = @ \cup {no}]
    BY <2>1, <2>2, LookingUp DEF AnswerOk, RcLookup, ReleaseInv
  <2>4. no \in okd'[r] /\ \A c \in Receivers : okd[c] \subseteq okd'[c]
    BY <1>2, <2>3
  <2> QED
    BY <1>1, <2>2, <2>3, <2>4, QueueJoined, ReadyKept DEF ReleaseInv
<1>4. CASE \E s \in Slots : \E have \in SUBSET (0..MaxSlice - 1) : AnswerRetransmit(r, s, have)
  <2>1. PICK s \in Slots, have \in SUBSET (0..MaxSlice - 1) : AnswerRetransmit(r, s, have)
    BY <1>4
  <2> DEFINE m == RetransmitMsg(r, slices[s].no, have)
  <2>2. slices[s].no \in Nat
    BY <2>1, SlicesOK DEF AnswerRetransmit, Pending, SliceOK, ReleaseInv
  <2>3. m \in MsgType /\ m.type = "RETR" /\ m.cl = r
    BY <2>2 DEF RetransmitMsg, MsgType
  <2>4. /\ Unseen' = Append(Unseen, m) /\ r \in valid /\ r \notin left
        /\ left' = left /\ okd' = okd
    BY <2>1, <2>3, LookingUp DEF AnswerRetransmit, RcLookup, envVars, ReleaseInv
  <2> HIDE DEF m
  <2> QED
    BY <1>1, <2>3, <2>4, QueueJoined, ReadyKept DEF ReleaseInv
<1>5. CASE Disconnect(r)
  <2> DEFINE m == DisconnectMsg(r)
  <2>1. m \in MsgType /\ m.type = "DISC" /\ m.cl = r
    BY DEF DisconnectMsg, MsgType
  <2>2. /\ Unseen' = Append(Unseen, m) /\ r \in valid
        /\ left' = left \cup {r} /\ okd' = okd
    BY <1>5, <2>1, LookingUp DEF Disconnect, RcLookup, ReleaseInv
  <2> HIDE DEF m
  <2> QED
    BY <1>1, <2>1, <2>2, QueueJoined, ReadyKept DEF ReleaseInv
<1> QED
  BY <1>3, <1>4, <1>5 DEF ReceiverStep

LEMMA ReleaseStepInv ==
  ASSUME Reorder = FALSE, ReleaseInv, [Next]_allVars
  PROVE  ReleaseInv'
<1>1. CoreInv' /\ EnvTypes'
  BY EnvMoves, CoreStep, EnvTypesStep DEF ReleaseInv
<1>2. CASE DispatcherStep
  BY <1>1, <1>2, DispatcherRelease DEF ReleaseInv
<1>3. CASE LocalReaderStep \/ UNCHANGED allVars
  <2>1. /\ slices' = slices /\ Unseen' = Unseen /\ valid' = valid
        /\ okd' = okd /\ left' = left /\ dropped' = dropped
    BY <1>3 DEF LocalReaderStep, LocalReader, LocalRead, LocalEof, LocalStop,
                dbVars, envVars, allVars, vars, sendVars, rcVars, Unseen
  <2> QED
    BY <1>1, <2>1, QueueKept, ReadyKept DEF ReleaseInv
<1>4. CASE \E r \in Receivers : ReceiverStep(r)
  BY <1>1, <1>4, ReceiverRelease DEF ReleaseInv
<1>5. CASE RcStep
  <2>1. /\ slices' = slices /\ Unseen' = Unseen /\ valid' = valid
        /\ okd' = okd /\ left' = left /\ dropped' = dropped
    BY <1>5, Pushing DEF RcStep, RcPush, dbVars, envVars, ReleaseInv
  <2> QED
    BY <1>1, <2>1, QueueKept, ReadyKept DEF ReleaseInv
<1> QED
  BY <1>2, <1>3, <1>4, <1>5 DEF Next, Terminated

LEMMA InitRelease == Init => ReleaseInv
<1>1. Init => Pending = {} /\ Queued = {}
  BY DEF Init, SendInit, FreeSlice, Pending, Queued, Unseen
<1>2. Init => CoreInv /\ EnvTypes
  BY InitEnv DEF EnvInv, SenderInv
<1> QED
  BY <1>1, <1>2 DEF ReleaseInv, ReadyAccounted, QueueInv, QueueHonest, QueueKnown, DisconnectLast

LEMMA Release ==
  ASSUME Reorder = FALSE
  PROVE  Spec => []ReleaseInv
<1>1. ReleaseInv /\ [Next]_allVars => ReleaseInv'
  BY ReleaseStepInv
<1> QED
  BY <1>1, InitRelease, PTL DEF Spec

\* Only clients that acknowledged a slice are marked ready on it, and each of
\* them is a participant still or was dropped by the sender: a client that
\* left is nowhere counted (handle_next_message clears its bits).
THEOREM ReadyIsAccounted ==
  ASSUME Reorder = FALSE
  PROVE  Spec => []ReadyAccounted
BY Release, PTL DEF ReleaseInv

-----------------------------------------------------------------------------
(* The release of a slice. *)

\* nr_ready >= nr_participants compares two counters; it means that
\* everybody is ready when nobody else is marked.
LEMMA AllReady ==
  ASSUME ReleaseInv, NEW s \in Ackable, \A r \in dropped : r \notin slices[s].ready
  PROVE  \A r \in valid : slices[s].no \in okd[r]
<1>1. s \in Slots /\ s \in Pending /\ slices[s].nrReady >= nrParticipants
  BY DEF Ackable, Pending
<1>2. slices[s].ready \subseteq valid
  BY <1>1 DEF ReleaseInv, ReadyAccounted
<1>3. /\ slices[s].nrReady = Cardinality(slices[s].ready)
      /\ nrParticipants = Cardinality(valid) /\ valid \in SUBSET Receivers
      /\ slices[s].ready \in SUBSET Receivers
  BY <1>1, <1>2 DEF ReleaseInv, CoreInv, CountersMatch, SenderTypeOK
<1>4. IsFiniteSet(valid) /\ Cardinality(valid) \in Nat /\ Cardinality(slices[s].ready) \in Nat
  BY <1>3, FiniteSubset
<1>5. Cardinality(slices[s].ready) <= Cardinality(valid)
      /\ (Cardinality(valid) = Cardinality(slices[s].ready) => valid = slices[s].ready)
  BY <1>2, <1>4, FS_Subset
<1>6. valid = slices[s].ready
  BY <1>1, <1>3, <1>4, <1>5
<1> QED
  BY <1>1, <1>6 DEF ReleaseInv, ReadyAccounted

LEMMA ReleaseStepRule ==
  ASSUME ReleaseInv, [Next]_allVars
  PROVE  ReleaseStep
<1> SUFFICES ASSUME NEW s \in Slots, slices[s].state = "Xmitted", slices'[s].state = "Free",
                    \A r \in dropped : r \notin slices[s].ready
             PROVE  \A r \in valid : slices[s].no \in okd[r]
  BY DEF ReleaseStep
<1>1. slices \in [Slots -> SliceType]
  BY DEF ReleaseInv, CoreInv, SenderTypeOK
<1>2. ~ (slices' = slices)
  OBVIOUS
<1>3. DispatcherStep
  BY <1>2 DEF Next, Terminated, LocalReaderStep, LocalReader, LocalRead, LocalEof, LocalStop,
              RcStep, RcPush, ReceiverStep, AnswerOk, AnswerRetransmit, Disconnect, RcLookup,
              allVars, vars, sendVars
<1>4. ~ HandleNextMessage
  <2>1. \A m : HandleOk(m) \/ HandleRetransmit(m) \/ HandleDisconnect(m)
                 => slices'[s].state = slices[s].state
    <3> SUFFICES ASSUME NEW m, HandleOk(m) \/ HandleRetransmit(m) \/ HandleDisconnect(m)
                 PROVE  slices'[s].state = slices[s].state
      OBVIOUS
    <3>1. slices[s] \in SliceType
      BY <1>1
    <3>2. CASE HandleOk(m)
      BY <3>1, <3>2 DEF HandleOk, SliceType
    <3>3. CASE HandleRetransmit(m)
      BY <3>1, <3>3 DEF HandleRetransmit, SliceType
    <3>4. CASE HandleDisconnect(m)
      BY <3>1, <3>4 DEF HandleDisconnect, SliceType
    <3> QED
      BY <3>2, <3>3, <3>4
  <2> QED
    BY <2>1 DEF HandleNextMessage
<1>5. ~ (ReReply \/ BlockOnData \/ Finish \/ Wait \/ Wake)
  BY <1>2 DEF ReReply, BlockOnData, Finish, Wait, Wake
<1>6. ASSUME NEW t \in Slots, Rexmit(t) \/ ReqackAnswered(t) \/ Expire(t)
      PROVE  FALSE
  <2>1. slices[t] \in SliceType
    BY <1>1
  <2>2. CASE Rexmit(t)
    <3>1. slices'[t].state = slices[t].state /\ \A u \in Slots \ {t} : slices'[u] = slices[u]
      BY <1>1, <2>1, <2>2 DEF Rexmit, SliceType
    <3> QED
      BY <3>1
  <2>3. CASE ReqackAnswered(t) \/ Expire(t)
    <3>1. \/ slices' = slices
          \/ slices' = [slices EXCEPT ![t] = NewRound(NextRound(slices[t]))]
      BY <2>3 DEF ReqackAnswered, Expire
    <3>2. NewRound(NextRound(slices[t])).state = slices[t].state
      BY <2>1, NewRoundKeeps
    <3> QED
      BY <1>1, <3>1, <3>2
  <2> QED
    BY <1>6, <2>2, <2>3
<1>7. ASSUME NEW t \in Slots, NEW n \in 0..MaxSlice, NewSlice(t, n)
      PROVE  FALSE
  BY <1>1, <1>7 DEF NewSlice, FreeSlice
<1>8. PICK t \in Slots : Ack(t)
  BY <1>3, <1>4, <1>5, <1>6, <1>7 DEF DispatcherStep, Dispatcher
<1>9. t = s /\ s \in Ackable
  BY <1>1, <1>8 DEF Ack, IsOldest
<1> QED
  BY <1>9, AllReady

\* The sender hands the memory of a slice back only when every remaining
\* participant acknowledged it, or a participant it dropped is still marked.
THEOREM ReleaseCorrect ==
  ASSUME Reorder = FALSE
  PROVE  Spec => ReleaseRule
<1>1. ReleaseInv /\ [Next]_allVars => [ReleaseStep]_allVars
  BY ReleaseStepRule
<1> QED
  BY <1>1, Release, PTL DEF Spec, ReleaseRule

-----------------------------------------------------------------------------
(* The drop of a participant. *)

\* Receiver r has an OK of slice no in the queue.
OkQueued(r, no) == \E i \in Queued : Unseen[i].type = "OK" /\ Unseen[i].cl = r /\ Unseen[i].no = no

\* What a participant acknowledged is noted, or about to be: no answer is forgotten between the
\* socket and the slice table.
NoOkLost ==
  \A s \in Pending : \A r \in valid :
    slices[s].no \in okd[r] => r \in slices[s].ready \/ OkQueued(r, slices[s].no)

\* Nobody acknowledged a slice that was not cut.
OkdCut == \A r \in Receivers : \A no \in okd[r] : no < sliceNo

DropInv == EnvInv /\ NoOkLost /\ OkdCut

\* The queue keeps what it has, but for the answer that is taken.
LEMMA QueueSteps ==
  ASSUME CoreInv, SenderMoves, NEW r, NEW no, OkQueued(r, no)
  PROVE  \/ OkQueued(r, no)'
         \/ HandleNextMessage /\ Head(msgs).type = "OK" /\ Head(msgs).cl = r /\ Head(msgs).no = no
<1> USE QueueType
<1>1. PICK i \in Queued : Unseen[i].type = "OK" /\ Unseen[i].cl = r /\ Unseen[i].no = no
  BY DEF OkQueued
<1>2. CASE Unseen' = Unseen
  BY <1>1, <1>2 DEF OkQueued, Queued
<1>3. CASE HandleNextMessage
  <2>1. Unseen # <<>> /\ Unseen' = Tail(Unseen) /\ Head(Unseen) = Head(msgs)
    BY <1>3, Taking DEF HandleNextMessage
  <2>2. CASE i = 1
    BY <1>1, <1>3, <2>1, <2>2
  <2>3. CASE i # 1
    <3>1. i - 1 \in Queued' /\ Unseen'[i - 1] = Unseen[i]
      BY <2>1, <2>3 DEF Queued
    <3> QED
      BY <1>1, <3>1 DEF OkQueued
  <2> QED
    BY <2>2, <2>3
<1>4. CASE \E m \in MsgType : RcLookup(m)
  <2>1. PICK m \in MsgType : Unseen' = Append(Unseen, m)
    BY <1>4, LookingUp
  <2>2. i \in Queued' /\ Unseen'[i] = Unseen[i]
    BY <2>1 DEF Queued
  <2> QED
    BY <1>1, <2>2 DEF OkQueued
<1>5. CASE RcPush
  BY <1>2, <1>5, Pushing
<1>6. CASE LocalReader \/ UNCHANGED senderVars \/ (Dispatcher /\ ~HandleNextMessage)
  <2>1. Unseen' = Unseen
    BY <1>6 DEF LocalReader, LocalRead, LocalEof, LocalStop, senderVars, rcVars, Unseen, Dispatcher,
                ReReply, BlockOnData, Finish, Wait, Wake, Ack, Rexmit, ReqackAnswered, Expire, NewSlice
  <2> QED
    BY <1>2, <2>1
<1> QED
  BY <1>3, <1>4, <1>5, <1>6 DEF SenderMoves, Dispatcher

\* Who is marked ready stays marked while it is a participant.
LEMMA ReadySteps ==
  ASSUME CoreInv, SenderMoves, NEW s \in Slots, slices'[s].state = "Xmitted",
         slices[s].state = "Xmitted", NEW r \in slices[s].ready, r \in valid'
  PROVE  slices'[s].no = slices[s].no /\ r \in slices'[s].ready
<1>1. slices \in [Slots -> SliceType] /\ slices[s] \in SliceType
  BY DEF CoreInv, SenderTypeOK
<1>2. CASE HandleNextMessage
  <2> DEFINE m == Head(msgs)
  <2>1. HandleOk(m) \/ HandleRetransmit(m) \/ HandleDisconnect(m)
    BY <1>2 DEF HandleNextMessage
  <2> HIDE DEF m
  <2>2. CASE HandleOk(m)
    BY <1>1, <2>2 DEF HandleOk, SliceType
  <2>3. CASE HandleRetransmit(m)
    BY <1>1, <2>3 DEF HandleRetransmit, SliceType
  <2>4. CASE HandleDisconnect(m)
    <3>1. r # m.cl
      BY <2>4 DEF HandleDisconnect, RemoveParticipants
    <3> QED
      BY <1>1, <2>4, <3>1 DEF HandleDisconnect, SliceType
  <2> QED
    BY <2>1, <2>2, <2>3, <2>4
<1>3. CASE slices' = slices
  BY <1>3
<1>4. ASSUME NEW t \in Slots, Ack(t) \/ Rexmit(t) \/ ReqackAnswered(t) \/ Expire(t)
      PROVE  slices'[s].no = slices[s].no /\ r \in slices'[s].ready
  <2>1. slices[t] \in SliceType
    BY <1>1
  <2>2. CASE Ack(t)
    BY <1>1, <2>2 DEF Ack, FreeSlice
  <2>3. CASE Rexmit(t)
    BY <1>1, <2>1, <2>3 DEF Rexmit, SliceType
  <2>4. CASE ReqackAnswered(t) \/ Expire(t)
    <3>1. slices' = slices \/ slices' = [slices EXCEPT ![t] = NewRound(NextRound(slices[t]))]
      BY <2>4 DEF ReqackAnswered, Expire
    <3>2. NewRound(NextRound(slices[t])).no = slices[t].no
          /\ NewRound(NextRound(slices[t])).ready = slices[t].ready
      BY <2>1, NewRoundKeeps
    <3> QED
      BY <1>1, <3>1, <3>2
  <2> QED
    BY <1>4, <2>2, <2>3, <2>4
<1>5. ASSUME NEW t \in Slots, NEW n \in 0..MaxSlice, NewSlice(t, n)
      PROVE  slices'[s].no = slices[s].no /\ r \in slices'[s].ready
  <2>1. slices[t].state # "Xmitted"
    BY <1>5 DEF NewSlice, IsFreeSlot
  <2>2. slices'[s] = slices[s]
    BY <1>1, <1>5, <2>1 DEF NewSlice
  <2> QED
    BY <2>2
<1>6. CASE LocalReader \/ RcPush \/ (\E m \in MsgType : RcLookup(m)) \/ UNCHANGED senderVars
  <2>1. slices' = slices
    BY <1>6 DEF LocalReader, LocalRead, LocalEof, LocalStop, RcPush, RcLookup, senderVars
  <2> QED
    BY <1>3, <2>1
<1>7. CASE ReReply \/ BlockOnData \/ Finish \/ Wait \/ Wake
  <2>1. slices' = slices
    BY <1>7 DEF ReReply, BlockOnData, Finish, Wait, Wake
  <2> QED
    BY <1>3, <2>1
<1> QED
  BY <1>2, <1>4, <1>5, <1>6, <1>7 DEF SenderMoves, Dispatcher

\* The answer taken from the queue marks its sender ready in every slot of its slice.
LEMMA OkNoted ==
  ASSUME CoreInv, HandleNextMessage, Head(msgs).type = "OK",
         NEW s \in Pending, slices[s].no = Head(msgs).no
  PROVE  Head(msgs).cl \in slices'[s].ready
<1>1. slices[s] \in SliceType /\ s \in FindSlice(Head(msgs).no)
  BY DEF CoreInv, SenderTypeOK, Pending, FindSlice
<1>2. HandleOk(Head(msgs))
  BY DEF HandleNextMessage, HandleRetransmit, HandleDisconnect
<1> QED
  BY <1>1, <1>2 DEF HandleOk, SliceType, Pending

\* A step acknowledges at most one slice, and queues the OK.
LEMMA Acknowledged ==
  ASSUME DropInv, [Next]_allVars, NEW r \in Receivers, NEW no \in okd'[r]
  PROVE  no \in okd[r] \/ (no < sliceNo /\ OkQueued(r, no)')
<1>1. okd \in [Receivers -> SUBSET Nat] /\ CoreInv /\ sliceNo \in Nat
  BY DEF DropInv, EnvInv, SenderInv, CoreInv, SenderTypeOK, EnvTypes
<1>2. CASE okd' = okd
  BY <1>2
<1>3. ASSUME NEW c \in Receivers, NEW k \in 0..sliceNo - 1, AnswerOk(c, k)
      PROVE  no \in okd[r] \/ (no < sliceNo /\ OkQueued(r, no)')
  <2>1. okd' = [okd EXCEPT ![c] = @ \cup {k}]
    BY <1>3 DEF AnswerOk
  <2>2. CASE r # c \/ no # k
    BY <1>1, <2>1, <2>2
  <2>3. CASE r = c /\ no = k
    <3>1. OkMsg(c, k) \in MsgType /\ RcLookup(OkMsg(c, k))
      BY <1>1, <1>3, AnswersTyped DEF AnswerOk
    <3>2. Unseen \in Seq(MsgType) /\ Unseen' = Append(Unseen, OkMsg(c, k))
      BY <1>1, <3>1, LookingUp, QueueType
    <3>3. Len(Unseen) + 1 \in Queued' /\ Unseen'[Len(Unseen) + 1] = OkMsg(c, k)
      BY <3>2 DEF Queued
    <3>4. OkQueued(r, no)'
      BY <2>3, <3>3 DEF OkQueued, OkMsg
    <3> QED
      BY <1>1, <2>3, <3>4
  <2> QED
    BY <2>2, <2>3
<1>4. \/ okd' = okd
      \/ \E c \in Receivers : \E k \in 0..sliceNo - 1 : AnswerOk(c, k)
  <2>1. CASE \E c \in Receivers : ReceiverStep(c)
    BY <2>1 DEF ReceiverStep, AnswerRetransmit, Disconnect, envVars
  <2>2. CASE DispatcherStep \/ LocalReaderStep \/ RcStep \/ UNCHANGED allVars
    BY <2>2 DEF DispatcherStep, LocalReaderStep, RcStep, allVars, envVars
  <2> QED
    BY <2>1, <2>2 DEF Next, Terminated
<1> QED
  BY <1>2, <1>3, <1>4

LEMMA DropInvStep ==
  ASSUME DropInv, [Next]_allVars
  PROVE  DropInv'
<1>1. CoreInv /\ SenderMoves /\ EnvInv'
  BY EnvStep, EnvMoves DEF DropInv, EnvInv, SenderInv
<1>2. /\ valid \in SUBSET Receivers /\ okd \in [Receivers -> SUBSET Nat]
      /\ okd' \in [Receivers -> SUBSET Nat]
  BY <1>1 DEF DropInv, EnvInv, SenderInv, CoreInv, SenderTypeOK, EnvTypes
<1>3. sliceNo \in Nat /\ (sliceNo' = sliceNo \/ sliceNo' = sliceNo + 1) /\ valid' \subseteq valid
  BY <1>1, SlotKinds
<1>4. OkdCut'
  <2> SUFFICES ASSUME NEW r \in Receivers, NEW no \in okd'[r] PROVE no < sliceNo'
    BY DEF OkdCut
  <2>1. no \in Nat /\ no < sliceNo
    BY <1>2, <1>3, Acknowledged DEF DropInv, OkdCut
  <2> QED
    BY <1>3, <2>1
<1>5. NoOkLost'
  <2> SUFFICES ASSUME NEW s \in Pending', NEW r \in valid', NEW no, no = slices'[s].no, no \in okd'[r]
               PROVE  r \in slices'[s].ready \/ OkQueued(r, no)'
    BY DEF NoOkLost, OkQueued
  <2>1. r \in Receivers /\ r \in valid
    BY <1>2, <1>3
  <2>2. CASE no \notin okd[r]
    BY <2>1, <2>2, Acknowledged
  <2>3. CASE no \in okd[r]
    <3>1. no \in Nat /\ no < sliceNo
      BY <1>2, <2>1, <2>3 DEF DropInv, OkdCut
    <3>2. no # sliceNo
      BY <1>3, <3>1
    <3>3. s \in Pending /\ no = slices[s].no
      BY <1>1, <3>2, SlotKinds
    <3>4. r \in slices[s].ready \/ OkQueued(r, no)
      BY <2>1, <2>3, <3>3 DEF DropInv, NoOkLost
    <3>5. CASE r \in slices[s].ready
      BY <1>1, <3>3, <3>5, ReadySteps DEF Pending
    <3>6. CASE OkQueued(r, no)
      <4>1. CASE OkQueued(r, no)'
        BY <4>1
      <4>2. CASE HandleNextMessage /\ Head(msgs).type = "OK" /\ Head(msgs).cl = r /\ Head(msgs).no = no
        BY <1>1, <3>3, <4>2, OkNoted
      <4> QED
        BY <1>1, <3>6, <4>1, <4>2, QueueSteps
    <3> QED
      BY <3>4, <3>5, <3>6
  <2> QED
    BY <2>2, <2>3
<1> QED
  BY <1>1, <1>4, <1>5 DEF DropInv

LEMMA DropStepRule ==
  ASSUME DropInv, [Next]_allVars
  PROVE  DropStep
<1> SUFFICES ASSUME NEW r \in dropped' \ dropped
             PROVE  \/ \E s \in Pending : slices[s].no \notin okd[r]
                    \/ \E i \in 1..Len(Unseen) : Unseen[i].type = "OK" /\ Unseen[i].cl = r
  BY DEF DropStep
<1>1. dropped' = dropped \/ (DispatcherStep /\ pc = "expired" /\ dropped' = dropped \cup (valid \ valid'))
  <2>1. CASE \E c \in Receivers : ReceiverStep(c)
    BY <2>1 DEF ReceiverStep, AnswerOk, AnswerRetransmit, Disconnect, envVars
  <2>2. CASE LocalReaderStep \/ RcStep \/ UNCHANGED allVars
    BY <2>2 DEF LocalReaderStep, RcStep, allVars, envVars
  <2>3. CASE DispatcherStep
    BY <2>3 DEF DispatcherStep
  <2> QED
    BY <2>1, <2>2, <2>3 DEF Next, Terminated
<1>2. DispatcherStep /\ pc = "expired" /\ r \in valid /\ r \notin valid'
  BY <1>1
<1>3. PICK s \in Slots : Expire(s)
  BY <1>2 DEF DispatcherStep, Dispatcher, HandleNextMessage, ReReply, BlockOnData, Finish, Wait, Wake,
              Ack, Rexmit, ReqackAnswered, NewSlice, AtAck, AtRexmit, AtReqack, AtFill
<1>4. r \in ToDrop(s) /\ s \in Pending
  BY <1>2, <1>3 DEF Expire, RemoveParticipants, IsOldest
<1>5. r \notin slices[s].ready
  BY <1>4 DEF ToDrop
<1> QED
  BY <1>2, <1>4, <1>5 DEF DropInv, NoOkLost, OkQueued, Queued

\* A participant is dropped only while it owes an acknowledgement of a slice in
\* flight, or its acknowledgement waits in the queue: however the answers of the
\* receivers interleave with the dispatcher, none is lost between the socket and the
\* slice table.
THEOREM DropsCorrect == Spec => DropRule
<1>1. Init => DropInv
  <2>1. Init => EnvInv
    BY InitEnv
  <2>2. Init => NoOkLost /\ OkdCut
    BY DEF Init, SendInit, NoOkLost, OkdCut, Pending, FreeSlice
  <2> QED
    BY <2>1, <2>2 DEF DropInv
<1>2. DropInv /\ [Next]_allVars => DropInv'
  BY DropInvStep
<1>3. DropInv /\ [Next]_allVars => [DropStep]_allVars
  BY DropStepRule
<1> QED
  BY <1>1, <1>2, <1>3, PTL DEF Spec, DropRule

=============================================================================
