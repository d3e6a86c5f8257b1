---------------------------- MODULE SendDataEnv ----------------------------
(***************************************************************************)
(* The sender's data phase against receivers that may do anything a        *)
(* receiver's code can do: acknowledge any slice sent so far, ask for any  *)
(* of its blocks again as long as it has not acknowledged it, disconnect,  *)
(* or stay silent.  Nothing is assumed of the network, except that the     *)
(* answers of one receiver arrive in the order they were sent unless       *)
(* Reorder says otherwise.                                                 *)
(***************************************************************************)
EXTENDS SendData

CONSTANTS
  MaxRound,   \* bound: no block is asked for again from this round on
  Repeats,    \* receivers may repeat an answer within a round
  Reorder     \* an answer may be overtaken by the disconnection that followed it

ASSUME EnvAssumption == MaxRound \in Nat /\ Repeats \in BOOLEAN /\ Reorder \in BOOLEAN

VARIABLES
  okd,       \* okd[r]: the slices receiver r has acknowledged
  left,      \* receivers that disconnected
  dropped    \* participants the sender dropped

envVars == <<okd, left, dropped>>
allVars == <<vars, envVars>>

Init ==
  /\ SendInit
  /\ okd = [r \in Receivers |-> {}]
  /\ left = {} /\ dropped = {}

-----------------------------------------------------------------------------
(* What a receiver does. *)

\* Without repeats a receiver answers each round of a slice once.
MayAnswer(r, no) ==
  \/ Repeats
  \/ /\ \A i \in 1..Len(Unseen) : Unseen[i].cl # r
     /\ \E s \in Pending : slices[s].no = no /\ r \notin slices[s].answered

AnswerOk(r, no) ==
  /\ r \notin left \/ (Reorder /\ no \in okd[r])
  /\ MayAnswer(r, no)
  /\ RcLookup(OkMsg(r, no))
  /\ okd' = [okd EXCEPT ![r] = @ \cup {no}]
  /\ UNCHANGED <<left, dropped>>

AnswerRetransmit(r, s, have) ==
  /\ s \in Pending /\ slices[s].rxmitId < MaxRound
  /\ r \notin left /\ slices[s].no \notin okd[r]
  /\ have \in SUBSET (0..slices[s].blocks - 1)
  /\ slices[s].blocks > 0 => have # 0..slices[s].blocks - 1
  /\ MayAnswer(r, slices[s].no)
  /\ RcLookup(RetransmitMsg(r, slices[s].no, have))
  /\ UNCHANGED envVars

Disconnect(r) ==
  /\ Repeats \/ r \notin left
  /\ RcLookup(DisconnectMsg(r))
  /\ left' = left \cup {r}
  /\ UNCHANGED <<okd, dropped>>

ReceiverStep(r) ==
  \/ \E no \in 0..sliceNo - 1 : AnswerOk(r, no)
  \/ \E s \in Slots : \E have \in SUBSET (0..MaxSlice - 1) : AnswerRetransmit(r, s, have)
  \/ Disconnect(r)

DispatcherStep ==
  /\ Dispatcher
  /\ dropped' = IF pc = "expired" THEN dropped \cup (valid \ valid') ELSE dropped
  /\ UNCHANGED <<okd, left>>

LocalReaderStep == LocalReader /\ UNCHANGED envVars

RcStep == RcPush /\ UNCHANGED envVars

Terminated == SenderDone /\ UNCHANGED allVars

Next ==
  \/ DispatcherStep
  \/ LocalReaderStep
  \/ RcStep
  \/ \E r \in Receivers : ReceiverStep(r)
  \/ Terminated

Spec == Init /\ [][Next]_allVars

\* The sender's threads are scheduled; receivers owe it nothing.
FairSpec == Spec /\ WF_allVars(DispatcherStep) /\ WF_allVars(LocalReaderStep)

-----------------------------------------------------------------------------
(* Properties. *)

\* Every variable of the sender and of the receivers it deals with keeps its type.
TypeOK ==
  /\ SenderTypeOK
  /\ okd \in [Receivers -> SUBSET Nat]
  /\ left \in SUBSET Receivers /\ dropped \in SUBSET Receivers

\* Only a client that acknowledged a slice is marked ready on it, and whoever
\* is marked ready is a participant or was dropped: a disconnection leaves no
\* bit behind that could stand in for somebody else's answer.
ReadyAccounted ==
  \A s \in Pending :
    /\ \A r \in slices[s].ready : slices[s].no \in okd[r]
    /\ slices[s].ready \subseteq valid \cup dropped

\* A slice leaves the table only when every remaining participant has
\* acknowledged it, unless a dropped participant is still marked ready on it
\* (see FreedOnlyWhenAllAcked for what happens then).
ReleaseStep ==
  \A s \in Slots :
    (slices[s].state = "Xmitted" /\ slices'[s].state = "Free") =>
      \/ \E r \in dropped : r \in slices[s].ready
      \/ \A r \in valid : slices[s].no \in okd[r]
ReleaseRule == [][ReleaseStep]_allVars

\* tests/multi_receiver.rs: "a slice is only freed once ALL participants have
\* acked it".
FreedOnlyWhenAllAcked ==
  [][\A s \in Slots :
       (slices[s].state = "Xmitted" /\ slices'[s].state = "Free") =>
         \A r \in valid : slices[s].no \in okd[r]]_allVars

\* The sender never drops a participant that acknowledged everything it was
\* sent, except that it does not look at acknowledgements that arrived after
\* its wait timed out and are still on their way through its queue.
DropStep ==
  \A r \in dropped' \ dropped :
    \/ \E s \in Pending : slices[s].no \notin okd[r]
    \/ \E i \in 1..Len(Unseen) : Unseen[i].type = "OK" /\ Unseen[i].cl = r
DropRule == [][DropStep]_allVars

\* Whatever the receivers do, silence included, the dispatcher and the local
\* reader come to an end.
Termination == <>SenderDone
=============================================================================
