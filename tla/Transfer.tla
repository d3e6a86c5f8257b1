----------------------------- MODULE Transfer -----------------------------
(***************************************************************************)
(* The whole data phase: the sender of SendData, one receiver of           *)
(* ReceiveData per participant, and the UDP network between them.          *)
(***************************************************************************)
EXTENDS SendData, ReceiveData

CONSTANTS
  LateReceivers,   \* receivers whose CONNECT_REPLY was lost during negotiation
  MaxLoss,         \* bound: datagrams the network loses
  MaxDup,          \* bound: datagrams the network duplicates, the copy late
  Duplicable,      \* types of the datagrams it may duplicate
  MaxEarly,        \* bound: timeouts that expire with something on its way
  Killable,        \* receivers that may be killed
  GivingUp         \* receivers that may run into their start or receive timeout

ASSUME TransferAssumption ==
  /\ LateReceivers \subseteq LateJoiners
  /\ MaxLoss \in Nat /\ MaxDup \in Nat
  /\ MaxEarly \in Nat /\ Killable \subseteq Receivers /\ GivingUp \subseteq Receivers

VARIABLES
  rcv,       \* the receivers
  up,        \* answers on their way to the sender
  faults,    \* datagrams lost and duplicated and early timeouts so far
  held,      \* copies the network holds back
  dropped    \* participants the sender dropped

netVars == <<up, faults, held>>
transferVars == <<vars, rcv, netVars, dropped>>

Init ==
  /\ SendInit
  /\ rcv = [r \in Receivers |-> NewReceiver(IF r \in LateReceivers THEN "start" ELSE "run")]
  /\ up = EmptyChannel(Receivers)
  /\ faults = [lost |-> 0, dup |-> 0, early |-> 0]
  /\ held = {}
  /\ dropped = {}

\* The sender's variables other than the data channel and the return channel.
senderState == <<async, pc, slices, fillVars, firstSliceAcked, diskVars, freeMem, freeEnd, dbVars>>

\* A timeout expires; it is early unless what it waits for is not on its way.
Expires(quiet) ==
  IF quiet THEN UNCHANGED faults
  ELSE faults.early < MaxEarly /\ faults' = [faults EXCEPT !.early = @ + 1]

-----------------------------------------------------------------------------
(* The sender's threads. *)

Quiet == rcHeld = <<>> /\ \A r \in Receivers : down[r] = <<>> /\ up[r] = <<>>

DispatcherStep ==
  /\ Dispatcher
  /\ Expires(pc = "wait" /\ msgs = <<>> => Quiet)
  /\ dropped' = IF pc = "expired" THEN dropped \cup (valid \ valid') ELSE dropped
  /\ UNCHANGED <<rcv, up, held>>

LocalReaderStep == LocalReader /\ UNCHANGED <<rcv, netVars, dropped>>

\* The answer as the dispatcher sees it, once its sender is looked up.
Incoming(r, m) ==
  IF m.type = "OK" THEN OkMsg(r, m.no)
  ELSE IF m.type = "RETR" THEN RetransmitMsg(r, m.no, m.have)
  ELSE DisconnectMsg(r)

RcStep(r) ==
  /\ up[r] # <<>>
  /\ IF pc # "done" /\ r \in valid
     THEN RcLookup(Incoming(r, Head(up[r])))
     ELSE UNCHANGED vars
  /\ up' = Deliver(up, r)
  /\ UNCHANGED <<rcv, faults, held, dropped>>

RcPushStep == RcPush /\ UNCHANGED <<rcv, netVars, dropped>>

-----------------------------------------------------------------------------
(* The receivers. *)

ReceivePacket(r) ==
  /\ rcv[r].phase \in {"run", "drain"}
  /\ down[r] # <<>> /\ ~Stalls(rcv[r], Head(down[r]))
  /\ \E S \in {ProcessPacket(rcv[r], Head(down[r]))} :
       /\ rcv' = [rcv EXCEPT ![r] = S.rcv]
       /\ up' = Unicast(up, r, S.answers)
  /\ down' = Deliver(down, r)
  /\ UNCHANGED <<senderState, rcVars, faults, held, dropped>>

Sniff(r) ==
  /\ rcv[r].phase = "start" /\ down[r] # <<>>
  /\ rcv' = [rcv EXCEPT ![r] = StartPacket(@, Head(down[r]))]
  /\ down' = Deliver(down, r)
  /\ UNCHANGED <<senderState, rcVars, netVars, dropped>>

\* Nobody reads the socket any more.
Discard(r) ==
  /\ rcv[r].phase \in {"exited", "finished", "dead"} /\ down[r] # <<>>
  /\ down' = Deliver(down, r)
  /\ UNCHANGED <<senderState, rcVars, rcv, netVars, dropped>>

Write(r) ==
  /\ CanWrite(rcv[r])
  /\ rcv' = [rcv EXCEPT ![r] = WriteBlock(@)]
  /\ UNCHANGED <<vars, netVars, dropped>>

\* The network thread waits for a packet and sees none come for as long as a
\* timeout takes.
HearsNothing(r) ==
  /\ down[r] # <<>> /\ rcv[r].phase # "start" => ~Stalls(rcv[r], Head(down[r]))
  /\ Expires(down[r] = <<>>)

\* No packet came for --exit-wait after the end marker.
DrainExit(r) ==
  /\ rcv[r].phase = "drain" /\ HearsNothing(r)
  /\ rcv' = [rcv EXCEPT ![r].phase = "exited"]
  /\ UNCHANGED <<vars, up, held, dropped>>

FinishReceiver(r) ==
  /\ CanFinish(rcv[r])
  /\ rcv' = [rcv EXCEPT ![r].phase = "finished"]
  /\ up' = Unicast(up, r, <<Disc>>)
  /\ UNCHANGED <<vars, faults, held, dropped>>

\* --start-timeout and --receive-timeout: no packet came for too long.  A receiver
\* that never heard the sender's address tells nobody (Negotiate says why).
TimesOut(r) ==
  /\ r \in GivingUp /\ HearsNothing(r)
  /\ \/ rcv[r].phase = "start"
     \/ rcv[r].phase \in {"run", "drain"} /\ rcv[r].started
  /\ rcv' = [rcv EXCEPT ![r].phase = "dead"]
  /\ \/ up' = Unicast(up, r, FailingDisconnect)
     \/ rcv[r].phase = "start" /\ UNCHANGED up
  /\ UNCHANGED <<vars, held, dropped>>

Kill(r) ==
  /\ r \in Killable /\ rcv[r].phase \in {"start", "run", "drain", "exited"}
  /\ rcv' = [rcv EXCEPT ![r].phase = "dead"]
  /\ UNCHANGED <<vars, netVars, dropped>>

-----------------------------------------------------------------------------
(* The network. *)

LoseDown(r) ==
  /\ faults.lost < MaxLoss /\ down[r] # <<>>
  /\ down' = Deliver(down, r)
  /\ faults' = [faults EXCEPT !.lost = @ + 1]
  /\ UNCHANGED <<senderState, rcVars, rcv, up, held, dropped>>

LoseUp(r) ==
  /\ faults.lost < MaxLoss /\ up[r] # <<>>
  /\ up' = Deliver(up, r)
  /\ faults' = [faults EXCEPT !.lost = @ + 1]
  /\ UNCHANGED <<vars, rcv, held, dropped>>

\* The network makes a copy of a packet and delivers it at once or any time later.
DupDown(r) ==
  /\ faults.dup < MaxDup /\ down[r] # <<>> /\ Head(down[r]).type \in Duplicable
  /\ faults' = [faults EXCEPT !.dup = @ + 1]
  /\ \/ /\ held' = held \cup {[to |-> r, packet |-> Head(down[r])]}
        /\ UNCHANGED down
     \/ /\ down' = [down EXCEPT ![r] = Arrive(<<Head(@)>>, @)]
        /\ UNCHANGED held
  /\ UNCHANGED <<senderState, rcVars, rcv, up, dropped>>

DeliverCopy(r) ==
  \E h \in held :
    /\ h.to = r
    /\ down' = Unicast(down, r, <<h.packet>>)
    /\ held' = held \ {h}
    /\ UNCHANGED <<senderState, rcVars, rcv, up, faults, dropped>>

-----------------------------------------------------------------------------
ReceiverThreads(r) == ReceivePacket(r) \/ Sniff(r) \/ Discard(r) \/ DrainExit(r)
WriterThread(r)    == Write(r) \/ FinishReceiver(r)
Failure(r)         == TimesOut(r) \/ Kill(r) \/ LoseDown(r) \/ LoseUp(r) \/ DupDown(r) \/ DeliverCopy(r)

Over == SenderDone /\ \A r \in Receivers : rcv[r].phase \in {"finished", "dead"}
Terminated == Over /\ UNCHANGED transferVars

Next ==
  \/ DispatcherStep \/ LocalReaderStep \/ RcPushStep
  \/ \E r \in Receivers :
       RcStep(r) \/ ReceiverThreads(r) \/ WriterThread(r) \/ Failure(r)
  \/ Terminated

Spec == Init /\ [][Next]_transferVars

\* The threads of the sender are scheduled, and of every receiver at least one
\* that can run.
FairSpec ==
  /\ Spec
  /\ WF_transferVars(DispatcherStep) /\ WF_transferVars(LocalReaderStep)
  /\ WF_transferVars(RcPushStep \/ \E r \in Receivers : RcStep(r))
  /\ \A r \in Receivers : WF_transferVars(ReceiverThreads(r) \/ WriterThread(r))

-----------------------------------------------------------------------------
(* Properties. *)

ReceiverType(R) ==
  /\ R.phase \in {"start", "run", "drain", "exited", "finished", "dead"}
  /\ \A i \in 1..RecvSlots :
       /\ R.slots[i].state \in {"Free", "Receiving", "Done"}
       /\ R.slots[i].no \in -1..sliceNo - 1
       /\ R.slots[i].have \subseteq 0..MaxSlice - 1
  /\ R.completed \subseteq 0..sliceNo - 1
  /\ R.produced \in 0..SourceBlocks /\ Written(R) <= R.produced
  /\ R.started \in BOOLEAN /\ R.dataEnd \in BOOLEAN

\* The receivers and the network keep their types; a receiver knows only
\* slices the sender has cut and hands no more than the source to its writer.
TypeOK ==
  /\ \A r \in Receivers : ReceiverType(rcv[r])
  /\ \A r \in Receivers : Len(down[r]) <= ChanCap /\ Len(up[r]) <= ChanCap
  /\ dropped \subseteq Receivers \ valid
  /\ faults.lost \in 0..MaxLoss /\ faults.dup \in 0..MaxDup /\ faults.early \in 0..MaxEarly

\* What a receiver writes is the source, block by block, without a gap, a
\* repetition or a block of another place in the stream, also where parity had to
\* stand in for it.  (Behind the end of a short last block nothing is written.)  A
\* receiver that was dropped, or lost in asynchronous mode more than the parity makes
\* up for, puts later slices in the place of the lost one: it does not report success.
OutputIsPrefix ==
  \A r \in Receivers :
    (r \notin dropped /\ ~async) \/ rcv[r].phase = "finished" =>
      \A i \in 1..Written(rcv[r]) : Padded(i - 1) \/ rcv[r].out[i] = i

\* A receiver that reports success has written the whole source, whatever was
\* lost, whoever was dropped and however early the sender gave up.
CompleteMeansWhole ==
  \A r \in Receivers : rcv[r].phase = "finished" => Written(rcv[r]) = SourceBlocks

\* Slices are completed in the order of their numbers, as the sequential
\* writer needs, by every receiver the sender has not dropped.
CompletedInOrder ==
  \A r \in Receivers \ dropped : \A no \in rcv[r].completed : 0..no \subseteq rcv[r].completed

\* When the dispatcher ends its loop and has dropped nobody, every remaining
\* participant has delivered every slice, end marker included.
SuccessMeansDelivered ==
  pc = "done" /\ dropped = {} => \A r \in valid : rcv[r].completed = 0..sliceNo - 1

\* A slice delivered to the writer never enters the slice table again, so it is
\* neither requested nor delivered twice: a late REQACK of it is answered OK
\* even after its slot was recycled.
ReopenStep ==
  \A r \in Receivers : \A i \in 1..RecvSlots :
    LET old == rcv[r].slots[i]  new == rcv'[r].slots[i]
    IN  new.no # old.no => new.no \notin rcv[r].completed
NeverReopened == [][ReopenStep]_transferVars

\* A receiver that was not dropped and whose network thread has ended gets to
\* its writer's end as well: it does not hang with the data queue never ended.
WriterReleased ==
  \A r \in Receivers \ dropped : rcv[r].phase = "exited" => rcv[r].dataEnd

\* receivedata.rs says of a receiver that saw the end marker before it had
\* every slice: "file is incomplete, waiting for receive timeout".  It keeps
\* its network thread, the only one that can time out.
IncompleteWaitsForTimeout ==
  \A r \in Receivers : rcv[r].phase = "exited" => rcv[r].dataEnd

\* With timeouts that outlast what is on its way, the network, the threads and the
\* retransmissions come to no more than this: outputs that grow as prefixes of the
\* source, receivers that are done with the whole, a sender that ends when all it
\* still counts have everything.
B == INSTANCE Broadcast WITH
       Source <- SourceBlocks,
       received <- [r \in Receivers |-> rcv[r].produced],
       output <- [r \in Receivers |-> rcv[r].out],
       status <- [r \in Receivers |-> IF rcv[r].phase = "finished" THEN "done"
                                      ELSE IF rcv[r].phase = "dead" THEN "failed" ELSE "active"],
       participants <- valid,
       sending <- pc # "done"

ImplementsBroadcast == B!Spec

\* Of a slice of known size no stripe has more blocks missing than parity rows
\* arrived: then it was recovered at once, without a round of retransmission, and
\* whatever the order in which data and parity came.
Covered(sl) ==
  \A stripe \in 0..sl.stripes - 1 :
    Len(Erased(sl, stripe)) <= Cardinality({f.row : f \in {ParityOf(sl, stripe)[k] : k \in 1..Len(ParityOf(sl, stripe))}})
FecSuffices ==
  \A r \in Receivers : \A i \in 1..RecvSlots :
    LET sl == rcv[r].slots[i]
    IN  sl.state = "Receiving" /\ sl.of > 0 /\ sl.fec # <<>> => ~Covered(sl)

\* Every receiver ends with the whole file, and the sender ends.
Delivery == <>(SenderDone /\ \A r \in Receivers : rcv[r].phase = "finished")
=============================================================================
