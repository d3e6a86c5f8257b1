----------------------------- MODULE Broadcast -----------------------------
(***************************************************************************)
(* What the transfer promises: every receiver's output grows as a prefix   *)
(* of the source, a receiver is done only with all of it, and the sender   *)
(* ends only when every receiver it still counts has got everything.       *)
(***************************************************************************)
EXTENDS Naturals, Sequences

CONSTANTS Receivers, Source   \* the receivers, and the blocks of the source

VARIABLES
  received,       \* blocks each receiver has got in a row
  output,         \* what each has written
  status,         \* "active", "done" or "failed"
  participants,   \* the receivers the sender counts
  sending         \* the sender has not ended

broadcastVars == <<received, output, status, participants, sending>>

BroadcastInit ==
  /\ received = [r \in Receivers |-> 0] /\ output = [r \in Receivers |-> <<>>]
  /\ status = [r \in Receivers |-> "active"]
  /\ participants = Receivers /\ sending = TRUE

Receive(r) ==
  /\ status[r] = "active"
  /\ received'[r] \in received[r] + 1..Source
  /\ received' = [received EXCEPT ![r] = received'[r]]
  /\ UNCHANGED <<output, status, participants, sending>>

Write(r) ==
  /\ status[r] = "active" /\ Len(output[r]) < received[r]
  /\ output' = [output EXCEPT ![r] = Append(@, Len(@) + 1)]
  /\ UNCHANGED <<received, status, participants, sending>>

Finish(r) ==
  /\ status[r] = "active" /\ Len(output[r]) = Source
  /\ status' = [status EXCEPT ![r] = "done"]
  /\ UNCHANGED <<received, output, participants, sending>>

Fail(r) ==
  /\ status[r] = "active"
  /\ status' = [status EXCEPT ![r] = "failed"]
  /\ UNCHANGED <<received, output, participants, sending>>

\* The sender stops counting receivers that have everything, or have failed, and
\* may end at once when nobody is left.
Leave ==
  /\ sending = TRUE
  /\ participants' \in (SUBSET participants) \ {participants}
  /\ \A r \in participants \ participants' : status[r] = "failed" \/ received[r] = Source
  /\ sending' \in BOOLEAN /\ (sending' = FALSE => participants' = {})
  /\ UNCHANGED <<received, output, status>>

End ==
  /\ sending = TRUE /\ sending' = FALSE
  /\ \A r \in participants : received[r] = Source
  /\ UNCHANGED <<received, output, status, participants>>

BroadcastNext ==
  Leave \/ End \/ \E r \in Receivers : Receive(r) \/ Write(r) \/ Finish(r) \/ Fail(r)

Spec == BroadcastInit /\ [][BroadcastNext]_broadcastVars
=============================================================================
