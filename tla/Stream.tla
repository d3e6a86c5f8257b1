------------------------------ MODULE Stream ------------------------------
(***************************************************************************)
(* What the ring promises to the two threads that share it: a bounded      *)
(* stream of bytes, numbered from 1.                                       *)
(***************************************************************************)
EXTENDS Naturals, Sequences

CONSTANT Capacity

VARIABLES
  accepted,    \* bytes taken from the source
  delivered,   \* what came out
  closed,      \* the source said that it has no more
  reader       \* "reading", "finished" at the end of the stream, or "gone" before

streamVars == <<accepted, delivered, closed, reader>>

StreamInit == accepted = 0 /\ delivered = <<>> /\ closed = FALSE /\ reader = "reading"

Accept ==
  /\ ~closed
  /\ accepted' \in accepted + 1..Len(delivered) + Capacity
  /\ UNCHANGED <<delivered, closed, reader>>

Deliver ==
  /\ reader = "reading"
  /\ Len(delivered') \in Len(delivered) + 1..accepted
  /\ delivered' = delivered \o [i \in 1..Len(delivered') - Len(delivered) |-> Len(delivered) + i]
  /\ UNCHANGED <<accepted, closed, reader>>

Close == closed' = TRUE /\ UNCHANGED <<accepted, delivered, reader>>

Finish ==
  /\ reader = "reading" /\ closed /\ Len(delivered) = accepted
  /\ reader' = "finished"
  /\ UNCHANGED <<accepted, delivered, closed>>

Leave == reader = "reading" /\ reader' = "gone" /\ UNCHANGED <<accepted, delivered, closed>>

StreamNext == Accept \/ Deliver \/ Close \/ Finish \/ Leave

Spec == StreamInit /\ [][StreamNext]_streamVars
=============================================================================
