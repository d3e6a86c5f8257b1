------------------------------- MODULE Udp -------------------------------
(***************************************************************************)
(* The datagram service between the sender and its receivers, as src/ uses *)
(* it: a channel is one queue of datagrams per receiver.  A datagram that  *)
(* finds the queue (the socket's receive buffer) full is dropped by the    *)
(* kernel without notice.  Loss, duplication and late delivery are actions *)
(* of the composition, which bounds them.                                  *)
(***************************************************************************)
EXTENDS Naturals, Sequences

CONSTANT ChanCap  \* datagrams a socket's receive buffer holds

ASSUME ChanCapAssumption == ChanCap \in Nat

\* No datagram on its way to any of the receivers R.
EmptyChannel(R) == [r \in R |-> <<>>]

\* The queue that results when the datagrams pkts arrive behind queue.
Arrive(queue, pkts) ==
  LET all == queue \o pkts
  IN  SubSeq(all, 1, IF Len(all) <= ChanCap THEN Len(all) ELSE ChanCap)

\* One datagram sequence to one receiver.
Unicast(chan, r, pkts) == [chan EXCEPT ![r] = Arrive(@, pkts)]

\* One datagram sequence to the multicast group every receiver joined.
Multicast(chan, pkts) == [r \in DOMAIN chan |-> Arrive(chan[r], pkts)]

\* Delivery of the oldest datagram of receiver r.
Deliver(chan, r) == [chan EXCEPT ![r] = Tail(@)]
=============================================================================
