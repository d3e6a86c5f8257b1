------------------------------- MODULE MCFifo -------------------------------
(* The ring and its queues, for TLC. *)
EXTENDS Fifo
=============================================================================
