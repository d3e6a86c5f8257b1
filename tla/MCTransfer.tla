----------------------------- MODULE MCTransfer -----------------------------
(* The whole data phase, for TLC. *)
EXTENDS Transfer, TLC

CONSTANTS r1, r2
OneReceiver  == {r1}
TwoReceivers == {r1, r2}
Nobody       == {}
Symmetry     == Permutations(TwoReceivers)
=============================================================================
