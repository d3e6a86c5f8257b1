----------------------------- MODULE MCSendData -----------------------------
(* The sender against arbitrary receivers, for TLC. *)
EXTENDS SendDataEnv, TLC

CONSTANTS r1, r2
TwoReceivers == {r1, r2}
OneReceiver  == {r1}
NoReceivers == {}
Symmetry == Permutations(TwoReceivers)
=============================================================================
