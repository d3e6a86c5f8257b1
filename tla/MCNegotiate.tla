--------------------------- MODULE MCNegotiate ---------------------------
(* Small instances of the negotiation. *)
EXTENDS Negotiate

CONSTANTS r1, r2

TwoReceivers == {r1, r2}
OneReceiver == {r1}
Nobody == {}

Defaults ==
  [hello |-> TRUE, minReceivers |-> 0, minWait |-> 0, maxWait |-> 0, startTimeout |-> 0,
   autostart |-> 0, pointToPoint |-> FALSE, noPointToPoint |-> FALSE, async |-> FALSE,
   keyboard |-> "none", passive |-> {}]

\* The rules that start a transfer, each alone or with one it competes with.
Options ==
  {Defaults, [Defaults EXCEPT !.hello = FALSE],
   [Defaults EXCEPT !.hello = FALSE, !.minReceivers = 2],
   [Defaults EXCEPT !.minReceivers = 2, !.minWait = 1, !.maxWait = 2],
   [Defaults EXCEPT !.minReceivers = 2, !.startTimeout = 1],
   [Defaults EXCEPT !.hello = FALSE, !.minReceivers = 2, !.startTimeout = 1, !.keyboard = "typing"],
   [Defaults EXCEPT !.minReceivers = 1, !.startTimeout = 1, !.keyboard = "eof"],
   [Defaults EXCEPT !.pointToPoint = TRUE, !.minWait = 1],
   [Defaults EXCEPT !.async = TRUE, !.autostart = 1, !.passive = {r2}],
   [Defaults EXCEPT !.async = TRUE, !.autostart = 1, !.pointToPoint = TRUE],
   [Defaults EXCEPT !.hello = FALSE, !.minWait = 1, !.keyboard = "typing", !.noPointToPoint = TRUE],
   [Defaults EXCEPT !.minReceivers = 1, !.passive = {r2}]}

OnlyDefaults == {Defaults}
===========================================================================
