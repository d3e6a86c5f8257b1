----------------------------- MODULE Negotiate -----------------------------
(***************************************************************************)
(* The rendezvous: the sender announces itself and registers receivers     *)
(* (negotiate.rs, participants.rs), the receivers ask to be registered     *)
(* until they are told a number (receiver.rs), until the sender decides to *)
(* start.  The data phase follows only as far as it still answers          *)
(* receivers that were not told: up to each one's first answer.            *)
(*                                                                         *)
(* A receiver is its address.  Addresses, capabilities and buffer sizes    *)
(* are left out, and so are the packets a receiver sniffs (ReceiveData).   *)
(* Seconds pass at any moment.                                             *)
(***************************************************************************)
EXTENDS Udp, Integers, FiniteSets

CONSTANTS
  Receivers,         \* the addresses of receivers
  Unused,            \* what a slot not in use holds
  MaxClients,        \* slots of the participant table (1024)
  NetConfigs,        \* the options the programs are run with
  GivingUp,          \* receivers that may run into --start-timeout
  DisconnectRetries, \* DISCONNECT is sent so often on a failing exit (5)
  MaxFaults          \* bound: datagrams lost and receivers killed

ASSUME NegotiateAssumption ==
  /\ IsFiniteSet(Receivers) /\ Unused \notin Receivers
  /\ MaxClients \in Nat \ {0} /\ DisconnectRetries \in Nat \ {0}
  /\ GivingUp \subseteq Receivers
  /\ MaxFaults \in Nat

\* --rexmit-hello-interval (off with -1), --min-receivers, --min-wait,
\* --max-wait, --start-timeout, --autostart, --pointopoint, --nopointopoint,
\* --async and the console (none with --nokbd; one at end of file when stdin is
\* /dev/null, say), of the sender; --passive, of the receivers.
NetConfig ==
  [hello : BOOLEAN, minReceivers : Nat, minWait : Nat, maxWait : Nat,
   startTimeout : Nat, autostart : Nat, pointToPoint : BOOLEAN,
   noPointToPoint : BOOLEAN, async : BOOLEAN, keyboard : {"none", "typing", "eof"},
   passive : SUBSET Receivers]

ASSUME NetConfigsAssumption == NetConfigs \subseteq NetConfig

VARIABLES
  net,             \* the options of this run
  pc,              \* where the sender is
  table,           \* the participant table: slot to address
  nrParticipants,  \* the counter kept beside it
  firstConnected,  \* a participant has been seen
  waited,          \* seconds since then
  sinceStart,      \* seconds since the sender was started
  helloTries,      \* HELLOs sent while waiting
  unicast,         \* data goes to one address instead of the group
  answered,        \* participants that answered in the data phase
  rcv,             \* the receivers
  down,            \* datagrams on their way to each of them
  up,              \* datagrams on their way to the sender's sockets
  faults           \* losses and kills so far

tableVars  == <<table, nrParticipants>>
clockVars  == <<firstConnected, waited, sinceStart>>
senderVars == <<net, pc, tableVars, clockVars, helloTries, unicast, answered>>
vars       == <<senderVars, rcv, down, up, faults>>

Clients  == 0..MaxClients - 1
NoClient == -1
Sockets  == {"main", "control"}

NegotiatingPcs == {"announce", "top", "select", "drain"}
EndedPcs       == {"gaveUp", "noParticipants", "fatal", "cancelled"}

Negotiating == pc \in NegotiatingPcs
Ended       == pc \in EndedPcs

Hello    == [type |-> "HELLO"]
Reply(c) == [type |-> "REPLY", cl |-> c]
Request  == [type |-> "REQ"]
Disc     == [type |-> "DISC"]

NotRunning ==
  [phase |-> "off", cl |-> NoClient, server |-> FALSE, rounds |-> 0, hasty |-> FALSE]
Asking     == [NotRunning EXCEPT !.phase = "asking"]

NobodyHeard == [s \in Sockets |-> EmptyChannel(Receivers)]

Init ==
  /\ net \in NetConfigs
  /\ pc = "announce"
  /\ table = [c \in Clients |-> Unused] /\ nrParticipants = 0
  /\ firstConnected = FALSE /\ waited = 0 /\ sinceStart = 0 /\ helloTries = 0
  /\ unicast = FALSE /\ answered = {}
  /\ rcv = [r \in Receivers |-> NotRunning]
  /\ down = EmptyChannel(Receivers) /\ up = NobodyHeard
  /\ faults = 0

-----------------------------------------------------------------------------
(* The participant table. *)

ClientsOf(r) == {c \in Clients : table[c] = r}
Registered   == {r \in Receivers : ClientsOf(r) # {}}
First(S)     == CHOOSE c \in S : \A d \in S : c <= d

\* Mutant: only the first slot is looked at for a known address.
KnownClientsFirst(r) == ClientsOf(r) \cap {0}
KnownClients(r) == ClientsOf(r)

\* With --pointopoint the search ends at the first slot.
FreeClients ==
  {c \in Clients : table[c] = Unused /\ (net.pointToPoint => c = 0)}

\* Mutant: a known receiver is told the number given last.
NumberForNewest(r) ==
  IF KnownClients(r) # {} THEN nrParticipants - 1
  ELSE IF FreeClients # {} THEN First(FreeClients) ELSE NoClient

\* The number a request of r is answered with.
NumberFor(r) ==
  IF KnownClients(r) # {} THEN First(KnownClients(r))
  ELSE IF FreeClients # {} THEN First(FreeClients) ELSE NoClient

AddParticipant(r) ==
  IF KnownClients(r) # {} \/ FreeClients = {} THEN UNCHANGED tableVars
  ELSE /\ table' = [table EXCEPT ![NumberFor(r)] = r]
       /\ nrParticipants' = nrParticipants + 1

\* Mutant: whoever leaves is counted out, a participant or not.
RemoveParticipantAnyway(r) ==
  /\ table' = [c \in Clients |-> IF table[c] = r THEN Unused ELSE table[c]]
  /\ nrParticipants' = nrParticipants - 1

RemoveParticipant(r) ==
  IF r \in Registered
  THEN /\ table' = [table EXCEPT ![First(ClientsOf(r))] = Unused]
       /\ nrParticipants' = nrParticipants - 1
  ELSE UNCHANGED tableVars

-----------------------------------------------------------------------------
(* The sockets.  The sender's listeners on the control address are closed  *)
(* when it stops negotiating, all its sockets when it ends.                *)

Listening(s) == IF s = "main" THEN ~Ended ELSE Negotiating

\* The packets on their way to r after the sender sends m to it.  The data phase
\* ignores these packets, and nobody reads them where no receiver runs.
Told(r, m) == IF rcv[r].phase = "asking" THEN Arrive(down[r], <<m>>) ELSE down[r]
ToldToAll(m) == [r \in Receivers |-> Told(r, m)]

\* u after r sends m to the sender's socket s.
Heard(u, s, r, m) ==
  IF Listening(s) THEN [u EXCEPT ![s] = Unicast(@, r, <<m>>)] ELSE u

\* The queues left when the sender goes on at step next.
Closing(next) ==
  IF next \in NegotiatingPcs THEN up
  ELSE IF next = "transfer" THEN [up EXCEPT !.control = EmptyChannel(Receivers)]
  ELSE NobodyHeard

-----------------------------------------------------------------------------
(* The decision to start. *)

\* Mutant: one receiver more than asked for.
EnoughButOne == nrParticipants > net.minReceivers
Enough == nrParticipants >= net.minReceivers

CheckClientWait ==
  /\ firstConnected /\ nrParticipants # 0
  /\ \/ net.maxWait > 0 /\ waited >= net.maxWait
     \/ Enough /\ waited >= net.minWait

\* Mutant: every transfer to few receivers is taken for point-to-point.
IsPointToPointFew == ~net.noPointToPoint /\ ~net.async /\ nrParticipants <= 2
IsPointToPoint ==
  net.pointToPoint \/ (~net.noPointToPoint /\ ~net.async /\ nrParticipants = 1)

\* What becomes of the decision to start.
Started ==
  IF nrParticipants = 0 /\ ~net.async THEN "noParticipants"
  ELSE IF net.pointToPoint /\ nrParticipants # 1 THEN "fatal"
  ELSE "transfer"

\* The sender goes on at step next.
GoTo(next) ==
  /\ pc' = next
  /\ up' = Closing(next)
  /\ unicast' = (next = "transfer" /\ IsPointToPoint)

-----------------------------------------------------------------------------
(* The sender. *)

Announce ==
  /\ pc = "announce" /\ pc' = "top"
  /\ down' = ToldToAll(Hello)
  /\ UNCHANGED <<net, tableVars, clockVars, helloTries, unicast, answered, rcv, up, faults>>

\* A round of the dispatcher starts to wait.
BeginRound ==
  /\ pc = "top" /\ pc' = "select"
  /\ firstConnected' = (firstConnected \/ nrParticipants > 0)
  /\ UNCHANGED <<net, tableVars, waited, sinceStart, helloTries, unicast, answered,
                 rcv, down, up, faults>>

\* One datagram is read; a request is answered from the main socket.
Read(s, r) ==
  /\ pc \in {"select", "drain"} /\ pc' = "drain"
  /\ up[s][r] # <<>>
  /\ up' = [up EXCEPT ![s] = Deliver(@, r)]
  /\ IF Head(up[s][r]) = Request
     THEN AddParticipant(r) /\ down' = [down EXCEPT ![r] = Told(r, Reply(NumberFor(r)))]
     ELSE RemoveParticipant(r) /\ UNCHANGED down
  /\ UNCHANGED <<net, clockVars, helloTries, unicast, answered, rcv, faults>>

\* The sockets are read empty, or 64 datagrams were read: what came since
\* waits for the next round.
EndDrain ==
  /\ pc = "drain"
  /\ GoTo(IF CheckClientWait THEN Started ELSE "top")
  /\ UNCHANGED <<net, tableVars, clockVars, helloTries, answered, rcv, down, faults>>

\* The wait is limited.
Ticks ==
  net.hello \/ net.minReceivers > 0 \/ net.minWait > 0 \/ net.maxWait > 0
            \/ net.startTimeout > 0

\* A HELLO interval is longer than the network and the receivers take.
NothingToRead ==
  /\ \A s \in Sockets, r \in Receivers : up[s][r] = <<>>
  /\ \A r \in Receivers : rcv[r].phase = "asking" => down[r] = <<>>

\* Mutant: the timeout is for senders without participants.
StartTimeoutOverLonely ==
  net.startTimeout > 0 /\ sinceStart >= net.startTimeout /\ nrParticipants = 0
StartTimeoutOver == net.startTimeout > 0 /\ sinceStart >= net.startTimeout

\* A console at end of file is always readable: the select never times out.
SelectTimesOut ==
  /\ pc = "select" /\ Ticks /\ NothingToRead /\ net.keyboard # "eof"
  /\ down' = IF net.hello THEN ToldToAll(Hello) ELSE down
  /\ helloTries' = IF net.hello /\ helloTries <= net.autostart THEN helloTries + 1 ELSE helloTries
  /\ GoTo(IF (net.autostart # 0 /\ helloTries' > net.autostart) \/ CheckClientWait THEN Started
          ELSE IF StartTimeoutOver THEN "gaveUp" ELSE "top")
  /\ UNCHANGED <<net, tableVars, clockVars, answered, rcv, faults>>

\* A key, or a GO datagram of a C receiver, starts the transfer; q cancels it.
KeyPressed ==
  /\ pc = "select" /\ net.keyboard = "typing"
  /\ \E next \in {Started, "cancelled"} : GoTo(next)
  /\ UNCHANGED <<net, tableVars, clockVars, helloTries, answered, rcv, down, faults>>

\* The select returns although nothing was typed; the sockets are read as ever.
ConsoleAtEof ==
  /\ pc = "select" /\ net.keyboard = "eof" /\ pc' = "drain"
  /\ UNCHANGED <<net, tableVars, clockVars, helloTries, unicast, answered, rcv, down, up, faults>>

\* Bound: the seconds are counted as far as an option looks.
SecondsLeft ==
  \/ sinceStart < net.startTimeout
  \/ firstConnected /\ (waited < net.minWait \/ waited < net.maxWait)

SecondPasses ==
  /\ Negotiating /\ SecondsLeft
  /\ sinceStart' = IF sinceStart < net.startTimeout THEN sinceStart + 1 ELSE sinceStart
  /\ waited' = IF firstConnected /\ (waited < net.minWait \/ waited < net.maxWait)
               THEN waited + 1 ELSE waited
  /\ UNCHANGED <<net, pc, tableVars, firstConnected, helloTries, unicast, answered,
                 rcv, down, up, faults>>

\* In the data phase only the main socket is read; requests are ignored.
RcRead(r) ==
  /\ pc = "transfer" /\ up.main[r] # <<>>
  /\ up' = [up EXCEPT !.main = Deliver(@, r)]
  /\ IF Head(up.main[r]) = Disc THEN RemoveParticipant(r) ELSE UNCHANGED tableVars
  /\ UNCHANGED <<net, pc, clockVars, helloTries, unicast, answered, rcv, down, faults>>

\* Participants that never answered are told their number again, as long as
\* the first slice is not acknowledged: it does lack theirs, but an asynchronous
\* sender acknowledges it itself as soon as it is sent.  All receivers can join late.
Unanswered == Registered \ answered
ReReply ==
  /\ pc = "transfer" /\ ~net.async /\ Unanswered # {}
  /\ \A r \in Unanswered : down[r] = <<>>
  /\ down' = [r \in Receivers |->
                IF r \in Unanswered THEN Told(r, Reply(First(ClientsOf(r)))) ELSE down[r]]
  /\ UNCHANGED <<senderVars, rcv, up, faults>>

-----------------------------------------------------------------------------
(* The receivers. *)

FarewellPending(r) ==
  \E s \in Sockets : \E i \in 1..Len(up[s][r]) : up[s][r][i] = Disc

\* A receiver is run, or run again after it was killed, gave up or was refused;
\* hasty if its farewell has not been read by then.
Launch(r) ==
  /\ rcv[r].phase \in {"off", "dead", "gone", "refused"}
  /\ rcv' = [rcv EXCEPT ![r] = [Asking EXCEPT !.hasty = rcv[r].hasty \/ FarewellPending(r)]]
  /\ up' = IF r \in net.passive THEN up ELSE Heard(up, "control", r, Request)
  /\ UNCHANGED <<senderVars, down, faults>>

\* A second without a packet, longer than a datagram takes to be read.
Silence(r) == down[r] = <<>> /\ \A s \in Sockets : up[s][r] = <<>>

\* Mutant: one request only.
RetryNever(r) == FALSE /\ r \in Receivers /\ UNCHANGED vars

Retry(r) ==
  /\ rcv[r].phase = "asking" /\ r \notin net.passive /\ Silence(r)
  /\ up' = Heard(up, "control", r, Request)
  /\ UNCHANGED <<senderVars, rcv, down, faults>>

\* What the data phase ignores is gone.
Join(r, R) ==
  /\ rcv' = [rcv EXCEPT ![r] = R]
  /\ down' = [down EXCEPT ![r] = <<>>]

\* A passive receiver, and any receiver of an asynchronous sender, goes on
\* unregistered; the others ask the sender they now know.
ReceiveHello(r) ==
  IF r \in net.passive \/ net.async
  THEN Join(r, [rcv[r] EXCEPT !.phase = "joined"]) /\ UNCHANGED up
  ELSE /\ rcv' = [rcv EXCEPT ![r].server = TRUE]
       /\ down' = Deliver(down, r)
       /\ up' = Heard(up, "main", r, Request)

ReceiveReply(r, c) ==
  /\ Join(r, [rcv[r] EXCEPT !.phase = IF c = NoClient THEN "refused" ELSE "joined",
                            !.cl = c, !.server = TRUE])
  /\ UNCHANGED up

Receive(r) ==
  /\ rcv[r].phase = "asking" /\ down[r] # <<>>
  /\ IF Head(down[r]) = Hello THEN ReceiveHello(r) ELSE ReceiveReply(r, Head(down[r]).cl)
  /\ UNCHANGED <<senderVars, faults>>

\* What was on its way to a receiver that was killed is lost, or read by the next.
Ignore(r) ==
  /\ rcv[r].phase = "dead" /\ down[r] # <<>>
  /\ down' = Deliver(down, r)
  /\ UNCHANGED <<senderVars, rcv, up, faults>>

\* The first answer to a REQACK; its sender is looked up.
Answer(r) ==
  /\ pc = "transfer" /\ rcv[r].phase = "joined" /\ rcv[r].server
  /\ r \in Registered /\ r \notin answered
  /\ answered' = answered \cup {r}
  /\ UNCHANGED <<net, pc, tableVars, clockVars, helloTries, unicast, rcv, down, up, faults>>

\* --start-timeout: nothing heard for too long.
GiveUp(r) ==
  /\ r \in GivingUp /\ rcv[r].phase = "asking" /\ Silence(r)
  /\ rcv' = [rcv EXCEPT ![r].phase = "leaving", ![r].rounds = DisconnectRetries]
  /\ UNCHANGED <<senderVars, down, up, faults>>

\* Mutant: the control address only.
FarewellControl(r) == Heard(up, "control", r, Disc)

\* DISCONNECT to the sender, if its address is known, and to the control address.
Farewell(r) ==
  LET direct == IF rcv[r].server THEN Heard(up, "main", r, Disc) ELSE up
  IN  Heard(direct, "control", r, Disc)

\* The rounds are a second apart.
SendDisconnect(r) ==
  /\ rcv[r].phase = "leaving" /\ Silence(r)
  /\ up' = Farewell(r)
  /\ rcv' = [rcv EXCEPT ![r].rounds = @ - 1,
                        ![r].phase = IF rcv[r].rounds = 1 THEN "gone" ELSE "leaving"]
  /\ UNCHANGED <<senderVars, down, faults>>

-----------------------------------------------------------------------------
(* The world. *)

Kill(r) ==
  /\ faults < MaxFaults /\ rcv[r].phase \in {"asking", "joined"}
  /\ rcv' = [rcv EXCEPT ![r] = [NotRunning EXCEPT !.phase = "dead", !.hasty = rcv[r].hasty]]
  /\ faults' = faults + 1
  /\ UNCHANGED <<senderVars, down, up>>

LoseDown(r) ==
  /\ faults < MaxFaults /\ down[r] # <<>>
  /\ down' = Deliver(down, r)
  /\ faults' = faults + 1
  /\ UNCHANGED <<senderVars, rcv, up>>

LoseUp(s, r) ==
  /\ faults < MaxFaults /\ up[s][r] # <<>>
  /\ up' = [up EXCEPT ![s] = Deliver(@, r)]
  /\ faults' = faults + 1
  /\ UNCHANGED <<senderVars, rcv, down>>

-----------------------------------------------------------------------------
SenderRound == Announce \/ BeginRound \/ EndDrain \/ SelectTimesOut \/ ConsoleAtEof
SenderReads == \E r \in Receivers : RcRead(r) \/ \E s \in Sockets : Read(s, r)
ReceiverStep(r) == Retry(r) \/ Receive(r) \/ Ignore(r) \/ Answer(r) \/ SendDisconnect(r)
Failure(r) == GiveUp(r) \/ Kill(r) \/ LoseDown(r) \/ \E s \in Sockets : LoseUp(s, r)

Next ==
  \/ SenderRound \/ SenderReads \/ KeyPressed \/ SecondPasses \/ ReReply
  \/ \E r \in Receivers : Launch(r) \/ ReceiverStep(r) \/ Failure(r)

Spec == Init /\ [][Next]_vars

\* Every program that runs is scheduled and seconds pass; what is on its way to the
\* sender is read in one of its rounds, however many of them end before it comes.
\* Nobody need launch a receiver or press a key.
FairSpec ==
  /\ Spec
  /\ WF_vars(SenderRound) /\ SF_vars(SenderReads) /\ WF_vars(SecondPasses) /\ WF_vars(ReReply)
  /\ \A r \in Receivers : WF_vars(ReceiverStep(r))

-----------------------------------------------------------------------------
(* Properties. *)

ReceiverType(R) ==
  /\ R.phase \in {"off", "asking", "joined", "refused", "leaving", "gone", "dead"}
  /\ R.cl \in Clients \cup {NoClient} /\ R.server \in BOOLEAN
  /\ R.rounds \in 0..DisconnectRetries /\ R.hasty \in BOOLEAN

\* The sender, the table, the receivers and the network keep their types;
\* whoever answered has been a participant.
TypeOK ==
  /\ net \in NetConfigs /\ pc \in NegotiatingPcs \cup EndedPcs \cup {"transfer"}
  /\ table \in [Clients -> Receivers \cup {Unused}] /\ nrParticipants \in Nat
  /\ firstConnected \in BOOLEAN /\ unicast \in BOOLEAN /\ answered \subseteq Receivers
  /\ waited \in Nat /\ sinceStart \in Nat /\ helloTries \in Nat
  /\ \A r \in Receivers : ReceiverType(rcv[r])
  /\ \A r \in Receivers : \A s \in Sockets : Len(down[r]) <= ChanCap /\ Len(up[s][r]) <= ChanCap

\* The counter is the number of slots in use, and no receiver has two of them
\* however often it asks, by whichever socket and after whichever restart.
TableCounted ==
  /\ nrParticipants = Cardinality({c \in Clients : table[c] # Unused})
  /\ \A c, d \in Clients : table[c] = table[d] /\ table[c] # Unused => c = d

\* Whoever was told a number and has not left holds that slot: the sender does
\* not start without it, nor give its place away.  Not so a receiver that was run
\* again before its farewell was read: the farewell may be read after the request.
JoinedAreParticipants ==
  \A r \in Receivers :
    rcv[r].phase = "joined" /\ rcv[r].cl # NoClient /\ ~rcv[r].hasty => table[rcv[r].cl] = r

\* Data goes to one address only if nobody else was told to expect it.
UnicastAlone ==
  unicast =>
    Cardinality({r \in Receivers : /\ rcv[r].phase = "joined" /\ rcv[r].cl # NoClient
                                   /\ ~rcv[r].hasty}) <= 1

\* A receiver that keeps asking is told, by the sender's reply, by one repeated
\* in the data phase, or never because the sender started or ended without it, or
\* is asynchronous and repeats no reply.
AskersAreServed ==
  \A r \in Receivers :
    []<>(\/ r \in net.passive \/ rcv[r].phase # "asking" \/ Ended
         \/ pc = "transfer" /\ (net.async \/ r \notin Unanswered))

\* A sender that has the receivers it was told to wait for does not wait forever,
\* unless its wait is unlimited: dispatch_round notes a receiver that connects
\* only when the next round begins, and with -H -1, no rule and no console the
\* select of that round may wait for a datagram that nobody has to send.
StartsOnceEnough ==
  []<>(\/ ~Negotiating \/ nrParticipants = 0 \/ nrParticipants < net.minReceivers
       \/ ~Ticks /\ net.keyboard # "eof")

\* --start-timeout bounds the wait, whoever registers, leaves, asks or comes again,
\* unless the console is at end of file: then no round ever times out.
StartTimeoutDecides == net.startTimeout > 0 /\ net.keyboard # "eof" => <>~Negotiating

\* A receiver that gave up and is not run again is not waited for by a sender
\* whose address it knew, whichever socket a request or a farewell comes by and
\* whichever is lost.
LeaverForgotten ==
  \A r \in Receivers : (rcv[r].phase = "gone" /\ rcv[r].server)
                          ~> (r \notin Registered \/ Ended \/ rcv[r].phase # "gone")

\* receiver.rs says of a receiver that gave up without ever hearing the sender:
\* "Tell it to drop us, otherwise it would stall every slice of the whole
\* transfer".  The sender is told.
GivenUpIsForgotten ==
  \A r \in Receivers : rcv[r].phase = "gone" ~>
                          (r \notin Registered \/ Ended \/ rcv[r].phase # "gone")
=============================================================================
