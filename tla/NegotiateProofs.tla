-------------------------- MODULE NegotiateProofs --------------------------
(***************************************************************************)
(* The registration of receivers, for any number of receivers and slots,   *)
(* any options and any number of losses and kills.  The argument is about  *)
(* the queues: as long as a receiver has not given up, and was not run     *)
(* again in haste, no disconnection of its is on the way to the sender, so *)
(* every number on the way to it still names the slot it holds.            *)
(***************************************************************************)
EXTENDS Negotiate, FiniteSetTheorems, SequenceTheorems, TLAPS

\* The packets in a queue.
Among(q) == {q[i] : i \in 1..Len(q)}

\* The queues of packets of S that a socket holds.
Queues(S) == {q \in Seq(S) : Len(q) <= ChanCap}

Numbers     == Clients \cup {NoClient}
DownPackets == {Hello} \cup {Reply(c) : c \in Numbers}
UpPackets   == {Request, Disc}
UpType      == [Sockets -> [Receivers -> Queues(UpPackets)]]

Phases == {"off", "asking", "joined", "refused", "leaving", "gone", "dead"}
ReceiverRecord ==
  [phase : Phases, cl : Numbers, server : BOOLEAN, rounds : 0..DisconnectRetries,
   hasty : BOOLEAN]

SenderTypes ==
  /\ net \in NetConfigs /\ pc \in NegotiatingPcs \cup EndedPcs \cup {"transfer"}
  /\ firstConnected \in BOOLEAN /\ unicast \in BOOLEAN /\ answered \subseteq Receivers
  /\ waited \in Nat /\ sinceStart \in Nat /\ helloTries \in Nat

TableType    == table \in [Clients -> Receivers \cup {Unused}] /\ nrParticipants \in Nat
ReceiverTypes == rcv \in [Receivers -> ReceiverRecord]
QueueTypes   == down \in [Receivers -> Queues(DownPackets)] /\ up \in UpType

\* A receiver that leaves has a round left; one that asks has no number.
PhasesMean ==
  \A r \in Receivers : /\ rcv[r].phase = "leaving" => rcv[r].rounds > 0
                       /\ rcv[r].phase = "asking" => rcv[r].cl = NoClient

\* Receivers that have not given up, nor were refused, whatever happened to them.
Steady == {"off", "asking", "joined", "dead"}

\* Those that were not run again before their farewell was read.
Trusted(r) == rcv[r].phase \in Steady /\ ~rcv[r].hasty

\* None of them has a disconnection on its way to the sender.
NoFarewell ==
  \A r \in Receivers : Trusted(r) => \A s \in Sockets : Disc \notin Among(up[s][r])

\* A number on its way to one of them is that of the slot it holds.
ToldTruly ==
  \A r \in Receivers : Trusted(r) =>
    \A c \in Clients : Reply(c) \in Among(down[r]) => table[c] = r

\* Only a receiver that asks is told anything, and one that was killed asking
\* leaves it behind: who is run again after a farewell finds nothing old.
Listeners == {"asking", "dead"}
NothingTold == \A r \in Receivers : rcv[r].phase \notin Listeners => down[r] = <<>>

\* Data goes to one address only when no more than one slot is in use.
UnicastToOne == unicast => pc = "transfer" /\ nrParticipants <= 1

Types == SenderTypes /\ TableType /\ ReceiverTypes /\ QueueTypes /\ PhasesMean
Promises == NoFarewell /\ ToldTruly /\ NothingTold /\ JoinedAreParticipants

NegotiateInv == Types /\ TableCounted /\ Promises /\ UnicastToOne

-----------------------------------------------------------------------------
(* Queues. *)

LEMMA ArriveQueue ==
  ASSUME NEW S, NEW q \in Queues(S), NEW m \in S
  PROVE  Arrive(q, <<m>>) \in Queues(S) /\ Among(Arrive(q, <<m>>)) \subseteq Among(q) \cup {m}
<1> DEFINE all == q \o <<m>>
           n == IF Len(all) <= ChanCap THEN Len(all) ELSE ChanCap
<1>1. q \in Seq(S) /\ <<m>> \in Seq(S) /\ Len(<<m>>) = 1 /\ Len(q) \in Nat
  BY DEF Queues
<1>2. /\ all \in Seq(S) /\ Len(all) = Len(q) + 1
      /\ \A i \in 1..Len(all) : all[i] = IF i <= Len(q) THEN q[i] ELSE m
  BY <1>1, ConcatProperties
<1>3. n \in Nat /\ n <= Len(all) /\ n <= ChanCap
  BY <1>1, <1>2, ChanCapAssumption
<1>4. \A i \in 1..n : all[i] \in S
  BY <1>2, <1>3
<1> HIDE DEF n, all
<1>5. /\ SubSeq(all, 1, n) \in Seq(S) /\ Len(SubSeq(all, 1, n)) = n
      /\ \A i \in 1..n : SubSeq(all, 1, n)[i] = all[i]
  <2>1. /\ SubSeq(all, 1, n) \in Seq(S)
        /\ Len(SubSeq(all, 1, n)) = IF 1 <= n THEN n - 1 + 1 ELSE 0
        /\ \A i \in 1..n - 1 + 1 : SubSeq(all, 1, n)[i] = all[1 + i - 1]
    BY <1>3, <1>4, SubSeqProperties
  <2> QED
    BY <2>1, <1>3
<1>6. \A i \in 1..n : all[i] \in Among(q) \cup {m}
  BY <1>1, <1>2, <1>3 DEF Among
<1>7. Arrive(q, <<m>>) = SubSeq(all, 1, n)
  BY DEF Arrive, n, all
<1> QED
  BY <1>3, <1>5, <1>6, <1>7 DEF Among, Queues

LEMMA TailQueue ==
  ASSUME NEW S, NEW q \in Queues(S), q # <<>>
  PROVE  /\ Tail(q) \in Queues(S) /\ Among(Tail(q)) \subseteq Among(q)
         /\ Head(q) \in S /\ Head(q) \in Among(q)
<1>1. q \in Seq(S) /\ Len(q) \in Nat /\ Len(q) > 0 /\ Len(q) <= ChanCap
  BY DEF Queues
<1>2. Tail(q) \in Seq(S) /\ Len(Tail(q)) = Len(q) - 1 /\ Head(q) \in S /\ Head(q) = q[1]
  BY <1>1
<1>3. \A i \in 1..Len(Tail(q)) : Tail(q)[i] = q[i + 1]
  BY <1>1
<1>4. Tail(q) \in Queues(S)
  BY <1>1, <1>2, ChanCapAssumption DEF Queues
<1>5. Among(Tail(q)) \subseteq Among(q)
  BY <1>1, <1>2, <1>3 DEF Among
<1>6. Head(q) \in Among(q)
  BY <1>1, <1>2 DEF Among
<1> QED
  BY <1>2, <1>4, <1>5, <1>6

LEMMA EmptyQueue ==
  ASSUME NEW S
  PROVE  <<>> \in Queues(S) /\ Among(<<>>) = {}
BY ChanCapAssumption DEF Queues, Among

LEMMA Packets ==
  /\ Hello \in DownPackets /\ \A c \in Numbers : Reply(c) \in DownPackets
  /\ \A m \in DownPackets : m = Hello \/ \E c \in Numbers : m = Reply(c)
  /\ \A c \in Numbers : Reply(c) # Hello /\ Reply(c).cl = c
  /\ \A c, d \in Numbers : Reply(c) = Reply(d) => c = d
  /\ Request # Disc /\ Request \in UpPackets /\ Disc \in UpPackets
BY DEF DownPackets, UpPackets, Hello, Reply, Request, Disc

\* What the sender sends r, if it arrives.
LEMMA ToldQueue ==
  ASSUME QueueTypes, NEW r \in Receivers, NEW m \in DownPackets
  PROVE  Told(r, m) \in Queues(DownPackets) /\ Among(Told(r, m)) \subseteq Among(down[r]) \cup {m}
<1>1. down[r] \in Queues(DownPackets)
  BY DEF QueueTypes
<1> QED
  BY <1>1, ArriveQueue DEF Told

\* What r sends the sender, if it arrives.
LEMMA HeardQueue ==
  ASSUME NEW u \in UpType, NEW s \in Sockets, NEW r \in Receivers, NEW m \in UpPackets
  PROVE  /\ Heard(u, s, r, m) \in UpType
         /\ \A t \in Sockets, q \in Receivers :
              Among(Heard(u, s, r, m)[t][q]) \subseteq Among(u[t][q]) \cup {m}
         /\ \A t \in Sockets, q \in Receivers : q # r => Heard(u, s, r, m)[t][q] = u[t][q]
<1> DEFINE a == Arrive(u[s][r], <<m>>)
<1>1. u[s][r] \in Queues(UpPackets)
  BY DEF UpType
<1>2. a \in Queues(UpPackets) /\ Among(a) \subseteq Among(u[s][r]) \cup {m}
  BY <1>1, ArriveQueue
<1>3. Heard(u, s, r, m) = IF Listening(s) THEN [u EXCEPT ![s] = [u[s] EXCEPT ![r] = a]] ELSE u
  BY DEF Heard, Unicast, UpType
<1> HIDE DEF a
<1> QED
  BY <1>2, <1>3 DEF UpType

\* What the sender reads, or what is lost, is gone.
LEMMA UpTaken ==
  ASSUME QueueTypes, NEW s \in Sockets, NEW r \in Receivers, up[s][r] # <<>>,
         up' = [up EXCEPT ![s] = Deliver(@, r)]
  PROVE  /\ up' \in UpType
         /\ \A t \in Sockets, q \in Receivers : Among(up'[t][q]) \subseteq Among(up[t][q])
         /\ Head(up[s][r]) \in UpPackets /\ Head(up[s][r]) \in Among(up[s][r])
<1> DEFINE a == Tail(up[s][r])
<1>1. up \in UpType /\ up[s][r] \in Queues(UpPackets)
  BY DEF QueueTypes, UpType
<1>2. /\ a \in Queues(UpPackets) /\ Among(a) \subseteq Among(up[s][r])
      /\ Head(up[s][r]) \in UpPackets /\ Head(up[s][r]) \in Among(up[s][r])
  BY <1>1, TailQueue
<1>3. up' = [up EXCEPT ![s] = [up[s] EXCEPT ![r] = a]]
  BY DEF Deliver, QueueTypes, UpType
<1> HIDE DEF a
<1> QED
  BY <1>1, <1>2, <1>3 DEF UpType

LEMMA DownTaken ==
  ASSUME QueueTypes, NEW r \in Receivers, down[r] # <<>>, down' = Deliver(down, r)
  PROVE  /\ down' \in [Receivers -> Queues(DownPackets)]
         /\ \A q \in Receivers : Among(down'[q]) \subseteq Among(down[q])
<1>1. Tail(down[r]) \in Queues(DownPackets) /\ Among(Tail(down[r])) \subseteq Among(down[r])
  BY TailQueue DEF QueueTypes
<1>2. down' = [down EXCEPT ![r] = Tail(down[r])]
  BY DEF Deliver
<1> QED
  BY <1>1, <1>2 DEF QueueTypes

LEMMA ClosingQueues ==
  ASSUME QueueTypes, NEW next, up' = Closing(next)
  PROVE  /\ up' \in UpType
         /\ \A t \in Sockets, q \in Receivers : Among(up'[t][q]) \subseteq Among(up[t][q])
<1>1. up \in UpType
  BY DEF QueueTypes
<1>2. <<>> \in Queues(UpPackets) /\ Among(<<>>) = {}
  BY EmptyQueue
<1>3. EmptyChannel(Receivers) \in [Receivers -> Queues(UpPackets)]
      /\ \A q \in Receivers : EmptyChannel(Receivers)[q] = <<>>
  BY <1>2 DEF EmptyChannel
<1>4. NobodyHeard \in UpType /\ \A t \in Sockets, q \in Receivers : NobodyHeard[t][q] = <<>>
  BY <1>3 DEF NobodyHeard, UpType
<1>5. CASE next \in NegotiatingPcs
  BY <1>1, <1>5 DEF Closing
<1>6. CASE next \notin NegotiatingPcs /\ next = "transfer"
  <2>1. up' = [up EXCEPT !["control"] = EmptyChannel(Receivers)]
    BY <1>6 DEF Closing
  <2> QED
    BY <1>1, <1>2, <1>3, <2>1 DEF UpType, Sockets
<1>7. CASE next \notin NegotiatingPcs /\ next # "transfer"
  BY <1>2, <1>4, <1>7 DEF Closing
<1> QED
  BY <1>5, <1>6, <1>7
-----------------------------------------------------------------------------
(* The table. *)

Used == {c \in Clients : table[c] # Unused}

LEMMA UsedFinite == IsFiniteSet(Clients) /\ IsFiniteSet(Used) /\ Cardinality(Used) \in Nat
<1>1. IsFiniteSet(Clients)
  BY FS_Interval, NegotiateAssumption DEF Clients
<1>2. Used \in SUBSET Clients
  BY DEF Used
<1>3. IsFiniteSet(Used)
  BY <1>1, <1>2, FS_Subset
<1> QED
  BY <1>1, <1>3, FS_CardinalityType

\* First picks the least slot of any set of slots.
LEMMA FirstIsMember ==
  ASSUME NEW S \in SUBSET Clients, S # {}
  PROVE  First(S) \in S
<1> DEFINE Below == {0..c : c \in S}
<1>1. S \subseteq Nat /\ \A c \in S : 0..c \subseteq Clients
  BY NegotiateAssumption DEF Clients
<1>2. Below \subseteq FiniteSubsetsOf(Clients) /\ Below # {}
  <2>1. \A T \in SUBSET Clients : IsFiniteSet(T)
    BY UsedFinite, FS_Subset
  <2>2. \A c \in S : 0..c \in FiniteSubsetsOf(Clients)
    BY <1>1, <2>1 DEF FiniteSubsetsOf
  <2> QED
    BY <2>2
<1>3. IsWellFoundedOn(StrictSubsetOrdering(Clients), FiniteSubsetsOf(Clients))
  BY FS_StrictSubsetOrderingWellFounded
<1>4. PICK x \in Below : \A y \in Below : ~ (<<y, x>> \in StrictSubsetOrdering(Clients))
  <2> HIDE DEF Below
  <2> QED
    BY <1>2, <1>3, WFMin
<1>5. PICK c \in S : x = 0..c
  BY <1>4
<1>6. ASSUME NEW d \in S, d < c
      PROVE  FALSE
  <2>1. 0..d \in Below /\ 0..d \subseteq 0..c /\ c \in 0..c /\ c \notin 0..d
    BY <1>1, <1>6
  <2>2. <<0..d, 0..c>> \in StrictSubsetOrdering(Clients)
    BY <1>1, <2>1 DEF StrictSubsetOrdering
  <2> QED
    BY <1>4, <1>5, <2>1, <2>2
<1>7. \A d \in S : c <= d
  BY <1>1, <1>6
<1> QED
  BY <1>7 DEF First

LEMMA SlotsOf ==
  ASSUME TableType, NEW r \in Receivers
  PROVE  /\ r \in Registered => First(ClientsOf(r)) \in Clients /\ table[First(ClientsOf(r))] = r
         /\ r \in Registered <=> KnownClients(r) # {}
<1>1. ClientsOf(r) \in SUBSET Clients
  BY DEF ClientsOf
<1>2. r \in Registered => First(ClientsOf(r)) \in ClientsOf(r)
  BY <1>1, FirstIsMember DEF Registered
<1> QED
  BY <1>2 DEF ClientsOf, Registered, KnownClients

\* A request takes a slot not in use, if its sender has none, and is answered
\* with the slot its sender then holds.
LEMMA AddKeeps ==
  ASSUME TableType, TableCounted, NEW r \in Receivers, AddParticipant(r)
  PROVE  /\ TableType' /\ TableCounted'
         /\ NumberFor(r) \in Numbers
         /\ NumberFor(r) \in Clients => table'[NumberFor(r)] = r
         /\ \A c \in Clients : table[c] # Unused => table'[c] = table[c]
<1>1. FreeClients \in SUBSET Clients
  BY DEF FreeClients
<1>2. NoClient \notin Clients
  BY NegotiateAssumption DEF Clients, NoClient
<1>3. CASE KnownClients(r) # {}
  <2>1. table' = table /\ nrParticipants' = nrParticipants
    BY <1>3 DEF AddParticipant, tableVars
  <2>2. NumberFor(r) = First(ClientsOf(r))
    BY <1>3 DEF NumberFor, KnownClients
  <2> QED
    BY <1>3, <2>1, <2>2, SlotsOf DEF TableType, TableCounted, Numbers
<1>4. CASE KnownClients(r) = {} /\ FreeClients = {}
  <2>1. table' = table /\ nrParticipants' = nrParticipants
    BY <1>4 DEF AddParticipant, tableVars
  <2>2. NumberFor(r) = NoClient
    BY <1>4 DEF NumberFor
  <2> QED
    BY <1>2, <2>1, <2>2 DEF TableType, TableCounted, Numbers
<1>5. CASE KnownClients(r) = {} /\ FreeClients # {}
  <2> DEFINE c0 == NumberFor(r)
  <2>1. c0 \in Clients /\ table[c0] = Unused
    BY <1>1, <1>5, FirstIsMember DEF NumberFor, FreeClients
  <2>2. table' = [table EXCEPT ![c0] = r] /\ nrParticipants' = nrParticipants + 1
    BY <1>5 DEF AddParticipant
  <2> HIDE DEF c0
  <2>3. TableType' /\ table'[c0] = r /\ \A c \in Clients : c # c0 => table'[c] = table[c]
    BY <2>1, <2>2 DEF TableType
  <2>4. r # Unused
    BY NegotiateAssumption
  <2>5. Used' = Used \cup {c0} /\ c0 \notin Used
    BY <2>1, <2>3, <2>4 DEF Used
  <2>6. nrParticipants' = Cardinality(Used')
    BY <2>2, <2>5, UsedFinite, FS_AddElement DEF TableCounted, Used
  <2>7. \A c \in Clients : table[c] # r
    BY <1>5 DEF KnownClients, ClientsOf
  <2>8. \A c, d \in Clients : table'[c] = table'[d] /\ table'[c] # Unused => c = d
    BY <2>3, <2>7 DEF TableCounted
  <2> QED
    BY <2>1, <2>3, <2>6, <2>8 DEF TableCounted, Used, Numbers, c0
<1> QED
  BY <1>3, <1>4, <1>5

LEMMA RemoveKeeps ==
  ASSUME TableType, TableCounted, NEW r \in Receivers, RemoveParticipant(r)
  PROVE  /\ TableType' /\ TableCounted' /\ nrParticipants' <= nrParticipants
         /\ \A c \in Clients : table[c] # r => table'[c] = table[c]
<1>1. CASE r \notin Registered
  BY <1>1 DEF RemoveParticipant, tableVars, TableType, TableCounted
<1>2. CASE r \in Registered
  <2> DEFINE c0 == First(ClientsOf(r))
  <2>1. c0 \in Clients /\ table[c0] = r /\ r # Unused
    BY <1>2, SlotsOf, NegotiateAssumption
  <2>2. table' = [table EXCEPT ![c0] = Unused] /\ nrParticipants' = nrParticipants - 1
    BY <1>2 DEF RemoveParticipant
  <2> HIDE DEF c0
  <2>3. /\ table' \in [Clients -> Receivers \cup {Unused}] /\ table'[c0] = Unused
        /\ \A c \in Clients : c # c0 => table'[c] = table[c]
    BY <2>1, <2>2 DEF TableType
  <2>4. Used' = Used \ {c0} /\ c0 \in Used
    BY <2>1, <2>3 DEF Used
  <2>5. nrParticipants' = Cardinality(Used') /\ nrParticipants' \in Nat
    <3>1. Cardinality(Used') = Cardinality(Used) - 1 /\ IsFiniteSet(Used')
      BY <2>4, UsedFinite, FS_RemoveElement
    <3>2. Cardinality(Used') \in Nat
      BY <3>1, FS_CardinalityType
    <3> QED
      BY <2>2, <3>1, <3>2 DEF TableCounted, Used
  <2>6. \A c, d \in Clients : table'[c] = table'[d] /\ table'[c] # Unused => c = d
    BY <2>3 DEF TableCounted
  <2> QED
    BY <2>1, <2>2, <2>3, <2>5, <2>6 DEF TableCounted, TableType, Used
<1> QED
  BY <1>1, <1>2

-----------------------------------------------------------------------------
(* What keeps the argument about the queues. *)

LEMMA NoFarewellKept ==
  ASSUME NoFarewell,
         \A r \in Receivers : Trusted(r)' =>
           \/ /\ Trusted(r)
              /\ \A s \in Sockets : Among(up'[s][r]) \subseteq Among(up[s][r]) \cup {Request}
           \/ \A s \in Sockets : Disc \notin Among(up'[s][r])
  PROVE  NoFarewell'
BY Packets DEF NoFarewell

LEMMA ToldTrulyKept ==
  ASSUME ToldTruly,
         \A r \in Receivers : Trusted(r)' =>
           \/ /\ Trusted(r)
              /\ \A c \in Clients : table[c] = r => table'[c] = r
              /\ \A c \in Clients : Reply(c) \in Among(down'[r]) =>
                   Reply(c) \in Among(down[r]) \/ table'[c] = r
           \/ Among(down'[r]) = {}
  PROVE  ToldTruly'
BY DEF ToldTruly

LEMMA NothingAmong ==
  ASSUME NEW S, NEW q \in Queues(S), Among(q) \subseteq {}
  PROVE  q = <<>>
<1>1. q \in Seq(S) /\ Len(q) \in Nat
  BY DEF Queues
<1>2. ASSUME Len(q) > 0
      PROVE  FALSE
  <2>1. 1 \in 1..Len(q)
    BY <1>1, <1>2
  <2>2. q[1] \in Among(q)
    BY <2>1 DEF Among
  <2> QED
    BY <2>2
<1> QED
  BY <1>1, <1>2

LEMMA NothingToldKept ==
  ASSUME NothingTold, down' \in [Receivers -> Queues(DownPackets)],
         \A r \in Receivers : rcv'[r].phase \notin Listeners =>
           \/ down'[r] = <<>>
           \/ rcv[r].phase \notin Listeners /\ Among(down'[r]) \subseteq Among(down[r])
  PROVE  NothingTold'
<1> SUFFICES ASSUME NEW r \in Receivers, rcv'[r].phase \notin Listeners, down'[r] # <<>>
             PROVE  FALSE
  BY DEF NothingTold
<1>1. Among(down'[r]) \subseteq Among(<<>>)
  BY DEF NothingTold
<1>2. Among(<<>>) = {}
  BY EmptyQueue
<1> QED
  BY <1>1, <1>2, NothingAmong

LEMMA JoinedKept ==
  ASSUME JoinedAreParticipants, ReceiverTypes,
         \A r \in Receivers : rcv'[r].phase = "joined" /\ rcv'[r].cl # NoClient /\ ~rcv'[r].hasty =>
           \/ table'[rcv'[r].cl] = r
           \/ /\ rcv[r].phase = "joined" /\ rcv'[r].cl = rcv[r].cl /\ ~rcv[r].hasty
              /\ \A c \in Clients : table[c] = r => table'[c] = r
  PROVE  JoinedAreParticipants'
BY DEF JoinedAreParticipants, ReceiverTypes, ReceiverRecord, Numbers

\* Data to one address: decided with one participant.
LEMMA StartKeepsOne ==
  ASSUME SenderTypes, TableType, NEW next, next = "transfer" => next = Started,
         unicast' = (next = "transfer" /\ IsPointToPoint), pc' = next,
         nrParticipants' = nrParticipants
  PROVE  UnicastToOne'
<1>1. CASE unicast'
  <2>1. next = "transfer" /\ IsPointToPoint /\ Started = "transfer"
    BY <1>1
  <2>2. nrParticipants = 1
    BY <2>1 DEF IsPointToPoint, Started
  <2> QED
    BY <1>1, <2>1, <2>2 DEF UnicastToOne
<1> QED
  BY <1>1 DEF UnicastToOne
-----------------------------------------------------------------------------
(* The steps of the sender. *)

\* Nothing but a HELLO joins the queues, and only those of receivers that ask.
HelloAtMost ==
  /\ down' \in [Receivers -> Queues(DownPackets)]
  /\ \A r \in Receivers : Among(down'[r]) \subseteq Among(down[r]) \cup {Hello}
  /\ \A r \in Receivers : rcv[r].phase # "asking" => down'[r] = down[r]

\* Some of what was on its way to the sender is gone.
LEMMA QuietKeeps ==
  ASSUME NegotiateInv, table' = table, rcv' = rcv,
         \A s \in Sockets, r \in Receivers : Among(up'[s][r]) \subseteq Among(up[s][r]),
         HelloAtMost
  PROVE  Promises'
<1>1. \A c \in Clients : Reply(c) # Hello
  BY Packets DEF Numbers
<1>2. NoFarewell'
  BY NoFarewellKept DEF NegotiateInv, Promises, Trusted
<1>3. ToldTruly'
  BY <1>1, ToldTrulyKept DEF NegotiateInv, Promises, Trusted, HelloAtMost
<1>4. JoinedAreParticipants'
  BY JoinedKept DEF NegotiateInv, Promises, Types
<1>5. NothingTold'
  BY NothingToldKept DEF NegotiateInv, Promises, HelloAtMost, Listeners
<1> QED
  BY <1>2, <1>3, <1>4, <1>5 DEF Promises

LEMMA HelloToAll ==
  ASSUME QueueTypes, down' = ToldToAll(Hello)
  PROVE  HelloAtMost
BY ToldQueue, Packets DEF ToldToAll, HelloAtMost, Told

LEMMA AnnounceKeeps == ASSUME NegotiateInv, Announce PROVE NegotiateInv'
<1>1. HelloAtMost
  BY HelloToAll DEF Announce, NegotiateInv, Types
<1>2. /\ net' = net /\ tableVars' = tableVars /\ clockVars' = clockVars
      /\ helloTries' = helloTries /\ unicast' = unicast /\ answered' = answered
      /\ rcv' = rcv /\ up' = up /\ pc = "announce" /\ pc' = "top"
  BY DEF Announce
<1>3. Promises'
  BY <1>1, <1>2, QuietKeeps DEF tableVars
<1>4. Types' /\ TableCounted' /\ UnicastToOne'
  BY <1>1, <1>2 DEF NegotiateInv, Types, SenderTypes, TableType, ReceiverTypes, QueueTypes,
       PhasesMean, TableCounted, UnicastToOne, tableVars, clockVars, NegotiatingPcs, EndedPcs,
       HelloAtMost
<1> QED
  BY <1>3, <1>4 DEF NegotiateInv

\* A step that changes none of the table, the receivers and the queues.
LEMMA IdleKeeps ==
  ASSUME NegotiateInv, SenderTypes', table' = table, nrParticipants' = nrParticipants,
         rcv' = rcv, down' = down, up' = up,
         unicast' => unicast /\ pc' = pc
  PROVE  NegotiateInv'
<1>1. Promises'
  BY QuietKeeps DEF HelloAtMost, NegotiateInv, Types, QueueTypes
<1>2. Types' /\ TableCounted' /\ UnicastToOne'
  BY DEF NegotiateInv, Types, TableType, ReceiverTypes, QueueTypes, PhasesMean, TableCounted,
         UnicastToOne
<1> QED
  BY <1>1, <1>2 DEF NegotiateInv

LEMMA BeginRoundKeeps == ASSUME NegotiateInv, BeginRound PROVE NegotiateInv'
<1>1. SenderTypes'
  BY DEF NegotiateInv, Types, SenderTypes, TableType, BeginRound, NegotiatingPcs, tableVars
<1>2. unicast' => unicast /\ pc' = pc
  BY DEF NegotiateInv, UnicastToOne, BeginRound
<1> QED
  BY <1>1, <1>2, IdleKeeps DEF BeginRound, tableVars

LEMMA SecondPassesKeeps == ASSUME NegotiateInv, SecondPasses PROVE NegotiateInv'
<1>1. SenderTypes'
  BY DEF NegotiateInv, Types, SenderTypes, SecondPasses
<1> QED
  BY <1>1, IdleKeeps DEF SecondPasses, tableVars

LEMMA AnswerKeeps == ASSUME NegotiateInv, NEW r \in Receivers, Answer(r) PROVE NegotiateInv'
<1>1. SenderTypes'
  BY DEF NegotiateInv, Types, SenderTypes, Answer, clockVars
<1> QED
  BY <1>1, IdleKeeps DEF Answer, tableVars

LEMMA ReadKeeps ==
  ASSUME NegotiateInv, NEW r \in Receivers, NEW s \in Sockets, Read(s, r)
  PROVE  NegotiateInv'
<1>1. /\ up' \in UpType /\ Head(up[s][r]) \in UpPackets /\ Head(up[s][r]) \in Among(up[s][r])
      /\ \A t \in Sockets, q \in Receivers : Among(up'[t][q]) \subseteq Among(up[t][q])
  BY UpTaken DEF Read, NegotiateInv, Types
<1>2. /\ net' = net /\ clockVars' = clockVars /\ helloTries' = helloTries
      /\ unicast' = unicast /\ answered' = answered /\ rcv' = rcv
      /\ pc \in {"select", "drain"} /\ pc' = "drain"
  BY DEF Read
<1>3. SenderTypes' /\ ReceiverTypes' /\ PhasesMean'
  BY <1>2 DEF NegotiateInv, Types, SenderTypes, ReceiverTypes, PhasesMean, clockVars, NegotiatingPcs
<1>4. UnicastToOne'
  BY <1>2 DEF NegotiateInv, UnicastToOne
<1>5. NoFarewell'
  BY <1>1, <1>2, NoFarewellKept DEF NegotiateInv, Promises, Trusted
<1>6. down \in [Receivers -> Queues(DownPackets)]
  BY DEF NegotiateInv, Types, QueueTypes
<1>7. CASE Head(up[s][r]) = Request
  <2> DEFINE n == NumberFor(r)
  <2>1. AddParticipant(r) /\ down' = [down EXCEPT ![r] = Told(r, Reply(n))]
    BY <1>7 DEF Read
  <2>2. /\ TableType' /\ TableCounted' /\ n \in Numbers
        /\ n \in Clients => table'[n] = r
        /\ \A c \in Clients : table[c] # Unused => table'[c] = table[c]
    BY <2>1, AddKeeps DEF NegotiateInv, Types
  <2> HIDE DEF n
  <2>3. /\ Told(r, Reply(n)) \in Queues(DownPackets)
        /\ Among(Told(r, Reply(n))) \subseteq Among(down[r]) \cup {Reply(n)}
    BY <2>2, ToldQueue, Packets DEF NegotiateInv, Types
  <2>4. down' \in [Receivers -> Queues(DownPackets)]
    BY <1>6, <2>1, <2>3
  <2>5. \A q \in Receivers, c \in Clients : table[c] = q => table'[c] = q
    BY <2>2, NegotiateAssumption
  <2>6. \A q \in Receivers : \A c \in Clients :
          Reply(c) \in Among(down'[q]) => Reply(c) \in Among(down[q]) \/ table'[c] = q
    <3> SUFFICES ASSUME NEW q \in Receivers, NEW c \in Clients, Reply(c) \in Among(down'[q]),
                        Reply(c) \notin Among(down[q])
                 PROVE  table'[c] = q
      OBVIOUS
    <3>1. q = r
      BY <1>6, <2>1
    <3>2. Reply(c) = Reply(n)
      BY <1>6, <2>1, <2>3, <3>1
    <3>3. c = n
      BY <2>2, <3>2, Packets DEF Numbers
    <3> QED
      BY <2>2, <3>1, <3>3
  <2>7. ToldTruly'
    BY <1>2, <2>5, <2>6, ToldTrulyKept DEF NegotiateInv, Promises, Trusted
  <2>8. JoinedAreParticipants'
    BY <1>2, <2>5, JoinedKept DEF NegotiateInv, Types, Promises
  <2>9. NothingTold'
    <3>1. rcv[r].phase \in Listeners \/ down'[r] = down[r]
      BY <1>6, <2>1 DEF Told, Listeners
    <3>2. \A q \in Receivers : q # r => down'[q] = down[q]
      BY <1>6, <2>1
    <3>3. \A q \in Receivers : rcv'[q].phase \notin Listeners =>
            rcv[q].phase \notin Listeners /\ Among(down'[q]) \subseteq Among(down[q])
      BY <1>2, <3>1, <3>2
    <3> QED
      BY <2>4, <3>3, NothingToldKept DEF NegotiateInv, Promises
  <2> QED
    BY <1>1, <1>3, <1>4, <1>5, <2>2, <2>4, <2>7, <2>8, <2>9 DEF NegotiateInv, Types, Promises, QueueTypes
<1>8. CASE Head(up[s][r]) # Request
  <2>1. RemoveParticipant(r) /\ down' = down
    BY <1>8 DEF Read
  <2>2. /\ TableType' /\ TableCounted'
        /\ \A c \in Clients : table[c] # r => table'[c] = table[c]
    BY <2>1, RemoveKeeps DEF NegotiateInv, Types
  <2>3. ~Trusted(r)
    BY <1>1, <1>8 DEF UpPackets, NegotiateInv, Promises, NoFarewell
  <2>4. \A q \in Receivers : Trusted(q) =>
          \A c \in Clients : table[c] = q => table'[c] = q
    BY <2>2, <2>3
  <2>5. ToldTruly'
    BY <1>2, <2>1, <2>4, ToldTrulyKept DEF NegotiateInv, Promises, Trusted
  <2>6. JoinedAreParticipants'
    BY <1>2, <2>4, JoinedKept DEF NegotiateInv, Types, Promises, Steady, Trusted
  <2>7. NothingTold'
    BY <1>2, <2>1 DEF NegotiateInv, Promises, NothingTold
  <2> QED
    BY <1>1, <1>3, <1>4, <1>5, <1>6, <2>1, <2>2, <2>5, <2>6, <2>7
    DEF NegotiateInv, Types, Promises, QueueTypes
<1> QED
  BY <1>7, <1>8

LEMMA RcReadKeeps == ASSUME NegotiateInv, NEW r \in Receivers, RcRead(r) PROVE NegotiateInv'
<1> DEFINE m == Head(up.main[r])
<1>1. "main" \in Sockets
  BY DEF Sockets
<1>2. up' = [up EXCEPT !["main"] = Deliver(@, r)] /\ up["main"][r] # <<>>
  BY DEF RcRead
<1>3. /\ up' \in UpType /\ m \in Among(up["main"][r])
      /\ \A t \in Sockets, q \in Receivers : Among(up'[t][q]) \subseteq Among(up[t][q])
  BY <1>1, <1>2, UpTaken DEF NegotiateInv, Types
<1>4. /\ net' = net /\ clockVars' = clockVars /\ helloTries' = helloTries /\ pc' = pc
      /\ unicast' = unicast /\ answered' = answered /\ rcv' = rcv /\ down' = down
  BY DEF RcRead
<1>5. Types' /\ TableCounted' /\ nrParticipants' <= nrParticipants
      /\ \A c \in Clients : (m = Disc /\ table[c] = r) \/ table'[c] = table[c]
  <2>1. SenderTypes' /\ ReceiverTypes' /\ PhasesMean' /\ QueueTypes'
    BY <1>3, <1>4 DEF NegotiateInv, Types, SenderTypes, ReceiverTypes, PhasesMean, clockVars, QueueTypes
  <2>2. CASE m = Disc
    BY <2>1, <2>2, RemoveKeeps DEF RcRead, NegotiateInv, Types
  <2>3. CASE m # Disc
    BY <2>1, <2>3 DEF RcRead, NegotiateInv, Types, tableVars, TableType, TableCounted
  <2> QED
    BY <2>2, <2>3
<1>6. m = Disc => ~Trusted(r)
  BY <1>1, <1>3 DEF NegotiateInv, Promises, NoFarewell
<1>7. \A q \in Receivers : Trusted(q) =>
        \A c \in Clients : table[c] = q => table'[c] = q
  BY <1>5, <1>6
<1>8. Promises'
  <2>1. NoFarewell'
    BY <1>3, <1>4, NoFarewellKept DEF NegotiateInv, Promises, Trusted
  <2>2. ToldTruly'
    BY <1>4, <1>7, ToldTrulyKept DEF NegotiateInv, Promises, Trusted
  <2>3. JoinedAreParticipants'
    BY <1>4, <1>7, JoinedKept DEF NegotiateInv, Types, Promises, Steady, Trusted
  <2>4. NothingTold'
    BY <1>4 DEF NegotiateInv, Promises, NothingTold
  <2> QED
    BY <2>1, <2>2, <2>3, <2>4 DEF Promises
<1>9. UnicastToOne'
  BY <1>4, <1>5 DEF NegotiateInv, UnicastToOne, Types, TableType
<1> QED
  BY <1>5, <1>8, <1>9 DEF NegotiateInv

\* The sender goes on, to the transfer only by the decision to start.
LEMMA GoToKeeps ==
  ASSUME NegotiateInv, NEW next \in NegotiatingPcs \cup EndedPcs \cup {"transfer"}, GoTo(next),
         next = "transfer" => next = Started,
         net' = net, tableVars' = tableVars, clockVars' = clockVars, helloTries' \in Nat,
         answered' = answered, rcv' = rcv, HelloAtMost
  PROVE  NegotiateInv'
<1>1. /\ up' \in UpType
      /\ \A t \in Sockets, q \in Receivers : Among(up'[t][q]) \subseteq Among(up[t][q])
  BY ClosingQueues DEF GoTo, NegotiateInv, Types
<1>2. Promises'
  BY <1>1, QuietKeeps DEF tableVars
<1>3. SenderTypes'
  BY DEF NegotiateInv, Types, SenderTypes, GoTo, clockVars
<1>4. UnicastToOne'
  BY StartKeepsOne DEF GoTo, tableVars, NegotiateInv, Types
<1> QED
  BY <1>1, <1>2, <1>3, <1>4 DEF NegotiateInv, Types, TableType, ReceiverTypes, QueueTypes,
       PhasesMean, TableCounted, tableVars, HelloAtMost

LEMMA StartedSomewhere ==
  /\ Started \in NegotiatingPcs \cup EndedPcs \cup {"transfer"}
  /\ {"top", "gaveUp", "cancelled"} \subseteq NegotiatingPcs \cup EndedPcs
  /\ "transfer" \notin {"top", "gaveUp", "cancelled"}
BY DEF Started, NegotiatingPcs, EndedPcs

LEMMA EndDrainKeeps == ASSUME NegotiateInv, EndDrain PROVE NegotiateInv'
<1> DEFINE next == IF CheckClientWait THEN Started ELSE "top"
<1>1. GoTo(next) /\ net' = net /\ tableVars' = tableVars /\ clockVars' = clockVars
      /\ helloTries' = helloTries /\ answered' = answered /\ rcv' = rcv /\ down' = down
  BY DEF EndDrain
<1>2. /\ next \in NegotiatingPcs \cup EndedPcs \cup {"transfer"}
      /\ next = "transfer" => next = Started
  BY StartedSomewhere
<1>3. helloTries' \in Nat /\ HelloAtMost
  BY <1>1 DEF NegotiateInv, Types, SenderTypes, QueueTypes, HelloAtMost
<1> HIDE DEF next
<1> QED
  BY <1>1, <1>2, <1>3, GoToKeeps

LEMMA KeyPressedKeeps == ASSUME NegotiateInv, KeyPressed PROVE NegotiateInv'
<1>1. PICK next \in {Started, "cancelled"} : GoTo(next)
  BY DEF KeyPressed
<1>2. net' = net /\ tableVars' = tableVars /\ clockVars' = clockVars
      /\ helloTries' = helloTries /\ answered' = answered /\ rcv' = rcv /\ down' = down
  BY DEF KeyPressed
<1>3. /\ next \in NegotiatingPcs \cup EndedPcs \cup {"transfer"}
      /\ next = "transfer" => next = Started
  BY StartedSomewhere
<1>4. helloTries' \in Nat /\ HelloAtMost
  BY <1>2 DEF NegotiateInv, Types, SenderTypes, QueueTypes, HelloAtMost
<1> QED
  BY <1>1, <1>2, <1>3, <1>4, GoToKeeps

LEMMA SelectTimesOutKeeps == ASSUME NegotiateInv, SelectTimesOut PROVE NegotiateInv'
<1> DEFINE next == IF (net.autostart # 0 /\ helloTries' > net.autostart) \/ CheckClientWait
                   THEN Started ELSE IF StartTimeoutOver THEN "gaveUp" ELSE "top"
<1>1. GoTo(next) /\ net' = net /\ tableVars' = tableVars /\ clockVars' = clockVars
      /\ answered' = answered /\ rcv' = rcv
  BY DEF SelectTimesOut
<1>2. /\ next \in NegotiatingPcs \cup EndedPcs \cup {"transfer"}
      /\ next = "transfer" => next = Started
  BY StartedSomewhere
<1>3. helloTries' \in Nat
  BY DEF SelectTimesOut, NegotiateInv, Types, SenderTypes
<1>4. HelloAtMost
  BY HelloToAll DEF SelectTimesOut, NegotiateInv, Types, QueueTypes, HelloAtMost
<1> HIDE DEF next
<1> QED
  BY <1>1, <1>2, <1>3, <1>4, GoToKeeps

LEMMA ConsoleAtEofKeeps == ASSUME NegotiateInv, ConsoleAtEof PROVE NegotiateInv'
<1>1. SenderTypes'
  BY DEF NegotiateInv, Types, SenderTypes, ConsoleAtEof, NegotiatingPcs, clockVars
<1>2. unicast' => unicast /\ pc' = pc
  BY DEF NegotiateInv, UnicastToOne, ConsoleAtEof
<1> QED
  BY <1>1, <1>2, IdleKeeps DEF ConsoleAtEof, tableVars

LEMMA ReReplyKeeps == ASSUME NegotiateInv, ReReply PROVE NegotiateInv'
<1> DEFINE n(r) == First(ClientsOf(r))
<1>1. down' = [r \in Receivers |-> IF r \in Unanswered THEN Told(r, Reply(n(r))) ELSE down[r]]
      /\ senderVars' = senderVars /\ rcv' = rcv /\ up' = up
  BY DEF ReReply
<1>2. \A r \in Unanswered : r \in Receivers /\ n(r) \in Clients /\ table[n(r)] = r
  BY SlotsOf DEF Unanswered, Registered, NegotiateInv, Types
<1>3. \A r \in Unanswered : /\ Told(r, Reply(n(r))) \in Queues(DownPackets)
                            /\ Among(Told(r, Reply(n(r)))) \subseteq Among(down[r]) \cup {Reply(n(r))}
  BY <1>2, ToldQueue, Packets DEF Numbers, NegotiateInv, Types
<1> HIDE DEF n
<1>4. down' \in [Receivers -> Queues(DownPackets)]
  BY <1>1, <1>3 DEF NegotiateInv, Types, QueueTypes
<1>5. \A r \in Receivers : \A c \in Clients :
        Reply(c) \in Among(down'[r]) => Reply(c) \in Among(down[r]) \/ table[c] = r
  BY <1>1, <1>2, <1>3, Packets DEF Numbers
<1>6. ToldTruly'
  BY <1>1, <1>5, ToldTrulyKept DEF NegotiateInv, Promises, senderVars, tableVars, Trusted
<1>7. NoFarewell' /\ JoinedAreParticipants'
  BY <1>1 DEF NegotiateInv, Promises, NoFarewell, JoinedAreParticipants, senderVars, tableVars, Trusted
<1>9. NothingTold'
  BY <1>1, <1>2 DEF NegotiateInv, Promises, NothingTold, Told, Listeners
<1>8. Types' /\ TableCounted' /\ UnicastToOne'
  BY <1>1, <1>4 DEF NegotiateInv, Types, SenderTypes, TableType, ReceiverTypes, QueueTypes,
       PhasesMean, TableCounted, UnicastToOne, senderVars, tableVars, clockVars
<1> QED
  BY <1>6, <1>7, <1>8, <1>9 DEF NegotiateInv, Promises
-----------------------------------------------------------------------------
(* The steps of the receivers and of the world. *)

\* A step of r alone that leaves the sender as it is.  If r stays trusted it sends
\* nothing but requests, and is on its way to no number it has not been told; it
\* becomes so only with nothing old on its way in either direction.
LEMMA ReceiverKeeps ==
  ASSUME NegotiateInv, NEW r \in Receivers, NEW R \in ReceiverRecord,
         senderVars' = senderVars, rcv' = [rcv EXCEPT ![r] = R],
         R.phase = "leaving" => R.rounds > 0, R.phase = "asking" => R.cl = NoClient,
         down' \in [Receivers -> Queues(DownPackets)],
         \A q \in Receivers : Among(down'[q]) \subseteq Among(down[q]),
         up' \in UpType,
         \A s \in Sockets, q \in Receivers :
           q # r \/ R.phase \in Steady => Among(up'[s][q]) \subseteq Among(up[s][q]) \cup {Request},
         R.phase \in Steady /\ ~R.hasty =>
           \/ Trusted(r)
           \/ down[r] = <<>> /\ \A s \in Sockets : Disc \notin Among(up[s][r]),
         R.phase \notin Listeners => down'[r] = <<>>,
         R.phase = "joined" /\ R.cl # NoClient /\ ~R.hasty =>
           \/ Reply(R.cl) \in Among(down[r]) /\ Trusted(r)
           \/ rcv[r].phase = "joined" /\ rcv[r].cl = R.cl /\ ~rcv[r].hasty
  PROVE  NegotiateInv'
<1>1. rcv'[r] = R /\ \A q \in Receivers : q # r => rcv'[q] = rcv[q]
  BY DEF NegotiateInv, Types, ReceiverTypes
<1>2. Types'
  <2>1. rcv' \in [Receivers -> ReceiverRecord]
    BY DEF NegotiateInv, Types, ReceiverTypes
  <2> QED
    BY <1>1, <2>1 DEF NegotiateInv, Types, SenderTypes, TableType, ReceiverTypes, QueueTypes,
       PhasesMean, senderVars, tableVars, clockVars
<1>3. table' = table
  BY DEF senderVars, tableVars
<1>4. TableCounted' /\ UnicastToOne'
  BY DEF NegotiateInv, TableCounted, UnicastToOne, senderVars, tableVars
<1>5. \A q \in Receivers : Trusted(q)' =>
        \/ Trusted(q)
        \/ down[q] = <<>> /\ \A s \in Sockets : Disc \notin Among(up[s][q])
  BY <1>1 DEF Trusted
<1>6. NoFarewell'
  <2>1. \A q \in Receivers : Trusted(q)' =>
          \A s \in Sockets : Among(up'[s][q]) \subseteq Among(up[s][q]) \cup {Request}
    BY <1>1 DEF Trusted
  <2>2. \A q \in Receivers : Trusted(q)' =>
          Trusted(q) \/ \A s \in Sockets : Disc \notin Among(up'[s][q])
    BY <1>5, <2>1, Packets
  <2> QED
    BY <2>1, <2>2, NoFarewellKept DEF NegotiateInv, Promises
<1>7. ToldTruly'
  <2>1. Among(<<>>) = {}
    BY EmptyQueue
  <2>2. \A q \in Receivers : Trusted(q)' => Trusted(q) \/ Among(down'[q]) = {}
    BY <1>5, <2>1
  <2> QED
    BY <1>3, <2>2, ToldTrulyKept DEF NegotiateInv, Promises
<1>8. JoinedAreParticipants'
  <2>1. R.phase = "joined" /\ R.cl # NoClient /\ ~R.hasty => table[R.cl] = r
    BY DEF NegotiateInv, Promises, ToldTruly, JoinedAreParticipants, ReceiverRecord, Numbers
  <2> QED
    BY <1>1, <1>3, <2>1 DEF NegotiateInv, Promises, JoinedAreParticipants
<1>9. NothingTold'
  <2>1. \A q \in Receivers : rcv'[q].phase \notin Listeners =>
          \/ down'[q] = <<>>
          \/ rcv[q].phase \notin Listeners /\ Among(down'[q]) \subseteq Among(down[q])
    BY <1>1
  <2> QED
    BY <2>1, NothingToldKept DEF NegotiateInv, Promises
<1> QED
  BY <1>2, <1>4, <1>6, <1>7, <1>8, <1>9 DEF NegotiateInv, Promises

LEMMA Rounds == /\ DisconnectRetries \in Nat /\ DisconnectRetries > 0
                /\ 0 \in 0..DisconnectRetries /\ NoClient \in Numbers
BY NegotiateAssumption DEF Numbers

LEMMA ReceiverFacts ==
  ASSUME NegotiateInv, NEW r \in Receivers
  PROVE  /\ rcv[r] \in ReceiverRecord /\ rcv = [rcv EXCEPT ![r] = rcv[r]]
         /\ up \in UpType /\ down \in [Receivers -> Queues(DownPackets)]
         /\ \A s \in Sockets : "main" \in Sockets /\ "control" \in Sockets
BY DEF NegotiateInv, Types, ReceiverTypes, QueueTypes, Sockets

\* What trust and quiet mean for one receiver.
LEMMA ReceiverQuiet ==
  ASSUME NegotiateInv, NEW r \in Receivers
  PROVE  /\ rcv[r].phase \notin Listeners => down[r] = <<>>
         /\ rcv[r].phase \in Steady /\ ~rcv[r].hasty => Trusted(r)
BY DEF NegotiateInv, Promises, NothingTold, Trusted


\* A request to either socket.
LEMMA RequestHeard ==
  ASSUME NegotiateInv, NEW r \in Receivers, NEW s \in Sockets, up' = Heard(up, s, r, Request)
  PROVE  /\ up' \in UpType
         /\ \A t \in Sockets, q \in Receivers :
              Among(up'[t][q]) \subseteq Among(up[t][q]) \cup {Request}
BY ReceiverFacts, HeardQueue, Packets

LEMMA LaunchKeeps == ASSUME NegotiateInv, NEW r \in Receivers, Launch(r) PROVE NegotiateInv'
<1> DEFINE h == rcv[r].hasty \/ FarewellPending(r)
           R == [Asking EXCEPT !.hasty = h]
<1>1. R \in ReceiverRecord /\ R.phase = "asking" /\ R.cl = NoClient /\ R.hasty = h
  <2>1. h \in BOOLEAN /\ "asking" \in Phases
    BY ReceiverFacts DEF ReceiverRecord, FarewellPending, Phases
  <2> HIDE DEF h
  <2> QED
    BY <2>1, Rounds DEF Asking, NotRunning, ReceiverRecord
<1>2. /\ rcv[r].phase \in {"off", "dead", "gone", "refused"} /\ rcv' = [rcv EXCEPT ![r] = R]
      /\ senderVars' = senderVars /\ down' = down
  BY DEF Launch
<1>3. /\ up' \in UpType
      /\ \A t \in Sockets, q \in Receivers :
           Among(up'[t][q]) \subseteq Among(up[t][q]) \cup {Request}
  <2>1. up' = up \/ up' = Heard(up, "control", r, Request)
    BY DEF Launch
  <2> QED
    BY <2>1, ReceiverFacts, RequestHeard DEF Sockets
<1>4. ~h => \/ Trusted(r)
            \/ down[r] = <<>> /\ \A s \in Sockets : Disc \notin Among(up[s][r])
  <2>1. ~FarewellPending(r) => \A s \in Sockets : Disc \notin Among(up[s][r])
    BY DEF FarewellPending, Among
  <2>2. rcv[r].phase \in {"gone", "refused"} => down[r] = <<>>
    BY DEF NegotiateInv, Promises, NothingTold, Listeners
  <2> QED
    BY <1>2, <2>1, <2>2 DEF Trusted, Steady
<1> HIDE DEF h, R
<1>5. /\ R.phase \in Listeners /\ (R.phase = "asking" => R.cl = NoClient)
      /\ R.phase # "leaving" /\ R.phase # "joined"
  BY <1>1 DEF Listeners
<1>6. down' \in [Receivers -> Queues(DownPackets)]
      /\ \A q \in Receivers : Among(down'[q]) \subseteq Among(down[q])
  BY <1>2, ReceiverFacts
<1> QED
  BY <1>1, <1>2, <1>3, <1>4, <1>5, <1>6, ReceiverKeeps

LEMMA RetryKeeps == ASSUME NegotiateInv, NEW r \in Receivers, Retry(r) PROVE NegotiateInv'
<1>1. /\ up' \in UpType
      /\ \A t \in Sockets, q \in Receivers :
           Among(up'[t][q]) \subseteq Among(up[t][q]) \cup {Request}
  BY RequestHeard DEF Retry, Sockets
<1>2. /\ rcv[r].phase = "asking" /\ rcv[r].cl = NoClient
      /\ rcv' = rcv /\ senderVars' = senderVars /\ down' = down
  BY DEF Retry, NegotiateInv, Types, PhasesMean
<1> QED
  BY <1>1, <1>2, ReceiverFacts, ReceiverQuiet, ReceiverKeeps DEF Listeners

LEMMA ReceiveKeeps == ASSUME NegotiateInv, NEW r \in Receivers, Receive(r) PROVE NegotiateInv'
<1> DEFINE m == Head(down[r])
<1>1. /\ rcv[r].phase = "asking" /\ rcv[r].phase \in Steady /\ down[r] # <<>>
      /\ senderVars' = senderVars
  BY DEF Receive, Steady
<1>2. m \in DownPackets /\ m \in Among(down[r])
  BY <1>1, TailQueue, ReceiverFacts
<1>3. <<>> \in Queues(DownPackets) /\ Among(<<>>) = {}
  BY EmptyQueue
<1>4. CASE m = Hello /\ (r \in net.passive \/ net.async)
  <2> DEFINE R == [rcv[r] EXCEPT !.phase = "joined"]
  <2>1. rcv' = [rcv EXCEPT ![r] = R] /\ down' = [down EXCEPT ![r] = <<>>] /\ up' = up
    BY <1>4 DEF Receive, ReceiveHello, Join
  <2>2. R \in ReceiverRecord /\ R.phase = "joined" /\ R.cl = rcv[r].cl /\ R.hasty = rcv[r].hasty
    BY ReceiverFacts DEF ReceiverRecord, Phases
  <2>3. /\ down' \in [Receivers -> Queues(DownPackets)] /\ down'[r] = <<>>
        /\ \A q \in Receivers : Among(down'[q]) \subseteq Among(down[q])
    BY <1>3, <2>1, ReceiverFacts
  <2>4. rcv[r].cl = NoClient
    BY <1>1 DEF NegotiateInv, Types, PhasesMean
  <2> HIDE DEF R
  <2> QED
    BY <1>1, <2>1, <2>2, <2>3, <2>4, ReceiverFacts, ReceiverQuiet, ReceiverKeeps
<1>5. CASE m = Hello /\ ~(r \in net.passive \/ net.async)
  <2> DEFINE R == [rcv[r] EXCEPT !.server = TRUE]
  <2>1. /\ rcv' = [rcv EXCEPT ![r] = R] /\ down' = Deliver(down, r)
        /\ up' = Heard(up, "main", r, Request)
    BY <1>5, ReceiverFacts DEF Receive, ReceiveHello, ReceiverRecord
  <2>2. R \in ReceiverRecord /\ R.phase = "asking" /\ R.cl = NoClient /\ R.hasty = rcv[r].hasty
    BY <1>1, ReceiverFacts DEF ReceiverRecord, Phases, NegotiateInv, Types, PhasesMean
  <2>3. /\ down' \in [Receivers -> Queues(DownPackets)]
        /\ \A q \in Receivers : Among(down'[q]) \subseteq Among(down[q])
    BY <1>1, <2>1, DownTaken DEF NegotiateInv, Types
  <2>4. /\ up' \in UpType
        /\ \A t \in Sockets, q \in Receivers :
             Among(up'[t][q]) \subseteq Among(up[t][q]) \cup {Request}
    BY <2>1, RequestHeard DEF Sockets
  <2> HIDE DEF R
  <2> QED
    BY <1>1, <2>1, <2>2, <2>3, <2>4, ReceiverQuiet, ReceiverKeeps DEF Listeners
<1>6. CASE m # Hello
  <2>1. PICK c \in Numbers : m = Reply(c)
    BY <1>2, <1>6, Packets
  <2> DEFINE R == [rcv[r] EXCEPT !.phase = IF c = NoClient THEN "refused" ELSE "joined",
                                 !.cl = c, !.server = TRUE]
  <2>2. ReceiveReply(r, c)
    BY <1>6, <2>1, Packets DEF Receive
  <2>3. rcv' = [rcv EXCEPT ![r] = R] /\ down' = [down EXCEPT ![r] = <<>>] /\ up' = up
    BY <2>2 DEF ReceiveReply, Join
  <2>4. R \in ReceiverRecord /\ R.phase \in {"refused", "joined"} /\ R.cl = c /\ R.hasty = rcv[r].hasty
    BY ReceiverFacts DEF ReceiverRecord, Phases
  <2>5. /\ down' \in [Receivers -> Queues(DownPackets)] /\ down'[r] = <<>>
        /\ \A q \in Receivers : Among(down'[q]) \subseteq Among(down[q])
    BY <1>3, <2>3, ReceiverFacts
  <2> HIDE DEF R
  <2> QED
    BY <1>1, <1>2, <2>1, <2>3, <2>4, <2>5, ReceiverFacts, ReceiverQuiet, ReceiverKeeps DEF Steady
<1> QED
  BY <1>4, <1>5, <1>6

LEMMA DownLostKeeps ==
  ASSUME NegotiateInv, NEW r \in Receivers, down[r] # <<>>, down' = Deliver(down, r),
         senderVars' = senderVars, rcv' = rcv, up' = up
  PROVE  NegotiateInv'
<1>1. /\ down' \in [Receivers -> Queues(DownPackets)]
      /\ \A q \in Receivers : Among(down'[q]) \subseteq Among(down[q])
  BY DownTaken DEF NegotiateInv, Types
<1>2. /\ rcv[r].phase = "leaving" => rcv[r].rounds > 0
      /\ rcv[r].phase = "asking" => rcv[r].cl = NoClient
  BY DEF NegotiateInv, Types, PhasesMean
<1> QED
  BY <1>1, <1>2, ReceiverFacts, ReceiverQuiet, ReceiverKeeps

LEMMA UpLostKeeps ==
  ASSUME NegotiateInv, NEW r \in Receivers, NEW s \in Sockets, up[s][r] # <<>>,
         up' = [up EXCEPT ![s] = Deliver(@, r)],
         senderVars' = senderVars, rcv' = rcv, down' = down
  PROVE  NegotiateInv'
<1>1. /\ up' \in UpType
      /\ \A t \in Sockets, q \in Receivers : Among(up'[t][q]) \subseteq Among(up[t][q])
  BY UpTaken DEF NegotiateInv, Types
<1>2. /\ rcv[r].phase = "leaving" => rcv[r].rounds > 0
      /\ rcv[r].phase = "asking" => rcv[r].cl = NoClient
  BY DEF NegotiateInv, Types, PhasesMean
<1> QED
  BY <1>1, <1>2, ReceiverFacts, ReceiverQuiet, ReceiverKeeps

LEMMA GiveUpKeeps == ASSUME NegotiateInv, NEW r \in Receivers, GiveUp(r) PROVE NegotiateInv'
<1> DEFINE R == [rcv[r] EXCEPT !.phase = "leaving", !.rounds = DisconnectRetries]
<1>1. /\ rcv' = [rcv EXCEPT ![r] = R] /\ senderVars' = senderVars
      /\ down' = down /\ up' = up /\ down[r] = <<>>
  BY ReceiverFacts DEF GiveUp, Silence, ReceiverRecord
<1>2. R \in ReceiverRecord /\ R.phase = "leaving" /\ R.rounds > 0
  <2>1. DisconnectRetries \in 0..DisconnectRetries /\ "leaving" \in Phases
    BY Rounds DEF Phases
  <2> QED
    BY <2>1, Rounds, ReceiverFacts DEF ReceiverRecord
<1> HIDE DEF R
<1> QED
  BY <1>1, <1>2, ReceiverFacts, ReceiverKeeps DEF Steady

LEMMA SendDisconnectKeeps ==
  ASSUME NegotiateInv, NEW r \in Receivers, SendDisconnect(r)
  PROVE  NegotiateInv'
<1> DEFINE n == rcv[r].rounds
           R == [rcv[r] EXCEPT !.rounds = n - 1,
                               !.phase = IF n = 1 THEN "gone" ELSE "leaving"]
           direct == IF rcv[r].server THEN Heard(up, "main", r, Disc) ELSE up
<1>1. /\ rcv[r].phase = "leaving" /\ rcv' = [rcv EXCEPT ![r] = R]
      /\ senderVars' = senderVars /\ down' = down /\ down[r] = <<>>
  BY ReceiverFacts DEF SendDisconnect, Silence, ReceiverRecord
<1>2. n \in 1..DisconnectRetries
  BY <1>1, ReceiverFacts DEF NegotiateInv, Types, PhasesMean, ReceiverRecord
<1>3. /\ R \in ReceiverRecord /\ R.phase \in {"gone", "leaving"}
      /\ R.phase = "leaving" => R.rounds > 0
  <2>1. n - 1 \in 0..DisconnectRetries /\ (n # 1 => n - 1 > 0)
    BY <1>2, Rounds
  <2> HIDE DEF n
  <2> QED
    BY <2>1, ReceiverFacts DEF ReceiverRecord, Phases
<1>4. direct \in UpType /\ \A t \in Sockets, q \in Receivers : q # r => direct[t][q] = up[t][q]
  BY ReceiverFacts, HeardQueue, Packets DEF Sockets
<1> HIDE DEF direct
<1>5. up' = Heard(direct, "control", r, Disc)
  BY DEF SendDisconnect, Farewell, direct
<1>6. up' \in UpType /\ \A t \in Sockets, q \in Receivers : q # r => up'[t][q] = up[t][q]
  <2>1. "control" \in Sockets /\ Disc \in UpPackets
    BY Packets DEF Sockets
  <2>2. /\ Heard(direct, "control", r, Disc) \in UpType
        /\ \A t \in Sockets, q \in Receivers :
             q # r => Heard(direct, "control", r, Disc)[t][q] = direct[t][q]
    BY <1>4, <2>1, HeardQueue
  <2> QED
    BY <1>4, <1>5, <2>2
<1> HIDE DEF R
<1>7. R.phase \notin Steady /\ R.phase # "asking" /\ R.phase # "joined"
  BY <1>3 DEF Steady
<1>8. \A s \in Sockets, q \in Receivers :
        q # r \/ R.phase \in Steady => Among(up'[s][q]) \subseteq Among(up[s][q]) \cup {Request}
  BY <1>6, <1>7
<1>9. \A q \in Receivers : Among(down'[q]) \subseteq Among(down[q])
  BY <1>1
<1>10. down' \in [Receivers -> Queues(DownPackets)]
  BY <1>1, ReceiverFacts
<1> QED
  BY <1>1, <1>3, <1>6, <1>7, <1>8, <1>9, <1>10, ReceiverKeeps

LEMMA KillKeeps == ASSUME NegotiateInv, NEW r \in Receivers, Kill(r) PROVE NegotiateInv'
<1> DEFINE R == [NotRunning EXCEPT !.phase = "dead", !.hasty = rcv[r].hasty]
<1>1. /\ rcv' = [rcv EXCEPT ![r] = R] /\ rcv[r].phase \in Steady
      /\ senderVars' = senderVars /\ down' = down /\ up' = up
  BY DEF Kill, Steady
<1>2. R \in ReceiverRecord /\ R.phase = "dead" /\ R.cl = NoClient /\ R.hasty = rcv[r].hasty
  <2>1. rcv[r].hasty \in BOOLEAN /\ "dead" \in Phases
    BY ReceiverFacts DEF ReceiverRecord, Phases
  <2> QED
    BY <2>1, Rounds DEF NotRunning, ReceiverRecord
<1> HIDE DEF R
<1> QED
  BY <1>1, <1>2, ReceiverFacts, ReceiverQuiet, ReceiverKeeps DEF Listeners
-----------------------------------------------------------------------------
(* The invariant and what it says. *)

LEMMA NegotiateStarts == Init => NegotiateInv
<1> SUFFICES ASSUME Init PROVE NegotiateInv
  OBVIOUS
<1>1. <<>> \in Queues(DownPackets) /\ <<>> \in Queues(UpPackets) /\ Among(<<>>) = {}
  BY EmptyQueue
<1>2. /\ \A r \in Receivers : rcv[r] = NotRunning /\ down[r] = <<>>
      /\ \A s \in Sockets, r \in Receivers : up[s][r] = <<>>
  BY DEF Init, EmptyChannel, NobodyHeard
<1>3. NotRunning \in ReceiverRecord /\ NotRunning.phase = "off" /\ NotRunning.cl = NoClient
  BY Rounds DEF NotRunning, ReceiverRecord, Phases
<1>4. SenderTypes /\ TableType /\ UnicastToOne
  BY DEF Init, SenderTypes, TableType, UnicastToOne, NegotiatingPcs
<1>5. ReceiverTypes /\ QueueTypes /\ PhasesMean
  <2>1. ReceiverTypes
    BY <1>3 DEF Init, ReceiverTypes
  <2>2. QueueTypes
    BY <1>1 DEF Init, QueueTypes, UpType, EmptyChannel, NobodyHeard
  <2>3. PhasesMean
    BY <1>2, <1>3 DEF PhasesMean
  <2> QED
    BY <2>1, <2>2, <2>3
<1>6. TableCounted
  <2>1. {c \in Clients : table[c] # Unused} = {}
    BY DEF Init
  <2> QED
    BY <2>1, FS_EmptySet DEF Init, TableCounted
<1>7. Promises
  BY <1>1, <1>2, <1>3 DEF Promises, NoFarewell, ToldTruly, NothingTold, JoinedAreParticipants
<1> QED
  BY <1>4, <1>5, <1>6, <1>7 DEF NegotiateInv, Types

LEMMA NegotiateSteps == NegotiateInv /\ [Next]_vars => NegotiateInv'
<1> SUFFICES ASSUME NegotiateInv, [Next]_vars PROVE NegotiateInv'
  OBVIOUS
<1>1. CASE UNCHANGED vars
  <2>1. SenderTypes' /\ unicast' = unicast /\ pc' = pc
    BY <1>1 DEF vars, senderVars, clockVars, NegotiateInv, Types, SenderTypes
  <2> QED
    BY <1>1, <2>1, IdleKeeps DEF vars, senderVars, tableVars
<1>2. CASE SenderRound \/ KeyPressed \/ SecondPasses \/ ReReply
  BY <1>2, AnnounceKeeps, BeginRoundKeeps, EndDrainKeeps, SelectTimesOutKeeps, KeyPressedKeeps, ConsoleAtEofKeeps,
     SecondPassesKeeps, ReReplyKeeps DEF SenderRound
<1>3. CASE SenderReads
  BY <1>3, ReadKeeps, RcReadKeeps DEF SenderReads
<1>4. ASSUME NEW r \in Receivers, Launch(r) \/ ReceiverStep(r)
      PROVE  NegotiateInv'
  <2>1. CASE Ignore(r)
    BY <2>1, DownLostKeeps DEF Ignore
  <2> QED
    BY <1>4, <2>1, LaunchKeeps, RetryKeeps, ReceiveKeeps, AnswerKeeps, SendDisconnectKeeps
    DEF ReceiverStep
<1>5. ASSUME NEW r \in Receivers, Failure(r)
      PROVE  NegotiateInv'
  <2>1. CASE LoseDown(r)
    BY <2>1, DownLostKeeps DEF LoseDown
  <2>2. CASE \E s \in Sockets : LoseUp(s, r)
    BY <2>2, UpLostKeeps DEF LoseUp
  <2> QED
    BY <1>5, <2>1, <2>2, GiveUpKeeps, KillKeeps DEF Failure
<1> QED
  BY <1>1, <1>2, <1>3, <1>4, <1>5 DEF Next

LEMMA NegotiateAlways == Spec => []NegotiateInv
BY NegotiateStarts, NegotiateSteps, PTL DEF Spec

\* The sender, the receivers and their queues keep their types, whatever is
\* sent, lost or started again (Negotiate's Spec).
THEOREM NegotiationTyped == Spec => []TypeOK
<1>1. NegotiateInv => TypeOK
  <2> SUFFICES ASSUME NegotiateInv PROVE TypeOK
    OBVIOUS
  <2>1. \A r \in Receivers : ReceiverType(rcv[r])
    BY DEF NegotiateInv, Types, ReceiverTypes, ReceiverRecord, ReceiverType, Phases, Numbers
  <2>2. \A r \in Receivers : \A s \in Sockets : Len(down[r]) <= ChanCap /\ Len(up[s][r]) <= ChanCap
    BY DEF NegotiateInv, Types, QueueTypes, UpType, Queues
  <2> QED
    BY <2>1, <2>2 DEF NegotiateInv, Types, SenderTypes, TableType, TypeOK
<1> QED
  BY <1>1, NegotiateAlways, PTL

\* The counter is the number of slots in use and no receiver has two slots: add
\* and remove in participants.rs keep it so, however often a receiver asks or leaves.
THEOREM SlotsCounted == Spec => []TableCounted
<1>1. NegotiateInv => TableCounted
  BY DEF NegotiateInv
<1> QED
  BY <1>1, NegotiateAlways, PTL

\* A receiver that was told a number and has not left holds that slot, whichever
\* requests, replies and disconnections are lost or repeated on the way.
THEOREM NumbersHold == Spec => []JoinedAreParticipants
<1>1. NegotiateInv => JoinedAreParticipants
  BY DEF NegotiateInv, Promises
<1> QED
  BY <1>1, NegotiateAlways, PTL

\* When the sender sends data to one address (start_sender's choice between
\* point-to-point and the group), at most one receiver was told to expect it.
THEOREM UnicastReachesAll == Spec => []UnicastAlone
<1>1. NegotiateInv => UnicastAlone
  <2> SUFFICES ASSUME NegotiateInv, unicast PROVE UnicastAlone
    BY DEF UnicastAlone
  <2> DEFINE J == {r \in Receivers : /\ rcv[r].phase = "joined" /\ rcv[r].cl # NoClient
                               /\ ~rcv[r].hasty}
  <2>1. \A r \in J : rcv[r].cl \in Used /\ table[rcv[r].cl] = r
    BY NegotiateAssumption DEF NegotiateInv, Promises, JoinedAreParticipants, Types,
       ReceiverTypes, ReceiverRecord, Numbers, Used
  <2>2. IsFiniteSet(Used) /\ Cardinality(Used) <= 1 /\ Cardinality(Used) \in Nat
    BY UsedFinite DEF NegotiateInv, UnicastToOne, TableCounted, Used
  <2>3. Used = {} \/ \E c \in Clients : Used = {c}
    <3>1. CASE Cardinality(Used) = 0
      BY <2>2, <3>1, FS_EmptySet
    <3>2. CASE Cardinality(Used) = 1
      BY <2>2, <3>2, FS_Singleton DEF Used
    <3> QED
      BY <2>2, <3>1, <3>2
  <2>4. \A q, r \in J : q = r
    BY <2>1, <2>3
  <2>5. Cardinality(J) <= 1
    <3>1. J = {} \/ \E r \in J : J = {r}
      BY <2>4
    <3> HIDE DEF J
    <3>2. Cardinality(J) = 0 \/ Cardinality(J) = 1
      BY <3>1, FS_EmptySet, FS_Singleton
    <3> QED
      BY <3>2
  <2> QED
    BY <2>5 DEF UnicastAlone
<1> QED
  BY <1>1, NegotiateAlways, PTL
=============================================================================
