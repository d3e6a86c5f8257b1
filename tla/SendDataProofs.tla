--------------------------- MODULE SendDataProofs ---------------------------
(***************************************************************************)
(* Lemmas about the sender's data phase alone, for every number of         *)
(* receivers, slices and blocks: what a step of one of its threads         *)
(* preserves, whatever answers its return channel is given.  ReleaseProofs *)
(* and TransferProofs put receivers and a network around it.               *)
(***************************************************************************)
EXTENDS SendData, FiniteSetTheorems, WellFoundedInduction, TLAPS

-----------------------------------------------------------------------------
(* Natural numbers and recursive functions.  A recursive function is the   *)
(* CHOOSE of a function that satisfies its equation, so that there is one  *)
(* has to be shown first.                                                  *)

\* Every nonempty set of natural numbers has a least element.
LEMMA LeastNat ==
  ASSUME NEW S \in SUBSET Nat, S # {}
  PROVE  \E n \in S : \A m \in S : n <= m
<1> DEFINE Below == {0..c : c \in S}
<1>1. Below \subseteq FiniteSubsetsOf(Nat) /\ Below # {}
  <2>1. \A c \in S : 0..c \in FiniteSubsetsOf(Nat)
    BY FS_Interval DEF FiniteSubsetsOf
  <2> QED
    BY <2>1
<1>2. IsWellFoundedOn(StrictSubsetOrdering(Nat), FiniteSubsetsOf(Nat))
  BY FS_StrictSubsetOrderingWellFounded
<1>3. PICK x \in Below : \A y \in Below : ~ (<<y, x>> \in StrictSubsetOrdering(Nat))
  <2> HIDE DEF Below
  <2> QED
    BY <1>1, <1>2, WFMin
<1>4. PICK c \in S : x = 0..c
  BY <1>3
<1>5. ASSUME NEW d \in S, d < c
      PROVE  FALSE
  <2>1. 0..d \in Below /\ 0..d \subseteq 0..c /\ c \in 0..c /\ c \notin 0..d
    BY <1>5
  <2>2. <<0..d, 0..c>> \in StrictSubsetOrdering(Nat)
    BY <2>1 DEF StrictSubsetOrdering
  <2> QED
    BY <1>3, <1>4, <2>1, <2>2
<1> QED
  BY <1>5

\* Induction up to n, with the set of the numbers that have the property.
LEMMA UpTo ==
  ASSUME NEW n \in Nat, NEW S, 0 \in S,
         \A k \in 1..n : k - 1 \in S => k \in S
  PROVE  0..n \subseteq S
<1> SUFFICES ASSUME NEW x \in 0..n, x \notin S PROVE FALSE
  OBVIOUS
<1> DEFINE Bad == {k \in 0..n : k \notin S}
<1>1. Bad \in SUBSET Nat /\ Bad # {}
  OBVIOUS
<1>2. PICK k \in Bad : \A m \in Bad : k <= m
  <2> HIDE DEF Bad
  <2> QED
    BY <1>1, LeastNat
<1>3. k \in 1..n /\ k - 1 \in 0..n /\ ~ (k <= k - 1)
  BY <1>2
<1>4. k - 1 \in S
  BY <1>2, <1>3
<1> QED
  BY <1>2, <1>3, <1>4

\* g[k] is what k applications of the functions F[1], F[2], ... to x come to.
Runs(n, F, x, g) == g[0] = x /\ \A k \in 1..n : g[k] = F[k][g[k - 1]]

\* There is such a function.
LEMMA Iteration ==
  ASSUME NEW n \in Nat, NEW S, NEW x \in S, NEW F \in [1..n -> [S -> S]]
  PROVE  \E g \in [0..n -> S] : Runs(n, F, x, g)
<1> DEFINE Good == {m \in 0..n : \E g \in [0..m -> S] : Runs(m, F, x, g)}
<1>1. 0 \in Good
  <2> DEFINE h == [k \in 0..0 |-> x]
  <2>1. h \in [0..0 -> S] /\ Runs(0, F, x, h)
    BY DEF Runs
  <2> HIDE DEF h
  <2> QED
    BY <2>1
<1>2. ASSUME NEW m \in 1..n, m - 1 \in Good
      PROVE  m \in Good
  <2>1. PICK g \in [0..m - 1 -> S] : Runs(m - 1, F, x, g)
    BY <1>2
  <2> DEFINE h == [k \in 0..m |-> IF k = m THEN F[m][g[m - 1]] ELSE g[k]]
  <2>2. g[m - 1] \in S /\ F[m] \in [S -> S]
    BY <2>1
  <2>3. h \in [0..m -> S] /\ h[0] = x
    BY <2>1, <2>2 DEF Runs
  <2>4. \A k \in 1..m : h[k] = F[k][h[k - 1]]
    BY <2>1 DEF Runs
  <2>5. Runs(m, F, x, h)
    BY <2>3, <2>4 DEF Runs
  <2> HIDE DEF h
  <2> QED
    BY <2>3, <2>5
<1>3. n \in Good
  <2> HIDE DEF Good
  <2>1. 0..n \subseteq Good
    BY <1>1, <1>2, UpTo
  <2> QED
    BY <2>1
<1> QED
  BY <1>3

-----------------------------------------------------------------------------
LEMMA FiniteSubset ==
  ASSUME NEW S \in SUBSET Receivers
  PROVE  IsFiniteSet(S) /\ Cardinality(S) \in Nat
<1>1. IsFiniteSet(S)
  BY ReceiversAssumption, FS_Subset
<1>2. Cardinality(S) \in Nat
  BY <1>1, FS_CardinalityType
<1> QED
  BY <1>1, <1>2

-----------------------------------------------------------------------------
(* Slices whose counters match their sets. *)

SliceOK(sl) ==
  /\ sl \in SliceType
  /\ sl.nrReady = Cardinality(sl.ready)
  /\ sl.nrAnswered = Cardinality(sl.answered)
  /\ sl.state = "Xmitted" => sl.no \in Nat

\* A slice in flight has a number.
Numbered == \A s \in Pending : slices[s].no \in Nat

\* Type correctness and the counters, as one inductive invariant: neither is
\* inductive alone, nr_ready - 1 is a natural number because the set has an
\* element to remove.
CoreInv == SenderTypeOK /\ CountersMatch /\ Numbered

LEMMA SlicesOK ==
  ASSUME CoreInv
  PROVE  \A s \in Slots : SliceOK(slices[s])
BY DEF CoreInv, SenderTypeOK, CountersMatch, Numbered, Pending, SliceOK

LEMMA FreeSliceOK == SliceOK(FreeSlice)
BY FS_EmptySet DEF SliceOK, SliceType, FreeSlice, NoSlice

\* An OK of client c.
LEMMA OkSliceOK ==
  ASSUME NEW sl, SliceOK(sl), NEW c \in Receivers
  PROVE  SliceOK([sl EXCEPT
                    !.ready = @ \cup {c},
                    !.nrReady = IF c \in sl.ready THEN @ ELSE @ + 1,
                    !.answered = @ \cup {c},
                    !.nrAnswered = IF c \in sl.answered THEN @ ELSE @ + 1])
<1>1. IsFiniteSet(sl.ready) /\ IsFiniteSet(sl.answered)
  BY FiniteSubset DEF SliceOK, SliceType
<1>2. Cardinality(sl.ready \cup {c}) = IF c \in sl.ready THEN sl.nrReady ELSE sl.nrReady + 1
  BY <1>1, FS_AddElement DEF SliceOK
<1>3. Cardinality(sl.answered \cup {c}) = IF c \in sl.answered THEN sl.nrAnswered ELSE sl.nrAnswered + 1
  BY <1>1, FS_AddElement DEF SliceOK
<1> DEFINE new == [sl EXCEPT
                 !.ready = @ \cup {c},
                 !.nrReady = IF c \in sl.ready THEN @ ELSE @ + 1,
                 !.answered = @ \cup {c},
                 !.nrAnswered = IF c \in sl.answered THEN @ ELSE @ + 1]
<1>4. /\ (IF c \in sl.ready THEN sl.nrReady ELSE sl.nrReady + 1) \in Nat
      /\ (IF c \in sl.answered THEN sl.nrAnswered ELSE sl.nrAnswered + 1) \in Nat
  BY DEF SliceOK, SliceType
<1>5. new \in SliceType
  BY <1>4 DEF SliceOK, SliceType
<1>6. /\ new.nrReady = Cardinality(new.ready) /\ new.nrAnswered = Cardinality(new.answered)
      /\ new.state = sl.state /\ new.no = sl.no
  BY <1>2, <1>3 DEF SliceOK, SliceType
<1> QED
  BY <1>5, <1>6 DEF SliceOK

\* A retransmission request of client c for the blocks miss.
LEMMA RetransmitSliceOK ==
  ASSUME NEW sl, SliceOK(sl), NEW c \in Receivers, NEW miss \in SUBSET Nat
  PROVE  SliceOK([sl EXCEPT
                    !.rxmitMap = @ \cup miss,
                    !.needRxmit = TRUE,
                    !.answered = @ \cup {c},
                    !.nrAnswered = IF c \in sl.answered THEN @ ELSE @ + 1])
<1>1. IsFiniteSet(sl.answered)
  BY FiniteSubset DEF SliceOK, SliceType
<1>2. Cardinality(sl.answered \cup {c}) = IF c \in sl.answered THEN sl.nrAnswered ELSE sl.nrAnswered + 1
  BY <1>1, FS_AddElement DEF SliceOK
<1> DEFINE new == [sl EXCEPT
                 !.rxmitMap = @ \cup miss,
                 !.needRxmit = TRUE,
                 !.answered = @ \cup {c},
                 !.nrAnswered = IF c \in sl.answered THEN @ ELSE @ + 1]
<1>4. (IF c \in sl.answered THEN sl.nrAnswered ELSE sl.nrAnswered + 1) \in Nat
  BY DEF SliceOK, SliceType
<1>5. new \in SliceType
  BY <1>4 DEF SliceOK, SliceType
<1>6. /\ new.nrReady = Cardinality(new.ready) /\ new.nrAnswered = Cardinality(new.answered)
      /\ new.state = sl.state /\ new.no = sl.no
  BY <1>2 DEF SliceOK, SliceType
<1> QED
  BY <1>5, <1>6 DEF SliceOK

\* The disconnection of client c.
LEMMA DisconnectSliceOK ==
  ASSUME NEW sl, SliceOK(sl), NEW c
  PROVE  SliceOK([sl EXCEPT
                    !.ready = @ \ {c},
                    !.nrReady = IF c \in sl.ready THEN @ - 1 ELSE @,
                    !.answered = @ \ {c},
                    !.nrAnswered = IF c \in sl.answered THEN @ - 1 ELSE @])
<1>1. IsFiniteSet(sl.ready) /\ IsFiniteSet(sl.answered)
  BY FiniteSubset DEF SliceOK, SliceType
<1>2. Cardinality(sl.ready \ {c}) = IF c \in sl.ready THEN sl.nrReady - 1 ELSE sl.nrReady
  BY <1>1, FS_RemoveElement DEF SliceOK
<1>3. Cardinality(sl.answered \ {c}) = IF c \in sl.answered THEN sl.nrAnswered - 1 ELSE sl.nrAnswered
  BY <1>1, FS_RemoveElement DEF SliceOK
<1>4. /\ (IF c \in sl.ready THEN sl.nrReady - 1 ELSE sl.nrReady) \in Nat
      /\ (IF c \in sl.answered THEN sl.nrAnswered - 1 ELSE sl.nrAnswered) \in Nat
  <2>1. sl.ready \ {c} \in SUBSET Receivers /\ sl.answered \ {c} \in SUBSET Receivers
    BY DEF SliceOK, SliceType
  <2> QED
    BY <2>1, <1>2, <1>3, FiniteSubset
<1> DEFINE new == [sl EXCEPT
                 !.ready = @ \ {c},
                 !.nrReady = IF c \in sl.ready THEN @ - 1 ELSE @,
                 !.answered = @ \ {c},
                 !.nrAnswered = IF c \in sl.answered THEN @ - 1 ELSE @]
<1>5. new \in SliceType
  BY <1>4 DEF SliceOK, SliceType
<1>6. /\ new.nrReady = Cardinality(new.ready) /\ new.nrAnswered = Cardinality(new.answered)
      /\ new.state = sl.state /\ new.no = sl.no
  BY <1>2, <1>3 DEF SliceOK, SliceType
<1> QED
  BY <1>5, <1>6 DEF SliceOK

\* A new round, whether or not its number is counted up.
LEMMA NewRoundOK ==
  ASSUME NEW sl, SliceOK(sl)
  PROVE  SliceOK(NewRound(NextRound(sl)))
<1> DEFINE up  == NextRound(sl)
           new == NewRound(up)
<1>1. up \in SliceType
  BY DEF SliceOK, SliceType, NextRound
<1>2. /\ up.ready = sl.ready /\ up.nrReady = sl.nrReady
      /\ up.state = sl.state /\ up.no = sl.no
  BY DEF SliceOK, SliceType, NextRound
<1>3. new \in SliceType
  BY <1>1 DEF SliceType, NewRound
<1>4. /\ new.ready = up.ready /\ new.nrReady = up.nrReady
      /\ new.answered = up.ready /\ new.nrAnswered = up.nrReady
      /\ new.state = up.state /\ new.no = up.no
  BY <1>1 DEF SliceType, NewRound
<1>5. SliceOK(new)
  <2> HIDE DEF new, up
  <2> QED
    BY <1>2, <1>3, <1>4 DEF SliceOK
<1> QED
  BY <1>5

\* Dropping or disconnecting clients keeps the participant counter exact.
LEMMA RemoveCounts ==
  ASSUME CoreInv, NEW C, RemoveParticipants(C)
  PROVE  /\ valid' \in SUBSET Receivers /\ nrParticipants' \in Nat
         /\ nrParticipants' = Cardinality(valid')
<1>1. valid' = valid \ C /\ nrParticipants' = nrParticipants - Cardinality(C \cap valid)
  BY DEF RemoveParticipants
<1>2. valid \in SUBSET Receivers /\ nrParticipants = Cardinality(valid)
  BY DEF CoreInv, SenderTypeOK, CountersMatch
<1>3. IsFiniteSet(valid)
  BY <1>2, FiniteSubset
<1>4. Cardinality(valid \ C) = Cardinality(valid) - Cardinality(valid \cap C)
  BY <1>3, FS_Difference
<1>5. valid' \in SUBSET Receivers
  BY <1>1, <1>2
<1>6. Cardinality(valid') \in Nat
  BY <1>5, FiniteSubset
<1>7. C \cap valid = valid \cap C
  OBVIOUS
<1> QED
  BY <1>1, <1>2, <1>4, <1>5, <1>6, <1>7

-----------------------------------------------------------------------------
(* Each kind of step preserves CoreInv. *)

\* What CoreInv says of everything but the slice table and the participants.
Rest ==
  /\ async \in AsyncModes
  /\ pc \in {"top", "replied", "acking", "rexmitting", "reqacking", "fill", "wait", "expired", "done"}
  /\ sliceNo \in Nat /\ atEnd \in BOOLEAN /\ firstSliceAcked \in BOOLEAN
  /\ msgs \in Seq(MsgType) /\ rcHeld \in Seq(MsgType) /\ Len(rcHeld) <= 1
  /\ ring \in [0..RingBlocks - 1 -> Nat]
  /\ readPos \in Nat /\ takenPos \in Nat /\ freeMem \in Nat
  /\ freeEnd \in BOOLEAN /\ reader \in {"reading", "eof", "stopped"}

Table == slices \in [Slots -> SliceType] /\ \A s \in Slots : SliceOK(slices[s])

Db ==
  /\ valid \in SUBSET Receivers
  /\ nrParticipants \in Nat /\ nrParticipants = Cardinality(valid)
  /\ everAnswered \in SUBSET Receivers
  /\ firstRound \in [Receivers -> [no : Nat \cup {NoSlice}, round : Nat]]

LEMMA CoreParts == CoreInv <=> Rest /\ Table /\ Db
<1>1. CoreInv => Rest /\ Table /\ Db
  BY DEF CoreInv, SenderTypeOK, CountersMatch, Numbered, Pending, Rest, Table, Db, SliceOK
<1>2. Rest /\ Table /\ Db => SenderTypeOK
  BY DEF SenderTypeOK, Rest, Table, Db
<1>3. Rest /\ Table /\ Db => CountersMatch
  BY DEF CountersMatch, Table, Db, SliceOK
<1>4. Rest /\ Table /\ Db => Numbered
  BY DEF Numbered, Pending, Table, SliceOK
<1> QED
  BY <1>1, <1>2, <1>3, <1>4 DEF CoreInv

LEMMA CorePartsNext == CoreInv' <=> Rest' /\ Table' /\ Db'
BY CoreParts, PTL

\* A slice table built slot by slot.
LEMMA TableBuilt ==
  ASSUME NEW f, f = [s \in Slots |-> f[s]], \A s \in Slots : SliceOK(f[s]), slices' = f
  PROVE  Table'
BY DEF Table, SliceOK

\* A slice table that differs in one slot.
LEMMA TableChanged ==
  ASSUME Table, NEW s \in Slots, NEW sl, SliceOK(sl), slices' = [slices EXCEPT ![s] = sl]
  PROVE  Table'
BY DEF Table, SliceOK

LEMMA InitCore == SendInit => CoreInv
<1> SUFFICES ASSUME SendInit PROVE Rest /\ Table /\ Db
  BY CoreParts
<1>1. Rest
  <2>1. RingBlocks \in Nat
    BY SizesAssumption
  <2>2. ring \in [0..RingBlocks - 1 -> Nat]
    BY DEF SendInit
  <2>3. msgs \in Seq(MsgType) /\ rcHeld \in Seq(MsgType) /\ Len(rcHeld) <= 1
    BY DEF SendInit
  <2> QED
    BY <2>1, <2>2, <2>3 DEF SendInit, Rest
<1>2. Table
  BY FreeSliceOK DEF SendInit, Table, SliceOK
<1>3. Db
  <2>1. Cardinality(Receivers) \in Nat
    BY FiniteSubset
  <2> QED
    BY <2>1 DEF SendInit, DbInit, Db, NeverAnswered, NoSlice
<1> QED
  BY <1>1, <1>2, <1>3

LEMMA MarkAnsweredDb ==
  ASSUME Db, NEW c \in Receivers, NEW no \in Nat \cup {NoSlice}, NEW round \in Nat,
         MarkAnswered(c, no, round)
  PROVE  Db'
BY DEF Db, MarkAnswered

LEMMA RemoveParticipantsDb ==
  ASSUME Db, CoreInv, NEW C, RemoveParticipants(C)
  PROVE  Db'
BY RemoveCounts DEF Db, RemoveParticipants

LEMMA HandleOkCore ==
  ASSUME CoreInv, NEW m \in MsgType, HandleOk(m)
  PROVE  Table' /\ Db'
<1> USE CoreParts
<1>1. m.cl \in Receivers /\ m.no \in Nat
  BY DEF HandleOk, MsgType
<1>2. Table'
  <2> DEFINE f == [s \in Slots |->
                     IF s \notin FindSlice(m.no) THEN slices[s]
                     ELSE [slices[s] EXCEPT
                             !.ready = @ \cup {m.cl},
                             !.nrReady = IF m.cl \in slices[s].ready THEN @ ELSE @ + 1,
                             !.answered = @ \cup {m.cl},
                             !.nrAnswered = IF m.cl \in slices[s].answered THEN @ ELSE @ + 1]]
  <2>1. \A s \in Slots : SliceOK(f[s])
    BY <1>1, SlicesOK, OkSliceOK
  <2>2. slices' = f
    BY DEF HandleOk
  <2> QED
    BY <2>1, <2>2, TableBuilt
<1>3. Db'
  <2>1. CASE FindSlice(m.no) = {}
    <3>1. MarkAnswered(m.cl, NoSlice, 0)
      BY <2>1 DEF HandleOk
    <3> QED
      BY <1>1, <3>1, MarkAnsweredDb
  <2>2. CASE FindSlice(m.no) # {}
    <3>1. PICK s \in FindSlice(m.no) : MarkAnswered(m.cl, m.no, slices[s].rxmitId)
      BY <2>2 DEF HandleOk
    <3>2. slices[s].rxmitId \in Nat
      BY <3>1, SlicesOK DEF FindSlice, SliceOK, SliceType
    <3> QED
      BY <1>1, <3>1, <3>2, MarkAnsweredDb
  <2> QED
    BY <2>1, <2>2
<1> QED
  BY <1>2, <1>3

LEMMA HandleRetransmitCore ==
  ASSUME CoreInv, NEW m \in MsgType, HandleRetransmit(m)
  PROVE  Table' /\ Db'
<1> USE CoreParts
<1>1. m.cl \in Receivers /\ m.no \in Nat
  BY DEF HandleRetransmit, MsgType
<1>2. Table'
  <2> DEFINE f == [s \in Slots |->
                     IF s \notin FindSlice(m.no) THEN slices[s]
                     ELSE [slices[s] EXCEPT
                             !.rxmitMap = @ \cup ((0..slices[s].blocks - 1) \ m.have),
                             !.needRxmit = TRUE,
                             !.answered = @ \cup {m.cl},
                             !.nrAnswered = IF m.cl \in slices[s].answered THEN @ ELSE @ + 1]]
  <2>1. \A s \in Slots : SliceOK(f[s])
    <3> SUFFICES ASSUME NEW s \in Slots PROVE SliceOK(f[s])
      OBVIOUS
    <3>1. SliceOK(slices[s])
      BY SlicesOK
    <3>2. (0..slices[s].blocks - 1) \ m.have \in SUBSET Nat
      BY <3>1 DEF SliceOK, SliceType
    <3> QED
      BY <1>1, <3>1, <3>2, RetransmitSliceOK
  <2>2. slices' = f
    BY DEF HandleRetransmit
  <2> QED
    BY <2>1, <2>2, TableBuilt
<1>3. Db'
  <2>1. CASE FindSlice(m.no) = {}
    <3>1. MarkAnswered(m.cl, NoSlice, 0)
      BY <2>1 DEF HandleRetransmit
    <3> QED
      BY <1>1, <3>1, MarkAnsweredDb
  <2>2. CASE FindSlice(m.no) # {}
    <3>1. PICK s \in FindSlice(m.no) : MarkAnswered(m.cl, m.no, slices[s].rxmitId)
      BY <2>2 DEF HandleRetransmit
    <3>2. slices[s].rxmitId \in Nat
      BY <3>1, SlicesOK DEF FindSlice, SliceOK, SliceType
    <3> QED
      BY <1>1, <3>1, <3>2, MarkAnsweredDb
  <2> QED
    BY <2>1, <2>2
<1> QED
  BY <1>2, <1>3

LEMMA HandleDisconnectCore ==
  ASSUME CoreInv, NEW m \in MsgType, HandleDisconnect(m)
  PROVE  Table' /\ Db'
<1> USE CoreParts
<1>1. Table'
  <2> DEFINE f == [s \in Slots |->
                     [slices[s] EXCEPT
                        !.ready = @ \ {m.cl},
                        !.nrReady = IF m.cl \in slices[s].ready THEN @ - 1 ELSE @,
                        !.answered = @ \ {m.cl},
                        !.nrAnswered = IF m.cl \in slices[s].answered THEN @ - 1 ELSE @]]
  <2>1. \A s \in Slots : SliceOK(f[s])
    BY SlicesOK, DisconnectSliceOK
  <2>2. slices' = f
    BY DEF HandleDisconnect
  <2> QED
    BY <2>1, <2>2, TableBuilt
<1>2. Db'
  BY RemoveParticipantsDb DEF HandleDisconnect
<1> QED
  BY <1>1, <1>2

LEMMA HandleNextMessageCore ==
  ASSUME CoreInv, HandleNextMessage, async' = async
  PROVE  CoreInv'
<1> USE CoreParts, CorePartsNext
<1>1. Head(msgs) \in MsgType /\ msgs' \in Seq(MsgType)
  BY DEF HandleNextMessage, Rest
<1>2. Table' /\ Db'
  BY <1>1, HandleOkCore, HandleRetransmitCore, HandleDisconnectCore DEF HandleNextMessage
<1>3. Rest'
  BY <1>1 DEF HandleNextMessage, Rest, fillVars, diskVars, rcVars
<1> QED
  BY <1>2, <1>3

\* The stages a slice in flight goes through.
LEMMA StageCore ==
  ASSUME CoreInv, NEW s \in Slots, Ack(s) \/ Rexmit(s) \/ ReqackAnswered(s), async' = async
  PROVE  CoreInv'
<1> USE CoreParts, CorePartsNext
<1>1. SliceOK(slices[s])
  BY SlicesOK
<1>2. Db'
  BY DEF Ack, Rexmit, ReqackAnswered, Db, dbVars
<1>3. CASE Ack(s)
  <2>1. Table'
    BY <1>3, FreeSliceOK, TableChanged DEF Ack
  <2>2. freeMem' \in Nat
    <3>1. slices[s].blocks \in Nat
      BY <1>1 DEF SliceOK, SliceType
    <3>2. freeMem \in Nat
      BY DEF Rest
    <3>3. freeMem' = freeMem + slices[s].blocks
      BY <1>3 DEF Ack
    <3> QED
      BY <3>1, <3>2, <3>3
  <2>3. Rest'
    BY <1>3, <2>2 DEF Ack, Rest, fillVars, diskVars, rcVars
  <2> QED
    BY <1>2, <2>1, <2>3
<1>4. CASE Rexmit(s)
  <2> DEFINE sl == [slices[s] EXCEPT !.needRxmit = FALSE, !.isXmitted = @ \cup slices[s].rxmitMap]
  <2>1. slices' = [slices EXCEPT ![s] = sl]
    BY <1>1, <1>4 DEF Rexmit, SliceOK, SliceType, Table
  <2>2. SliceOK(sl)
    BY <1>1 DEF SliceOK, SliceType
  <2>3. Table'
    BY <2>1, <2>2, TableChanged
  <2>4. Rest'
    BY <1>4 DEF Rexmit, Rest, fillVars, diskVars, rcVars
  <2> QED
    BY <1>2, <2>3, <2>4
<1>5. CASE ReqackAnswered(s)
  <2>1. Table'
    BY <1>1, <1>5, NewRoundOK, TableChanged DEF ReqackAnswered
  <2>2. Rest'
    BY <1>5 DEF ReqackAnswered, Rest, fillVars, diskVars, rcVars
  <2> QED
    BY <1>2, <2>1, <2>2
<1> QED
  BY <1>3, <1>4, <1>5

LEMMA NewSliceCore ==
  ASSUME CoreInv, NEW s \in Slots, NEW n \in 0..MaxSlice, NewSlice(s, n), async' = async
  PROVE  CoreInv'
<1> USE CoreParts, CorePartsNext
<1> DEFINE sl == [FreeSlice EXCEPT !.state = "Xmitted", !.no = sliceNo,
                                   !.base = takenPos, !.blocks = n]
<1>1. n \in Nat /\ sliceNo \in Nat /\ takenPos \in Nat
  BY DEF Rest
<1>2. SliceOK(sl)
  BY <1>1, FreeSliceOK DEF SliceOK, SliceType, FreeSlice
<1>3. slices' = slices \/ slices' = [slices EXCEPT ![s] = sl]
  BY DEF NewSlice
<1>4. Table'
  BY <1>2, <1>3, TableChanged DEF Table
<1>5. freeMem' \in Nat /\ firstSliceAcked' \in BOOLEAN
  <2>1. \/ freeMem' = freeMem + n /\ firstSliceAcked' = TRUE
        \/ freeMem' = freeMem /\ firstSliceAcked' = firstSliceAcked
    BY DEF NewSlice
  <2>2. freeMem \in Nat /\ firstSliceAcked \in BOOLEAN
    BY DEF Rest
  <2>3. freeMem' \in Nat
    BY <1>1, <2>1, <2>2
  <2>4. firstSliceAcked' \in BOOLEAN
    BY <2>1, <2>2
  <2> QED
    BY <2>3, <2>4
<1>6. Rest'
  BY <1>1, <1>5 DEF NewSlice, Rest, diskVars, rcVars
<1>7. Db'
  BY DEF NewSlice, Db, dbVars
<1> QED
  BY <1>4, <1>6, <1>7

LEMMA ExpireCore ==
  ASSUME CoreInv, NEW s \in Slots, Expire(s), async' = async
  PROVE  CoreInv'
<1> USE CoreParts, CorePartsNext
<1>1. Db'
  BY RemoveParticipantsDb DEF Expire
<1>2. SliceOK(slices[s])
  BY SlicesOK
<1>3. Table'
  BY <1>2, NewRoundOK, TableChanged DEF Expire, Table
<1>4. Rest'
  BY DEF Expire, Stop, Rest, fillVars, diskVars, rcVars
<1> QED
  BY <1>1, <1>3, <1>4

\* Steps that leave the slices and the participants alone.
LEMMA QuietCore ==
  ASSUME CoreInv, ReReply \/ BlockOnData \/ Finish \/ Wait \/ Wake, async' = async
  PROVE  CoreInv'
<1> USE CoreParts, CorePartsNext
<1>1. Table' /\ Db'
  BY DEF ReReply, BlockOnData, Finish, Wait, Wake, Table, Db, dbVars
<1>2. Rest'
  BY DEF ReReply, BlockOnData, Finish, Stop, Wait, Wake, Rest, fillVars, diskVars, rcVars
<1> QED
  BY <1>1, <1>2

LEMMA LocalReaderCore ==
  ASSUME CoreInv, LocalReader
  PROVE  CoreInv'
<1> USE CoreParts, CorePartsNext
<1>1. Table' /\ Db'
  BY DEF LocalReader, LocalRead, LocalEof, LocalStop, Table, Db, dbVars
<1>2. ring' \in [0..RingBlocks - 1 -> Nat]
  <2>1. ring \in [0..RingBlocks - 1 -> Nat] /\ readPos + 1 \in Nat
    BY DEF Rest
  <2>2. Refilled(readPos) \in [0..RingBlocks - 1 -> Nat]
    BY <2>1 DEF Refilled
  <2> QED
    BY <2>1, <2>2 DEF LocalReader, LocalRead, LocalEof, LocalStop
<1>3. Rest'
  BY <1>2 DEF LocalReader, LocalRead, LocalEof, LocalStop, Rest, fillVars, rcVars
<1> QED
  BY <1>1, <1>3

LEMMA RcCore ==
  ASSUME CoreInv, RcPush
  PROVE  CoreInv'
<1> USE CoreParts, CorePartsNext
<1>1. Table' /\ Db'
  BY DEF RcPush, Table, Db, dbVars
<1>2. msgs' \in Seq(MsgType) /\ rcHeld' \in Seq(MsgType) /\ Len(rcHeld') <= 1
  BY DEF RcPush, Rest
<1>3. Rest'
  BY <1>2 DEF RcPush, Rest, fillVars, diskVars
<1> QED
  BY <1>1, <1>3

\* What every answer the return channel takes leaves alone.
LEMMA LookupCore ==
  ASSUME CoreInv, NEW m \in MsgType, RcLookup(m)
  PROVE  CoreInv'
<1> USE CoreParts, CorePartsNext
<1>1. Table' /\ Db'
  BY DEF RcLookup, Table, Db, dbVars
<1>2. rcHeld' \in Seq(MsgType) /\ Len(rcHeld') <= 1
  BY DEF RcLookup, Rest
<1>3. Rest'
  BY <1>2 DEF RcLookup, Rest, fillVars, diskVars, rcVars
<1> QED
  BY <1>1, <1>3

\* The variables of the sender, without what is on its way to the receivers.
senderVars == <<async, pc, slices, fillVars, firstSliceAcked, rcVars, diskVars, freeMem, freeEnd, dbVars>>

\* What the sender may do, whoever its receivers are.
SenderMoves ==
  \/ Dispatcher \/ LocalReader \/ RcPush
  \/ \E m \in MsgType : RcLookup(m)
  \/ UNCHANGED senderVars

LEMMA CoreStep ==
  ASSUME CoreInv, SenderMoves
  PROVE  CoreInv'
<1>1. CASE Dispatcher
  <2>1. async' = async
    BY <1>1 DEF Dispatcher
  <2>2. CASE HandleNextMessage
    BY <2>1, <2>2, HandleNextMessageCore
  <2>3. CASE ReReply \/ BlockOnData \/ Finish \/ Wait \/ Wake
    BY <2>1, <2>3, QuietCore
  <2>4. CASE \E s \in Slots : Ack(s) \/ Rexmit(s) \/ ReqackAnswered(s)
    BY <2>1, <2>4, StageCore
  <2>5. CASE \E s \in Slots : Expire(s)
    BY <2>1, <2>5, ExpireCore
  <2>6. CASE \E s \in Slots : \E n \in 0..MaxSlice : NewSlice(s, n)
    BY <2>1, <2>6, NewSliceCore
  <2> QED
    BY <1>1, <2>2, <2>3, <2>4, <2>5, <2>6 DEF Dispatcher
<1>2. CASE LocalReader
  BY <1>2, LocalReaderCore
<1>3. CASE RcPush
  BY <1>3, RcCore
<1>4. CASE \E m \in MsgType : RcLookup(m)
  BY <1>4, LookupCore
<1>5. CASE UNCHANGED senderVars
  BY <1>5 DEF CoreInv, SenderTypeOK, CountersMatch, Numbered, Pending, senderVars, fillVars, rcVars, diskVars, dbVars
<1> QED
  BY <1>1, <1>2, <1>3, <1>4, <1>5 DEF SenderMoves

-----------------------------------------------------------------------------
(* The memory of the slices in flight. *)

\* The partial sums BlocksIn is made of.
LEMMA PartialSums ==
  ASSUME NEW T \in [Slots -> SliceType]
  PROVE  \E g \in [0..NrSlices -> Nat] :
           /\ g[0] = 0 /\ \A k \in 1..NrSlices : g[k] = g[k - 1] + T[k].blocks
           /\ BlocksIn(T) = g[NrSlices]
<1>1. NrSlices \in Nat /\ \A k \in 1..NrSlices : T[k].blocks \in Nat
  BY SizesAssumption DEF Slots, SliceType
<1> DEFINE F == [k \in 1..NrSlices |-> [x \in Nat |-> x + T[k].blocks]]
           Sums(u) == u = [s \in 0..NrSlices |-> IF s = 0 THEN 0 ELSE u[s - 1] + T[s].blocks]
<1>2. F \in [1..NrSlices -> [Nat -> Nat]]
  BY <1>1
<1>3. PICK f \in [0..NrSlices -> Nat] : Runs(NrSlices, F, 0, f)
  <2> HIDE DEF F
  <2> QED
    BY <1>1, <1>2, Iteration
<1>4. Sums(f)
  <2>1. \A k \in 0..NrSlices : f[k] = IF k = 0 THEN 0 ELSE f[k - 1] + T[k].blocks
    <3> SUFFICES ASSUME NEW k \in 0..NrSlices, k # 0
                 PROVE  f[k] = f[k - 1] + T[k].blocks
      BY <1>1, <1>3 DEF Runs
    <3>1. k \in 1..NrSlices /\ k - 1 \in 0..NrSlices
      BY <1>1
    <3>2. f[k - 1] \in Nat
      BY <3>1
    <3>3. f[k] = F[k][f[k - 1]]
      BY <1>3, <3>1 DEF Runs
    <3> QED
      BY <3>1, <3>2, <3>3
  <2>2. f = [k \in 0..NrSlices |-> f[k]]
    BY <1>3
  <2> QED
    BY <2>1, <2>2
<1> DEFINE g == CHOOSE u : Sums(u)
<1>5. Sums(g)
  <2> HIDE DEF Sums
  <2> QED
    BY <1>4
<1>6. BlocksIn(T) = g[NrSlices]
  BY DEF BlocksIn
<1> HIDE DEF g
<1>7. g[0] = 0 /\ \A k \in 1..NrSlices : g[k] = g[k - 1] + T[k].blocks
  BY <1>1, <1>5
<1>8. g \in [0..NrSlices -> Nat]
  <2> DEFINE Good == {k \in 0..NrSlices : g[k] \in Nat}
  <2>1. 0 \in Good
    BY <1>1, <1>7
  <2>2. ASSUME NEW k \in 1..NrSlices, k - 1 \in Good
        PROVE  k \in Good
    <3>1. k \in 0..NrSlices /\ g[k - 1] \in Nat /\ T[k].blocks \in Nat
      BY <1>1, <2>2
    <3> QED
      BY <1>7, <3>1
  <2>3. 0..NrSlices \subseteq Good
    <3> HIDE DEF Good
    <3> QED
      BY <1>1, <2>1, <2>2, UpTo
  <2> QED
    BY <1>5, <2>3
<1> QED
  BY <1>6, <1>7, <1>8

\* Tables that differ in one slot differ in their blocks by that slot's.
LEMMA BlocksChange ==
  ASSUME NEW T \in [Slots -> SliceType], NEW U \in [Slots -> SliceType], NEW s \in Slots,
         \A t \in Slots \ {s} : U[t].blocks = T[t].blocks
  PROVE  /\ BlocksIn(T) \in Nat /\ BlocksIn(U) \in Nat
         /\ BlocksIn(U) - BlocksIn(T) = U[s].blocks - T[s].blocks
<1>1. NrSlices \in Nat /\ s \in 1..NrSlices
  BY SizesAssumption DEF Slots
<1>2. \A k \in 1..NrSlices : T[k].blocks \in Nat /\ U[k].blocks \in Nat
  BY DEF Slots, SliceType
<1>3. PICK g \in [0..NrSlices -> Nat] :
        /\ g[0] = 0 /\ \A k \in 1..NrSlices : g[k] = g[k - 1] + T[k].blocks
        /\ BlocksIn(T) = g[NrSlices]
  BY PartialSums
<1>4. PICK h \in [0..NrSlices -> Nat] :
        /\ h[0] = 0 /\ \A k \in 1..NrSlices : h[k] = h[k - 1] + U[k].blocks
        /\ BlocksIn(U) = h[NrSlices]
  BY PartialSums
<1> DEFINE Good == {k \in 0..NrSlices : h[k] - g[k] = IF k < s THEN 0 ELSE U[s].blocks - T[s].blocks}
<1>5. 0 \in Good
  BY <1>1, <1>3, <1>4
<1>6. ASSUME NEW k \in 1..NrSlices, k - 1 \in Good
      PROVE  k \in Good
  <2>1. g[k] = g[k - 1] + T[k].blocks /\ h[k] = h[k - 1] + U[k].blocks
    BY <1>3, <1>4
  <2>2. k - 1 \in 0..NrSlices /\ g[k - 1] \in Nat /\ h[k - 1] \in Nat
    BY <1>1
  <2>3. CASE k = s
    BY <1>1, <1>2, <1>6, <2>1, <2>2, <2>3
  <2>4. CASE k # s
    <3>1. U[k].blocks = T[k].blocks
      BY <2>4 DEF Slots
    <3>2. k < s <=> k - 1 < s
      BY <1>1, <2>4
    <3> QED
      BY <1>1, <1>2, <1>6, <2>1, <2>2, <3>1, <3>2
  <2> QED
    BY <2>3, <2>4
<1>7. NrSlices \in Good
  <2> HIDE DEF Good
  <2>1. 0..NrSlices \subseteq Good
    BY <1>1, <1>5, <1>6, UpTo
  <2> QED
    BY <1>1, <2>1
<1> QED
  BY <1>1, <1>3, <1>4, <1>7

\* A table without blocks.
LEMMA NoBlocks ==
  ASSUME NEW T \in [Slots -> SliceType], \A t \in Slots : T[t].blocks = 0
  PROVE  BlocksIn(T) = 0
<1>1. NrSlices \in Nat
  BY SizesAssumption
<1>2. PICK g \in [0..NrSlices -> Nat] :
        /\ g[0] = 0 /\ \A k \in 1..NrSlices : g[k] = g[k - 1] + T[k].blocks
        /\ BlocksIn(T) = g[NrSlices]
  BY PartialSums
<1> DEFINE Good == {k \in 0..NrSlices : g[k] = 0}
<1>3. /\ 0 \in Good
      /\ \A k \in 1..NrSlices : k - 1 \in Good => k \in Good
  <2>1. 0 \in Good
    BY <1>1, <1>2
  <2>2. ASSUME NEW k \in 1..NrSlices, k - 1 \in Good
        PROVE  k \in Good
    <3>1. k \in 0..NrSlices /\ g[k - 1] = 0 /\ T[k].blocks = 0
      BY <1>1, <2>2 DEF Slots
    <3> QED
      BY <1>2, <3>1
  <2> QED
    BY <2>1, <2>2
<1>4. 0..NrSlices \subseteq Good
  <2> HIDE DEF Good
  <2> QED
    BY <1>1, <1>3, UpTo
<1> QED
  BY <1>1, <1>2, <1>4

\* A table with the blocks of one slot only.
LEMMA BlocksOfOne ==
  ASSUME NEW T \in [Slots -> SliceType], NEW s \in Slots,
         \A t \in Slots \ {s} : T[t].blocks = 0
  PROVE  BlocksIn(T) = T[s].blocks
<1> DEFINE Z == [t \in Slots |-> FreeSlice]
<1>1. Z \in [Slots -> SliceType] /\ \A t \in Slots : Z[t].blocks = 0
  BY FreeSliceOK DEF SliceOK, FreeSlice
<1> HIDE DEF Z
<1>2. BlocksIn(Z) = 0
  BY <1>1, NoBlocks
<1>3. BlocksIn(T) - BlocksIn(Z) = T[s].blocks - Z[s].blocks /\ BlocksIn(T) \in Nat
  BY <1>1, BlocksChange
<1>4. T[s].blocks \in Nat
  BY DEF SliceType
<1> QED
  BY <1>1, <1>2, <1>3, <1>4

-----------------------------------------------------------------------------
(* Which steps change more of the table than the answers. *)

\* A new round touches neither what is sent nor who is ready.
LEMMA NewRoundKeeps ==
  ASSUME NEW sl \in SliceType
  PROVE  LET new == NewRound(NextRound(sl))
         IN  /\ new.state = sl.state /\ new.no = sl.no
             /\ new.base = sl.base /\ new.blocks = sl.blocks
             /\ new.ready = sl.ready
<1> DEFINE up == NextRound(sl)
<1>1. /\ up \in SliceType /\ up.state = sl.state /\ up.no = sl.no /\ up.ready = sl.ready
      /\ up.base = sl.base /\ up.blocks = sl.blocks
  BY DEF NextRound, SliceType
<1> HIDE DEF up
<1>2. /\ NewRound(up).state = up.state /\ NewRound(up).no = up.no
      /\ NewRound(up).base = up.base /\ NewRound(up).blocks = up.blocks
      /\ NewRound(up).ready = up.ready
  BY <1>1 DEF NewRound, SliceType
<1> USE DEF up
<1> QED
  BY <1>1, <1>2

\* Every slot still holds its slice, its number and its place in the stream.
SameSlices ==
  \A t \in Slots :
    /\ slices'[t].state = slices[t].state /\ slices'[t].no = slices[t].no
    /\ slices'[t].base = slices[t].base /\ slices'[t].blocks = slices[t].blocks

LEMMA OneSlotKept ==
  ASSUME CoreInv, NEW s \in Slots, NEW sl, slices' = [slices EXCEPT ![s] = sl],
         sl.state = slices[s].state, sl.no = slices[s].no,
         sl.base = slices[s].base, sl.blocks = slices[s].blocks
  PROVE  SameSlices
BY DEF SameSlices, CoreInv, SenderTypeOK

LEMMA SenderKinds ==
  ASSUME CoreInv, SenderMoves
  PROVE  \/ SameSlices /\ UNCHANGED <<fillVars, freeMem, diskVars, async>>
         \/ \E s \in Slots : Ack(s) /\ async' = async
         \/ \E s \in Slots : \E n \in 0..MaxSlice : NewSlice(s, n) /\ async' = async
         \/ LocalReader
<1>1. slices \in [Slots -> SliceType]
  BY DEF CoreInv, SenderTypeOK
<1>2. CASE HandleNextMessage /\ async' = async
  <2> DEFINE m == Head(msgs)
  <2>1. HandleOk(m) \/ HandleRetransmit(m) \/ HandleDisconnect(m)
    BY <1>2 DEF HandleNextMessage
  <2> HIDE DEF m
  <2>2. SameSlices
    <3> SUFFICES ASSUME NEW t \in Slots
                 PROVE  /\ slices'[t].state = slices[t].state /\ slices'[t].no = slices[t].no
                        /\ slices'[t].base = slices[t].base /\ slices'[t].blocks = slices[t].blocks
      BY DEF SameSlices
    <3>1. slices[t] \in SliceType
      BY <1>1
    <3>2. CASE HandleOk(m)
      BY <3>1, <3>2 DEF HandleOk, SliceType
    <3>3. CASE HandleRetransmit(m)
      BY <3>1, <3>3 DEF HandleRetransmit, SliceType
    <3>4. CASE HandleDisconnect(m)
      BY <3>1, <3>4 DEF HandleDisconnect, SliceType
    <3> QED
      BY <2>1, <3>2, <3>3, <3>4
  <2> QED
    BY <1>2, <2>2 DEF HandleNextMessage
<1>3. CASE (ReReply \/ BlockOnData \/ Finish \/ Wait \/ Wake) /\ async' = async
  BY <1>3 DEF ReReply, BlockOnData, Finish, Stop, Wait, Wake, SameSlices
<1>4. ASSUME NEW s \in Slots, Rexmit(s) \/ ReqackAnswered(s) \/ Expire(s), async' = async
      PROVE  SameSlices /\ UNCHANGED <<fillVars, freeMem, diskVars, async>>
  <2>1. UNCHANGED <<fillVars, freeMem, diskVars, async>>
    BY <1>4 DEF Rexmit, ReqackAnswered, Expire, fillVars, diskVars
  <2>2. slices[s] \in SliceType
    BY <1>1
  <2> DEFINE sent == [slices[s] EXCEPT !.needRxmit = FALSE, !.isXmitted = @ \cup slices[s].rxmitMap]
             new  == NewRound(NextRound(slices[s]))
  <2>3. \/ slices' = slices
        \/ slices' = [slices EXCEPT ![s] = sent]
        \/ slices' = [slices EXCEPT ![s] = new]
    BY <1>1, <1>4, <2>2 DEF Rexmit, ReqackAnswered, Expire, SliceType
  <2>4. /\ sent.state = slices[s].state /\ sent.no = slices[s].no
        /\ sent.base = slices[s].base /\ sent.blocks = slices[s].blocks
    BY <2>2 DEF SliceType
  <2>5. /\ new.state = slices[s].state /\ new.no = slices[s].no
        /\ new.base = slices[s].base /\ new.blocks = slices[s].blocks
    BY <2>2, NewRoundKeeps
  <2> HIDE DEF sent, new
  <2>6. SameSlices
    BY <2>3, <2>4, <2>5, OneSlotKept DEF SameSlices
  <2> QED
    BY <2>1, <2>6
<1>5. CASE RcPush \/ (\E m \in MsgType : RcLookup(m)) \/ UNCHANGED senderVars
  BY <1>5 DEF RcPush, RcLookup, senderVars, SameSlices, fillVars, diskVars
<1> QED
  BY <1>2, <1>3, <1>4, <1>5 DEF SenderMoves, Dispatcher

-----------------------------------------------------------------------------
(* Memory. *)

\* MemoryConserved with what its steps need: a slice is cut from what was read,
\* and no free slot accounts for blocks.
MemoryInv ==
  /\ MemoryConserved
  /\ takenPos <= readPos
  /\ \A s \in Slots : slices[s].state = "Free" => slices[s].blocks = 0

LEMMA InitMemory == SendInit => MemoryInv
<1> SUFFICES ASSUME SendInit PROVE MemoryInv
  OBVIOUS
<1>1. slices \in [Slots -> SliceType] /\ \A s \in Slots : slices[s].blocks = 0
  BY FreeSliceOK DEF SendInit, SliceOK, FreeSlice
<1>2. BlocksIn(slices) = 0
  BY <1>1, NoBlocks
<1> QED
  BY <1>1, <1>2, SizesAssumption DEF SendInit, MemoryInv, MemoryConserved, Available

\* A table whose slots hold as many blocks as before holds as many.
LEMMA SameBlocks ==
  ASSUME CoreInv, CoreInv', \A t \in Slots : slices'[t].blocks = slices[t].blocks
  PROVE  BlocksIn(slices') = BlocksIn(slices)
<1>1. slices \in [Slots -> SliceType] /\ slices' \in [Slots -> SliceType]
  BY DEF CoreInv, SenderTypeOK
<1>2. 1 \in Slots
  BY SizesAssumption DEF Slots
<1>3. BlocksIn(slices') - BlocksIn(slices) = slices'[1].blocks - slices[1].blocks
      /\ BlocksIn(slices') \in Nat /\ BlocksIn(slices) \in Nat
  BY <1>1, <1>2, BlocksChange
<1>4. slices[1].blocks \in Nat /\ slices'[1].blocks = slices[1].blocks
  BY <1>1, <1>2 DEF SliceType
<1> QED
  BY <1>3, <1>4

LEMMA MemoryStep ==
  ASSUME CoreInv, MemoryInv, SenderMoves
  PROVE  MemoryInv'
<1>1. CoreInv'
  BY CoreStep
<1>2. /\ slices \in [Slots -> SliceType] /\ slices' \in [Slots -> SliceType]
      /\ readPos \in Nat /\ takenPos \in Nat /\ freeMem \in Nat
      /\ RingBlocks \in Nat
  BY <1>1, SizesAssumption DEF CoreInv, SenderTypeOK
<1>3. CASE SameSlices /\ UNCHANGED <<fillVars, freeMem, diskVars>>
  <2>1. BlocksIn(slices') = BlocksIn(slices)
    BY <1>1, <1>3, SameBlocks DEF SameSlices
  <2> QED
    BY <1>3, <2>1 DEF MemoryInv, MemoryConserved, Available, SameSlices, fillVars, diskVars
<1>4. ASSUME NEW s \in Slots, Ack(s)
      PROVE  MemoryInv'
  <2>1. /\ slices' = [slices EXCEPT ![s] = FreeSlice] /\ freeMem' = freeMem + slices[s].blocks
        /\ readPos' = readPos /\ takenPos' = takenPos
    BY <1>4 DEF Ack, fillVars, diskVars
  <2>2. slices'[s].blocks = 0 /\ \A t \in Slots \ {s} : slices'[t] = slices[t]
    BY <1>2, <2>1 DEF FreeSlice
  <2>3. BlocksIn(slices') - BlocksIn(slices) = 0 - slices[s].blocks
        /\ BlocksIn(slices') \in Nat /\ BlocksIn(slices) \in Nat
    BY <1>2, <2>2, BlocksChange
  <2>4. slices[s].blocks \in Nat
    BY <1>2 DEF SliceType
  <2>5. MemoryConserved'
    BY <1>2, <2>1, <2>3, <2>4 DEF MemoryInv, MemoryConserved, Available
  <2> QED
    BY <2>1, <2>2, <2>5 DEF MemoryInv
<1>5. ASSUME NEW s \in Slots, NEW n \in 0..MaxSlice, NewSlice(s, n)
      PROVE  MemoryInv'
  <2>1. /\ takenPos' = takenPos + n /\ readPos' = readPos
        /\ n \in Nat /\ n <= readPos - takenPos
    <3>1. takenPos' = takenPos + n /\ readPos' = readPos /\ n \in SliceSizes
      BY <1>5 DEF NewSlice, diskVars
    <3>2. takenPos <= readPos /\ MaxSlice \in Nat
      BY SizesAssumption DEF MemoryInv
    <3> QED
      BY <1>2, <3>1, <3>2 DEF SliceSizes, Available
  <2>2. CASE async /\ n > 0
    <3>1. slices' = slices /\ freeMem' = freeMem + n
      BY <1>5, <2>2 DEF NewSlice
    <3>2. BlocksIn(slices) \in Nat
      BY <1>2, SizesAssumption, BlocksChange DEF Slots
    <3> QED
      BY <1>2, <2>1, <3>1, <3>2 DEF MemoryInv, MemoryConserved, Available
  <2>3. CASE ~ (async /\ n > 0)
    <3> DEFINE sl == [FreeSlice EXCEPT !.state = "Xmitted", !.no = sliceNo,
                                       !.base = takenPos, !.blocks = n]
    <3>1. slices' = [slices EXCEPT ![s] = sl] /\ freeMem' = freeMem
      BY <1>5, <2>3 DEF NewSlice
    <3>2. sl.blocks = n /\ sl.state = "Xmitted"
      BY DEF FreeSlice
    <3> HIDE DEF sl
    <3>3. slices[s].blocks = 0
      BY <1>5 DEF NewSlice, IsFreeSlot, MemoryInv
    <3>4. /\ slices'[s].blocks = n /\ slices'[s].state = "Xmitted"
          /\ \A t \in Slots \ {s} : slices'[t] = slices[t]
      BY <1>2, <3>1, <3>2
    <3>5. BlocksIn(slices') - BlocksIn(slices) = n - 0
          /\ BlocksIn(slices') \in Nat /\ BlocksIn(slices) \in Nat
      BY <1>2, <3>3, <3>4, BlocksChange
    <3>6. MemoryConserved'
      BY <1>2, <2>1, <3>1, <3>5 DEF MemoryInv, MemoryConserved, Available
    <3> QED
      BY <1>2, <2>1, <3>4, <3>6 DEF MemoryInv
  <2> QED
    BY <2>2, <2>3
<1>6. CASE LocalReader
  <2>1. slices' = slices /\ takenPos' = takenPos
    BY <1>6 DEF LocalReader, LocalRead, LocalEof, LocalStop, fillVars
  <2>2. \/ readPos' = readPos /\ freeMem' = freeMem
        \/ readPos' = readPos + 1 /\ freeMem' = freeMem - 1
    BY <1>6 DEF LocalReader, LocalRead, LocalEof, LocalStop
  <2>3. BlocksIn(slices) \in Nat
    BY <1>2, SizesAssumption, BlocksChange DEF Slots
  <2>4. MemoryConserved'
    BY <1>2, <2>1, <2>2, <2>3 DEF MemoryInv, MemoryConserved, Available
  <2> QED
    BY <1>2, <2>1, <2>2, <2>4 DEF MemoryInv
<1> QED
  BY <1>3, <1>4, <1>5, <1>6, SenderKinds

-----------------------------------------------------------------------------
(* The ring. *)

LEMMA DivMod ==
  ASSUME NEW a \in Nat, NEW N \in Nat \ {0}
  PROVE  a = N * (a \div N) + (a % N) /\ a \div N \in Nat /\ a % N \in 0..N - 1
OBVIOUS

LEMMA Multiple ==
  ASSUME NEW N \in Nat \ {0}, NEW d \in Int
  PROVE  (d >= 1 => N * d >= N) /\ (d <= 0 => N * d <= 0)
OBVIOUS

\* Positions less than N apart are in different cells of a ring of N.
LEMMA CellsDiffer ==
  ASSUME NEW N \in Nat \ {0}, NEW a \in Nat, NEW b \in Nat, b < a, a - b < N
  PROVE  a % N # b % N
<1>1. a = N * (a \div N) + (a % N) /\ b = N * (b \div N) + (b % N)
  BY DivMod
<1>2. a \div N \in Nat /\ b \div N \in Nat /\ a % N \in 0..N - 1 /\ b % N \in 0..N - 1
  BY DivMod
<1> DEFINE d == a \div N - b \div N
<1>3. d \in Int /\ N * d = N * (a \div N) - N * (b \div N)
  BY <1>2
<1> HIDE DEF d
<1>4. a % N = b % N => a - b = N * d
  BY <1>1, <1>2, <1>3
<1> QED
  BY <1>3, <1>4, Multiple

\* The memory that is not free holds the blocks read last.
LiveCells ==
  \A p \in Nat : readPos - (RingBlocks - freeMem) <= p /\ p < readPos =>
    Padded(p) \/ ring[p % RingBlocks] = p + 1

\* Slices are cut from the source one after the other; only the last may be empty, and it is
\* when the source has been cut up.
StreamInv ==
  /\ LiveCells
  /\ readPos <= SourceBlocks /\ (reader = "eof" => readPos = SourceBlocks)
  /\ atEnd => takenPos = SourceBlocks
  /\ \A s \in Pending :
       /\ slices[s].no < sliceNo
       /\ slices[s].blocks = 0 => atEnd /\ slices[s].no = sliceNo - 1

\* One slice in flight: it is the last that was cut.
HalfInv ==
  \A s, t \in Pending :
    s = t /\ slices[s].no = sliceNo - 1 /\ slices[s].base + slices[s].blocks = takenPos

\* All that is known of the sender without its receivers.
SenderInv == CoreInv /\ MemoryInv /\ StreamInv

LEMMA InitSender == SendInit => SenderInv /\ HalfInv
<1> SUFFICES ASSUME SendInit PROVE SenderInv /\ HalfInv
  OBVIOUS
<1>1. CoreInv /\ MemoryInv
  BY InitCore, InitMemory
<1>2. Pending = {}
  BY DEF SendInit, Pending, FreeSlice
<1>3. StreamInv
  BY <1>2, SizesAssumption DEF SendInit, StreamInv, LiveCells
<1> QED
  BY <1>1, <1>2, <1>3 DEF SenderInv, HalfInv

LEMMA SenderTypes ==
  ASSUME SenderInv
  PROVE  /\ slices \in [Slots -> SliceType]
         /\ readPos \in Nat /\ takenPos \in Nat /\ freeMem \in Nat /\ sliceNo \in Nat
         /\ atEnd \in BOOLEAN /\ ring \in [0..RingBlocks - 1 -> Nat]
         /\ takenPos <= readPos /\ readPos <= SourceBlocks /\ freeMem <= RingBlocks
         /\ BlocksIn(slices) \in Nat
<1>1. /\ slices \in [Slots -> SliceType]
      /\ readPos \in Nat /\ takenPos \in Nat /\ freeMem \in Nat /\ sliceNo \in Nat
      /\ atEnd \in BOOLEAN /\ ring \in [0..RingBlocks - 1 -> Nat]
  BY DEF SenderInv, CoreInv, SenderTypeOK
<1>2. takenPos <= readPos /\ readPos <= SourceBlocks
  BY DEF SenderInv, MemoryInv, StreamInv
<1>3. BlocksIn(slices) \in Nat
  BY <1>1, SizesAssumption, BlocksChange DEF Slots
<1>4. freeMem <= RingBlocks
  BY <1>1, <1>2, <1>3, SizesAssumption DEF SenderInv, MemoryInv, MemoryConserved, Available
<1> QED
  BY <1>1, <1>2, <1>3, <1>4

\* What is cut: blocks that were read, or nothing at the end of the source.
LEMMA Cutting ==
  ASSUME SenderInv, NEW s \in Slots, NEW n \in 0..MaxSlice, NewSlice(s, n)
  PROVE  /\ n \in Nat /\ n <= readPos - takenPos
         /\ n = 0 => takenPos = SourceBlocks
         /\ ~atEnd /\ slices[s].state = "Free"
         /\ sliceNo' = sliceNo + 1 /\ takenPos' = takenPos + n /\ (atEnd' <=> n = 0)
         /\ UNCHANGED diskVars
         /\ \/ /\ slices' = [slices EXCEPT ![s] = [FreeSlice EXCEPT !.state = "Xmitted", !.no = sliceNo,
                                                                    !.base = takenPos, !.blocks = n]]
               /\ freeMem' = freeMem
            \/ slices' = slices /\ freeMem' = freeMem + n /\ async /\ n > 0
<1>1. /\ ~atEnd /\ slices[s].state = "Free" /\ n \in SliceSizes /\ DataReady
      /\ sliceNo' = sliceNo + 1 /\ takenPos' = takenPos + n /\ atEnd' = (n = 0)
      /\ UNCHANGED diskVars
  BY DEF NewSlice, WantsSlice, IsFreeSlot
<1>2. takenPos <= readPos /\ MaxSlice \in Nat /\ MinTake \in Nat \ {0}
      /\ readPos \in Nat /\ takenPos \in Nat
  BY SizesAssumption, SenderTypes
<1>3. n \in Nat /\ n <= readPos - takenPos /\ (n = 0 => readPos = takenPos)
  BY <1>1, <1>2 DEF SliceSizes, Available
<1>4. n = 0 => reader = "eof"
  BY <1>1, <1>2, <1>3 DEF DataReady, Available
<1>5. n = 0 => takenPos = SourceBlocks
  BY <1>3, <1>4 DEF SenderInv, StreamInv
<1>6. atEnd' <=> n = 0
  BY <1>1, Zenon
<1>7. \/ /\ slices' = [slices EXCEPT ![s] = [FreeSlice EXCEPT !.state = "Xmitted", !.no = sliceNo,
                                                             !.base = takenPos, !.blocks = n]]
         /\ freeMem' = freeMem
      \/ slices' = slices /\ freeMem' = freeMem + n /\ async /\ n > 0
  BY DEF NewSlice
<1> QED
  BY <1>1, <1>3, <1>5, <1>6, <1>7

LEMMA StreamStep ==
  ASSUME SenderInv, SenderMoves
  PROVE  StreamInv'
<1>1. /\ slices \in [Slots -> SliceType]
      /\ readPos \in Nat /\ takenPos \in Nat /\ freeMem \in Nat /\ sliceNo \in Nat
      /\ ring \in [0..RingBlocks - 1 -> Nat] /\ RingBlocks \in Nat \ {0}
      /\ takenPos <= readPos /\ readPos <= SourceBlocks /\ freeMem <= RingBlocks
  BY SenderTypes, SizesAssumption
<1>2. CASE SameSlices /\ UNCHANGED <<fillVars, freeMem, diskVars>>
  BY <1>2 DEF SenderInv, StreamInv, LiveCells, SameSlices, Pending, fillVars, diskVars
<1>3. ASSUME NEW s \in Slots, Ack(s)
      PROVE  StreamInv'
  <2>1. /\ slices' = [slices EXCEPT ![s] = FreeSlice] /\ freeMem' = freeMem + slices[s].blocks
        /\ UNCHANGED <<fillVars, diskVars>>
    BY <1>3 DEF Ack
  <2>2. slices[s].blocks \in Nat
    BY <1>1 DEF SliceType
  <2>3. \A t \in Pending' : t \in Pending /\ slices'[t] = slices[t]
    BY <1>1, <2>1 DEF Pending, FreeSlice
  <2>4. LiveCells'
    <3> SUFFICES ASSUME NEW p \in Nat, readPos' - (RingBlocks - freeMem') <= p, p < readPos'
                 PROVE  Padded(p) \/ ring'[p % RingBlocks] = p + 1
      BY DEF LiveCells, Padded
    <3>1. readPos - (RingBlocks - freeMem) <= p /\ p < readPos /\ ring' = ring
      BY <1>1, <2>1, <2>2 DEF diskVars
    <3> QED
      BY <3>1 DEF SenderInv, StreamInv, LiveCells
  <2> QED
    BY <2>1, <2>3, <2>4 DEF SenderInv, StreamInv, fillVars, diskVars
<1>4. ASSUME NEW s \in Slots, NEW n \in 0..MaxSlice, NewSlice(s, n)
      PROVE  StreamInv'
  <2>1. /\ n \in Nat /\ n <= readPos - takenPos /\ (n = 0 => takenPos = SourceBlocks)
        /\ ~atEnd
        /\ sliceNo' = sliceNo + 1 /\ takenPos' = takenPos + n /\ (atEnd' <=> n = 0)
        /\ UNCHANGED diskVars
    BY <1>4, Cutting
  <2> DEFINE sl == [FreeSlice EXCEPT !.state = "Xmitted", !.no = sliceNo, !.base = takenPos, !.blocks = n]
  <2>2. \/ slices' = [slices EXCEPT ![s] = sl] /\ freeMem' = freeMem
        \/ slices' = slices /\ freeMem' = freeMem + n /\ n > 0
    BY <1>4, Cutting
  <2>3. sl.no = sliceNo /\ sl.blocks = n
    BY DEF FreeSlice
  <2> HIDE DEF sl
  <2>4. \A t \in Pending' : \/ t \in Pending /\ slices'[t] = slices[t]
                            \/ slices'[t] = sl
    BY <1>1, <2>2 DEF Pending
  <2>5. \A t \in Pending' : /\ slices'[t].no < sliceNo'
                            /\ slices'[t].blocks = 0 => atEnd' /\ slices'[t].no = sliceNo' - 1
    <3> SUFFICES ASSUME NEW t \in Pending'
                 PROVE  /\ slices'[t].no < sliceNo'
                        /\ slices'[t].blocks = 0 => atEnd' /\ slices'[t].no = sliceNo' - 1
      OBVIOUS
    <3>1. CASE slices'[t] = sl
      BY <1>1, <2>1, <2>3, <3>1
    <3>2. CASE t \in Pending /\ slices'[t] = slices[t]
      <4>1. slices[t].no < sliceNo /\ slices[t].blocks # 0 /\ slices[t].no \in Nat
        BY <2>1, <3>2 DEF SenderInv, StreamInv, CoreInv, Numbered
      <4> QED
        BY <1>1, <2>1, <3>2, <4>1
    <3> QED
      BY <2>4, <3>1, <3>2
  <2>6. LiveCells'
    <3> SUFFICES ASSUME NEW p \in Nat, readPos' - (RingBlocks - freeMem') <= p, p < readPos'
                 PROVE  Padded(p) \/ ring'[p % RingBlocks] = p + 1
      BY DEF LiveCells, Padded
    <3>1. readPos - (RingBlocks - freeMem) <= p /\ p < readPos /\ ring' = ring
      BY <1>1, <2>1, <2>2 DEF diskVars
    <3> QED
      BY <3>1 DEF SenderInv, StreamInv, LiveCells
  <2>7. /\ readPos' <= SourceBlocks /\ (reader' = "eof" => readPos' = SourceBlocks)
        /\ atEnd' => takenPos' = SourceBlocks
    BY <1>1, <2>1 DEF SenderInv, StreamInv, diskVars
  <2> QED
    BY <2>5, <2>6, <2>7 DEF StreamInv
<1>5. CASE LocalReader
  <2>1. slices' = slices /\ takenPos' = takenPos /\ sliceNo' = sliceNo /\ atEnd' = atEnd
    BY <1>5 DEF LocalReader, LocalRead, LocalEof, LocalStop, fillVars
  <2>2. LiveCells'
    <3> SUFFICES ASSUME NEW p \in Nat, readPos' - (RingBlocks - freeMem') <= p, p < readPos'
                 PROVE  Padded(p) \/ ring'[p % RingBlocks] = p + 1
      BY DEF LiveCells, Padded
    <3>1. CASE LocalEof \/ LocalStop
      BY <3>1 DEF LocalEof, LocalStop, SenderInv, StreamInv, LiveCells
    <3>2. CASE LocalRead
      <4>1. /\ ring' = Refilled(readPos)
            /\ readPos' = readPos + 1 /\ freeMem' = freeMem - 1 /\ freeMem > 0
        BY <3>2 DEF LocalRead
      <4>2. readPos % RingBlocks \in 0..RingBlocks - 1 /\ p % RingBlocks \in 0..RingBlocks - 1
        BY <1>1, DivMod
      <4>3. CASE p = readPos
        BY <1>1, <4>1, <4>2, <4>3 DEF Refilled
      <4>4. CASE p # readPos
        <5>1. p < readPos /\ readPos - p < RingBlocks /\ readPos - (RingBlocks - freeMem) <= p
          BY <1>1, <4>1, <4>4
        <5>2. readPos % RingBlocks # p % RingBlocks
          BY <1>1, <5>1, CellsDiffer
        <5>3. ring'[p % RingBlocks] = ring[p % RingBlocks]
          BY <1>1, <4>1, <4>2, <5>2 DEF Refilled
        <5> QED
          BY <5>1, <5>3 DEF SenderInv, StreamInv, LiveCells
      <4> QED
        BY <4>3, <4>4
    <3> QED
      BY <1>5, <3>1, <3>2 DEF LocalReader
  <2>3. readPos' <= SourceBlocks /\ (reader' = "eof" => readPos' = SourceBlocks)
    <3>1. CASE LocalRead
      BY <1>1, <3>1, SizesAssumption DEF LocalRead
    <3>2. CASE LocalEof \/ LocalStop
      BY <1>1, <3>2, SizesAssumption DEF LocalEof, LocalStop
    <3> QED
      BY <1>5, <3>1, <3>2 DEF LocalReader
  <2> QED
    BY <2>1, <2>2, <2>3 DEF SenderInv, StreamInv, Pending
<1> QED
  BY <1>2, <1>3, <1>4, <1>5, SenderKinds DEF SenderInv

LEMMA SenderStep ==
  ASSUME SenderInv, SenderMoves
  PROVE  SenderInv'
BY CoreStep, MemoryStep, StreamStep DEF SenderInv

LEMMA HalfStep ==
  ASSUME MaxInFlight = 1, SenderInv, HalfInv, SenderMoves
  PROVE  HalfInv'
<1>1. slices \in [Slots -> SliceType] /\ sliceNo \in Nat /\ takenPos \in Nat
  BY SenderTypes
<1>2. CASE SameSlices /\ UNCHANGED <<fillVars, freeMem, diskVars>>
  BY <1>2 DEF HalfInv, SameSlices, Pending, fillVars
<1>3. ASSUME NEW s \in Slots, Ack(s)
      PROVE  HalfInv'
  <2>1. slices' = [slices EXCEPT ![s] = FreeSlice] /\ UNCHANGED fillVars
    BY <1>3 DEF Ack
  <2>2. \A t \in Pending' : t \in Pending /\ slices'[t] = slices[t]
    BY <1>1, <2>1 DEF Pending, FreeSlice
  <2> QED
    BY <2>1, <2>2 DEF HalfInv, fillVars
<1>4. ASSUME NEW s \in Slots, NEW n \in 0..MaxSlice, NewSlice(s, n)
      PROVE  HalfInv'
  <2>1. Pending = {}
    <3>1. Cardinality(Pending) < 1
      BY <1>4 DEF NewSlice, WantsSlice
    <3>2. IsFiniteSet(Slots)
      BY SizesAssumption, FS_Interval DEF Slots
    <3>3. IsFiniteSet(Pending)
      BY <3>2, FS_Subset DEF Pending
    <3>4. Cardinality(Pending) \in Nat
      BY <3>3, FS_CardinalityType
    <3> QED
      BY <3>1, <3>3, <3>4, FS_EmptySet
  <2>2. n \in Nat /\ sliceNo' = sliceNo + 1 /\ takenPos' = takenPos + n
    BY <1>4, Cutting
  <2> DEFINE sl == [FreeSlice EXCEPT !.state = "Xmitted", !.no = sliceNo, !.base = takenPos, !.blocks = n]
  <2>3. slices' = [slices EXCEPT ![s] = sl] \/ slices' = slices
    BY <1>4, Cutting
  <2>4. sl.no = sliceNo /\ sl.blocks = n /\ sl.base = takenPos
    BY DEF FreeSlice
  <2> HIDE DEF sl
  <2>5. \A t \in Pending' : t = s /\ slices'[t] = sl
    BY <1>1, <2>1, <2>3 DEF Pending
  <2> QED
    BY <1>1, <2>2, <2>4, <2>5 DEF HalfInv
<1>5. CASE LocalReader
  <2>1. slices' = slices /\ takenPos' = takenPos /\ sliceNo' = sliceNo
    BY <1>5 DEF LocalReader, LocalRead, LocalEof, LocalStop, fillVars
  <2> QED
    BY <2>1 DEF HalfInv, Pending
<1> QED
  BY <1>2, <1>3, <1>4, <1>5, SenderKinds DEF SenderInv

\* One slice in flight is what lies between what was taken and what is free.
LEMMA HalfRing ==
  ASSUME SenderInv, HalfInv
  PROVE  RingIntact
<1> SUFFICES ASSUME NEW s \in Pending, NEW i \in 0..slices[s].blocks - 1
             PROVE  Padded(slices[s].base + i) \/ ring[(slices[s].base + i) % RingBlocks] = slices[s].base + i + 1
  BY DEF RingIntact
<1>1. /\ slices \in [Slots -> SliceType] /\ s \in Slots
      /\ readPos \in Nat /\ takenPos \in Nat /\ freeMem \in Nat /\ RingBlocks \in Nat
      /\ takenPos <= readPos
  BY SenderTypes, SizesAssumption DEF Pending
<1>2. slices[s].base \in Nat /\ slices[s].blocks \in Nat
  BY <1>1 DEF SliceType
<1>3. slices[s].base + slices[s].blocks = takenPos
  BY DEF HalfInv
<1>4. \A t \in Slots \ {s} : slices[t].blocks = 0
  <2> SUFFICES ASSUME NEW t \in Slots \ {s} PROVE slices[t].blocks = 0
    OBVIOUS
  <2>1. t \notin Pending
    BY DEF HalfInv
  <2>2. slices[t].state = "Free"
    BY <1>1, <2>1 DEF Pending, SliceType
  <2> QED
    BY <2>2 DEF SenderInv, MemoryInv
<1>5. BlocksIn(slices) = slices[s].blocks
  BY <1>1, <1>4, BlocksOfOne
<1>6. slices[s].base = readPos - (RingBlocks - freeMem)
  BY <1>1, <1>2, <1>3, <1>5 DEF SenderInv, MemoryInv, MemoryConserved, Available
<1>7. slices[s].base + i \in Nat /\ readPos - (RingBlocks - freeMem) <= slices[s].base + i
      /\ slices[s].base + i < readPos
  BY <1>1, <1>2, <1>3, <1>6
<1> QED
  BY <1>7 DEF SenderInv, StreamInv, LiveCells

-----------------------------------------------------------------------------
(* The queue of answers. *)

\* The answers in the queue.
Queued == 1..Len(Unseen)

LEMMA QueueType ==
  ASSUME CoreInv
  PROVE  /\ msgs \in Seq(MsgType) /\ rcHeld \in Seq(MsgType)
         /\ Unseen \in Seq(MsgType) /\ Len(Unseen) \in Nat
         /\ \A i \in Queued : Unseen[i] \in MsgType
<1>1. msgs \in Seq(MsgType) /\ rcHeld \in Seq(MsgType)
  BY DEF CoreInv, SenderTypeOK
<1>2. Unseen \in Seq(MsgType)
  BY <1>1 DEF Unseen
<1> QED
  BY <1>1, <1>2 DEF Queued

\* The three ways the unseen answers change.
LEMMA Taking ==
  ASSUME CoreInv, msgs # <<>>, msgs' = Tail(msgs), rcHeld' = rcHeld
  PROVE  Unseen # <<>> /\ Unseen' = Tail(Unseen) /\ Head(Unseen) = Head(msgs)
BY QueueType DEF Unseen

LEMMA LookingUp ==
  ASSUME CoreInv, NEW m \in MsgType, RcLookup(m)
  PROVE  Unseen' = Append(Unseen, m)
BY QueueType DEF Unseen, RcLookup

LEMMA Pushing ==
  ASSUME CoreInv, RcPush
  PROVE  Unseen' = Unseen
BY QueueType DEF Unseen, RcPush

\* A slice in flight was so before, or is the one that was just cut.
LEMMA SlotKinds ==
  ASSUME CoreInv, SenderMoves
  PROVE  /\ \A s \in Pending' : \/ s \in Pending /\ slices'[s].no = slices[s].no
                              \/ slices'[s].no = sliceNo
         /\ sliceNo \in Nat /\ (sliceNo' = sliceNo \/ sliceNo' = sliceNo + 1)
         /\ valid' \subseteq valid
<1>1. slices \in [Slots -> SliceType] /\ sliceNo \in Nat
  BY DEF CoreInv, SenderTypeOK
<1>2. valid' \subseteq valid
  BY DEF SenderMoves, Dispatcher, HandleNextMessage, HandleOk, HandleRetransmit, HandleDisconnect,
         MarkAnswered, RemoveParticipants, ReReply, BlockOnData, Finish, Wait, Wake, Ack, Rexmit,
         ReqackAnswered, Expire, NewSlice, LocalReader, LocalRead, LocalEof, LocalStop, RcPush, RcLookup,
         senderVars, dbVars
<1>3. CASE SameSlices /\ UNCHANGED <<fillVars, freeMem, diskVars, async>>
  BY <1>1, <1>3, <1>2 DEF SameSlices, Pending, fillVars
<1>4. ASSUME NEW t \in Slots, Ack(t)
      PROVE  (\A s \in Pending' : s \in Pending /\ slices'[s].no = slices[s].no) /\ sliceNo' = sliceNo
  BY <1>1, <1>4 DEF Ack, FreeSlice, Pending, fillVars
<1>5. ASSUME NEW t \in Slots, NEW n \in 0..MaxSlice, NewSlice(t, n)
      PROVE  /\ sliceNo' = sliceNo + 1
             /\ \A s \in Pending' : \/ s \in Pending /\ slices'[s].no = slices[s].no
                                  \/ slices'[s].no = sliceNo
  BY <1>1, <1>5 DEF NewSlice, FreeSlice, Pending
<1>6. CASE LocalReader
  BY <1>1, <1>6, <1>2 DEF LocalReader, LocalRead, LocalEof, LocalStop, Pending, fillVars
<1> QED
  BY <1>1, <1>3, <1>4, <1>5, <1>6, <1>2, SenderKinds

=============================================================================
