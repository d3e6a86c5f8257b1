--------------------------- MODULE Participants ---------------------------
(***************************************************************************)
(* ParticipantsDb (participants.rs): the table of registered receivers the *)
(* sender shares with its return-channel thread.  A client is named by its *)
(* slot number; the table's "used" flags are the set valid.  The address   *)
(* and capability columns are fixed once negotiation ends, so they are the *)
(* constants Receivers and LateJoiners here.                               *)
(***************************************************************************)
EXTENDS Integers, FiniteSets

CONSTANTS
  Receivers,    \* participant numbers that registered during negotiation
  LateJoiners   \* those that advertised CAP_LATE_JOIN

ASSUME ReceiversAssumption == IsFiniteSet(Receivers)
ASSUME LateJoinersAssumption == LateJoiners \subseteq Receivers

VARIABLES
  valid,           \* clients whose slot is in use
  nrParticipants,  \* the counter kept beside the table
  everAnswered,    \* clients that answered since the transfer started
  firstRound       \* (slice, round) of a client's first answer to its latest slice

dbVars == <<valid, nrParticipants, everAnswered, firstRound>>

NoSlice == -1
NeverAnswered == [no |-> NoSlice, round |-> 0]

DbInit ==
  /\ valid = Receivers
  /\ nrParticipants = Cardinality(Receivers)
  /\ everAnswered = {}
  /\ firstRound = [c \in Receivers |-> NeverAnswered]

\* Mutant: the counter goes down for slots not in use as well.
RemoveParticipantsTwice(C) ==
  /\ valid' = valid \ C
  /\ nrParticipants' = nrParticipants - Cardinality(C)
  /\ UNCHANGED <<everAnswered, firstRound>>

\* Slots not in use are left alone, and so is the counter for them.
RemoveParticipants(C) ==
  /\ valid' = valid \ C
  /\ nrParticipants' = nrParticipants - Cardinality(C \cap valid)
  /\ UNCHANGED <<everAnswered, firstRound>>

\* An answer about slice no in round: the stamp is renewed once per slice.
\* The slot need not be in use any more.
MarkAnswered(c, no, round) ==
  /\ everAnswered' = everAnswered \cup {c}
  /\ firstRound' =
       IF no = NoSlice \/ firstRound[c].no = no THEN firstRound
       ELSE [firstRound EXCEPT ![c] = [no |-> no, round |-> round]]
  /\ UNCHANGED <<valid, nrParticipants>>

\* The round from which c's retry budget on slice no is counted.
BudgetBase(c, no) == IF firstRound[c].no = no THEN firstRound[c].round ELSE 0
=============================================================================
