---------------------------- MODULE RateGovernor ----------------------------
(***************************************************************************)
(* The bit rate governor (MaxBitrateData of rate.rs): every packet waits   *)
(* until the ones before it, counted in queue_size, have had the time they *)
(* take at the rate.  Sleeps come in units of 10 ms, quotients are rounded *)
(* and the date of the last account moves by what was accounted.  The      *)
(* theorem says that none of this adds up: the rate is kept up to 40 ms of *)
(* it and a microsecond per packet.                                        *)
(***************************************************************************)
EXTENDS Integers, TLAPS

CONSTANT Bitrate   \* --max-bitrate in bits per second; 0 is no limit

VARIABLES
  now,         \* the clock, in microseconds since the governor was set up
  date_us,     \* the moment up to which queue_size has been accounted for
  queue_size,  \* bytes let through that have not had their time yet
  sent,        \* bytes let through so far, headers included
  size,        \* bytes of the last packet let through, with its header
  calls        \* packets let through so far

rateVars == <<now, date_us, queue_size, sent, size, calls>>

Micro  == 1000000
Header == 28        \* IP and UDP

Init == /\ now = 0 /\ date_us = 0 /\ queue_size = 0
        /\ sent = 0 /\ size = 0 /\ calls = 0

\* The clock is taken not to be set back; the code's u64 not to overflow.
Tick == /\ \E n \in Nat \ {0} : now' = now + n
        /\ UNCHANGED <<date_us, queue_size, sent, size, calls>>

\* The bits the rate allowed since date_us.
Bits == ((now - date_us) * Bitrate) \div Micro

Pass(n) == size' = n + Header /\ sent' = sent + n + Header /\ calls' = calls + 1

\* Everything before the packet has had its time: it is let through at once.
WaitEmpty(n) ==
  /\ Bits >= queue_size * 8
  /\ queue_size' = n + Header
  /\ date_us' = now
  /\ Pass(n)
  /\ UNCHANGED now

\* The time the queue still takes, and how much of it the sender sleeps.
SleepTime(queue) == (queue * 8 * Micro) \div Bitrate

Sleep(queue) ==
  LET st == SleepTime(queue) - 10000
  IN  IF (SleepTime(queue) > 40000 \/ queue >= 100000) /\ st > 0 THEN st - (st % 10000) ELSE 0

\* Part of the queue has had its time; the packet waits for most of the rest.
\* A sleep may last longer than was asked for.
WaitQueued(n) ==
  /\ Bits < queue_size * 8
  /\ LET left == queue_size - Bits \div 8
     IN  /\ queue_size' = left + n + Header
         /\ \E late \in Nat : now' = now + Sleep(left) + late
  /\ date_us' = date_us + (Bits * Micro) \div Bitrate
  /\ Pass(n)

Wait == \E n \in Nat : WaitEmpty(n) \/ WaitQueued(n)

Next == Tick \/ Wait

Spec == Init /\ [][Next]_rateVars

-----------------------------------------------------------------------------
\* How much longer than it may the queue takes to empty when a packet is let
\* through: up to 40 ms are not slept.
Slack == 40001

\* A bit takes Micro \div Bitrate microseconds: what was let through before the
\* last packet fits in the time since the set-up, the slack and a microsecond
\* for the rounding in each call, whatever packets come at whatever times.
RateKept == 8 * Micro * (sent - size) <= Bitrate * (now + calls + Slack)

\* Bytes in the queue were let through and not accounted for: the cast of the
\* queue to an unsigned number, and the date's difference, are never of a
\* negative one.
Accounted == queue_size >= 0 /\ date_us <= now

RateTypes ==
  /\ now \in Nat /\ date_us \in Nat /\ queue_size \in Int
  /\ sent \in Nat /\ size \in Nat /\ calls \in Nat

\* What has left the queue had its time before date_us, but for the rounding.
AccountKept == 8 * Micro * (sent - queue_size) <= Bitrate * (date_us + calls)

\* What is in the queue ahead of the last packet is due within the slack.
QueueShort == 8 * Micro * (queue_size - size) <= Bitrate * (now - date_us + Slack)

RateInv == RateTypes /\ Accounted /\ AccountKept /\ QueueShort

\* What a quotient of natural numbers is.
LEMMA Quotient ==
  ASSUME NEW a \in Nat, NEW b \in Nat \ {0}
  PROVE  /\ a \div b \in Nat
         /\ b * (a \div b) <= a
         /\ a < b * (a \div b) + b
BY SMT

\* Order carries over a product.
LEMMA Product ==
  ASSUME NEW a \in Int, NEW b \in Int, NEW c \in Nat, a <= b
  PROVE  c * a <= c * b
BY SMT

\* Cancelling a factor.
LEMMA Factor ==
  ASSUME NEW a \in Int, NEW b \in Int, NEW c \in Nat \ {0}, c * a <= c * b
  PROVE  a <= b
BY SMT

\* What is taken off by rounding down to 10 ms.
LEMMA Rounded ==
  ASSUME NEW a \in Nat
  PROVE  a - (a % 10000) \in Nat /\ a - (a % 10000) > a - 10000
<1>1. a % 10000 \in Int /\ a % 10000 < 10000 /\ a % 10000 <= a
  BY SMT
<1> QED BY <1>1, SMT

\* All but 40 ms of what the queue takes is slept.
LEMMA Slept ==
  ASSUME Bitrate \in Nat \ {0}, NEW queue \in Nat
  PROVE  /\ Sleep(queue) \in Nat
         /\ 8 * Micro * queue <= Bitrate * (Sleep(queue) + Slack)
<1> DEFINE T == SleepTime(queue)
<1>1. T \in Nat /\ queue * 8 * Micro < Bitrate * T + Bitrate
  BY Quotient, queue * 8 * Micro \in Nat, SMT DEF SleepTime, Micro
<1>2. Sleep(queue) \in Nat /\ T + 1 <= Sleep(queue) + Slack
  <2>1. CASE T > 40000 \/ (queue >= 100000 /\ T > 10000)
    <3>1. /\ T - 10000 \in Nat
          /\ Sleep(queue) = (T - 10000) - ((T - 10000) % 10000)
      BY <1>1, <2>1, SMT DEF Sleep
    <3> HIDE DEF T
    <3> QED BY <1>1, <3>1, Rounded, SMT DEF Slack
  <2>2. CASE T <= 40000 /\ ~(queue >= 100000 /\ T > 10000)
    BY <1>1, <2>2, SMT DEF Sleep, Slack
  <2> QED BY <1>1, <2>1, <2>2, SMT
<1>3. Bitrate * (T + 1) <= Bitrate * (Sleep(queue) + Slack)
  BY <1>1, <1>2, Product, SMT DEF Slack
<1>4. Bitrate * (T + 1) = Bitrate * T + Bitrate
  BY <1>1
<1>5. Bitrate * T \in Int /\ Bitrate * (Sleep(queue) + Slack) \in Int
  BY <1>1, <1>2, SMT DEF Slack
<1> HIDE DEF T
<1> QED BY <1>1, <1>2, <1>3, <1>4, <1>5, SMT DEF Micro

\* The account stays kept when packets pass without delay, with one, or not at all.
LEMMA RateInvariant == ASSUME Bitrate \in Nat \ {0} PROVE Spec => []RateInv
<1>1. Init => RateInv
  BY SMT DEF Init, RateInv, RateTypes, Accounted, AccountKept, QueueShort, Micro, Slack
<1>2. RateInv /\ [Next]_rateVars => RateInv'
  <2> SUFFICES ASSUME RateInv, [Next]_rateVars PROVE RateInv'
    OBVIOUS
  <2>t. RateTypes /\ Accounted /\ AccountKept /\ QueueShort
    BY DEF RateInv
  <2>e. /\ now - date_us \in Nat /\ (now - date_us) * Bitrate \in Nat
        /\ Bits \in Nat /\ Micro * Bits <= (now - date_us) * Bitrate
    BY <2>t, Quotient, SMT DEF Bits, RateTypes, Accounted, Micro
  <2>1. CASE Tick
    <3>1. PICK n \in Nat : now' = now + n
      BY <2>1 DEF Tick
    <3>2. /\ now - date_us + Slack \in Int /\ (now + n) - date_us + Slack \in Int
          /\ now - date_us + Slack <= (now + n) - date_us + Slack
      BY <2>t, SMT DEF RateTypes, Slack
    <3>3. /\ Bitrate * (now - date_us + Slack) <= Bitrate * (now' - date_us + Slack)
          /\ Bitrate * (now - date_us + Slack) \in Int
          /\ Bitrate * (now' - date_us + Slack) \in Int
      <4>1. Bitrate * (now - date_us + Slack) <= Bitrate * ((now + n) - date_us + Slack)
        BY <3>2, Product
      <4>2. now' - date_us + Slack = (now + n) - date_us + Slack
        BY <3>1
      <4>3. /\ Bitrate * (now - date_us + Slack) \in Int
            /\ Bitrate * ((now + n) - date_us + Slack) \in Int
        BY <3>2, SMT
      <4> QED BY <4>1, <4>2, <4>3
    <3>4. UNCHANGED <<date_us, queue_size, sent, size, calls>>
      BY <2>1 DEF Tick
    <3>5. RateTypes' /\ Accounted'
      BY <2>t, <3>1, <3>4, SMT DEF RateTypes, Accounted
    <3>6. AccountKept'
      BY <2>t, <3>4, SMT DEF AccountKept
    <3>7. QueueShort'
      <4>1. 8 * Micro * (queue_size - size) \in Int
        BY <2>t, SMT DEF RateTypes, Micro
      <4> QED BY <2>t, <3>3, <3>4, <4>1, SMT DEF QueueShort
    <3> QED BY <3>5, <3>6, <3>7 DEF RateInv
  <2>2. ASSUME NEW n \in Nat, WaitEmpty(n) PROVE RateInv'
    <3>1. 8 * Micro * queue_size <= (now - date_us) * Bitrate
      BY <2>2, <2>t, <2>e, SMT DEF WaitEmpty, RateTypes, Micro
    <3>2. 8 * Micro * sent <= Bitrate * (date_us + calls) + (now - date_us) * Bitrate
      BY <2>t, <3>1, SMT DEF AccountKept, RateTypes, Micro
    <3>3. Bitrate * (date_us + calls) + (now - date_us) * Bitrate = Bitrate * (now + calls)
      BY <2>t DEF RateTypes
    <3>4. Bitrate * (now + calls) <= Bitrate * (now + (calls + 1))
      BY <2>t, Product DEF RateTypes
    <3>5. Bitrate * Slack >= 0 /\ Bitrate * (now + calls) \in Int /\ Bitrate * (now + (calls + 1)) \in Int
      BY <2>t, SMT DEF Slack, RateTypes
    <3>6. /\ queue_size' = n + Header /\ date_us' = now /\ now' = now /\ size' = n + Header
          /\ sent' = sent + n + Header /\ calls' = calls + 1
      BY <2>2 DEF WaitEmpty, Pass
    <3>7. AccountKept'
      <4>1. sent' - queue_size' = sent
        BY <2>t, <3>6, SMT DEF RateTypes, Header
      <4> QED BY <2>t, <3>2, <3>3, <3>4, <3>5, <3>6, <4>1, SMT DEF AccountKept, Micro, RateTypes
    <3>8. QueueShort'
      <4>1. queue_size' - size' = 0 /\ now' - date_us' + Slack = Slack
        BY <2>t, <3>6, SMT DEF RateTypes, Header, Slack
      <4> QED BY <3>5, <4>1, SMT DEF QueueShort, Micro, Slack
    <3> QED BY <2>t, <3>6, <3>7, <3>8, SMT DEF RateInv, RateTypes, Accounted, Header
  <2>3. ASSUME NEW n \in Nat, WaitQueued(n) PROVE RateInv'
    <3> DEFINE left == queue_size - Bits \div 8
               due == (Bits * Micro) \div Bitrate
    <3>0. PICK late \in Nat : now' = now + Sleep(left) + late
      BY <2>3 DEF WaitQueued
    <3>1. /\ queue_size' = left + n + Header /\ date_us' = date_us + due
          /\ size' = n + Header /\ sent' = sent + n + Header /\ calls' = calls + 1
          /\ Bits < queue_size * 8
      BY <2>3 DEF WaitQueued, Pass
    <3>2. Bits \div 8 \in Nat /\ 8 * (Bits \div 8) <= Bits /\ left \in Nat
      BY <2>t, <2>e, <3>1 DEF RateTypes, Accounted
    <3>3. /\ due \in Nat /\ Bitrate * due <= Bits * Micro
          /\ Bits * Micro < Bitrate * due + Bitrate
      BY <2>e, Quotient, Bits * Micro \in Nat, SMT DEF Micro
    <3>4. due <= now - date_us
      <4>1. Bitrate * due <= Bitrate * (now - date_us)
        BY <2>e, <3>3, SMT DEF Micro
      <4> QED BY <2>e, <3>3, <4>1, Factor
    <3> HIDE DEF left, due
    <3>5. AccountKept'
      <4>1. 8 * Micro * (Bits \div 8) <= Bits * Micro
        BY <2>e, <3>2, SMT DEF Micro
      <4>2. sent' - queue_size' = (sent - queue_size) + Bits \div 8
        BY <2>t, <3>1, <3>2, SMT DEF RateTypes, Header, left
      <4>3. 8 * Micro * (sent' - queue_size') <= Bitrate * (date_us + calls) + Bitrate * due + Bitrate
        BY <2>t, <2>e, <3>2, <3>3, <4>1, <4>2, SMT DEF AccountKept, RateTypes, Micro
      <4>4. Bitrate * (date_us + calls) + Bitrate * due + Bitrate = Bitrate * ((date_us + due) + (calls + 1))
        BY <2>t, <3>3 DEF RateTypes
      <4> QED BY <3>1, <4>3, <4>4 DEF AccountKept
    <3>6. QueueShort'
      <4>1. /\ Sleep(left) \in Nat
            /\ 8 * Micro * left <= Bitrate * (Sleep(left) + Slack)
        BY <3>2, Slept
      <4> DEFINE slept == Sleep(left) + Slack
                 past  == (now + Sleep(left) + late) - (date_us + due) + Slack
      <4>2. slept \in Int /\ past \in Int /\ slept <= past
        BY <2>t, <3>3, <3>4, <4>1, SMT DEF RateTypes, Slack
      <4>3. past = now' - date_us' + Slack
        BY <3>0, <3>1
      <4>4. queue_size' - size' = left
        BY <3>1, <3>2, SMT DEF Header
      <4>5. 8 * Micro * left <= Bitrate * slept /\ 8 * Micro * left \in Int
        BY <3>2, <4>1, SMT DEF Micro
      <4> HIDE DEF slept, past
      <4>6. 8 * Micro * left <= Bitrate * past
        <5>1. Bitrate * slept <= Bitrate * past
          BY <4>2, Product
        <5> QED BY <4>2, <4>5, <5>1, SMT
      <4> QED BY <4>3, <4>4, <4>6 DEF QueueShort
    <3>7. now' \in Nat /\ date_us' \in Nat /\ date_us' <= now'
      <4>1. Sleep(left) \in Nat
        BY <3>2, Slept
      <4> QED BY <2>t, <3>0, <3>1, <3>3, <3>4, <4>1, SMT DEF RateTypes, Accounted
    <3>8. /\ queue_size' \in Nat /\ sent' \in Nat /\ size' \in Nat /\ calls' \in Nat
          /\ queue_size' >= 0
      BY <2>t, <3>1, <3>2, SMT DEF RateTypes, Header
    <3> QED BY <3>5, <3>6, <3>7, <3>8 DEF RateInv, RateTypes, Accounted
  <2>4. CASE UNCHANGED rateVars
    BY <2>t, <2>4 DEF rateVars, RateInv, RateTypes, Accounted, AccountKept, QueueShort
  <2> QED BY <2>1, <2>2, <2>3, <2>4 DEF Next, Wait
<1> QED BY <1>1, <1>2, PTL DEF Spec

\* What the governor lets through keeps to the rate for ever: the errors of the
\* rounding and of the coarse sleeps do not add up.
THEOREM RateIsKept == ASSUME Bitrate \in Nat \ {0} PROVE Spec => []RateKept
<1>1. RateInv => RateKept
  <2> SUFFICES ASSUME RateInv PROVE RateKept
    OBVIOUS
  <2>1. /\ 8 * Micro * (sent - size)
            = 8 * Micro * (sent - queue_size) + 8 * Micro * (queue_size - size)
        /\ Bitrate * (date_us + calls) + Bitrate * (now - date_us + Slack)
            = Bitrate * (now + calls + Slack)
    BY SMT DEF RateInv, RateTypes, Micro, Slack
  <2> QED BY <2>1, SMT DEF RateInv, RateTypes, AccountKept, QueueShort, RateKept, Micro, Slack
<1> QED BY <1>1, RateInvariant, PTL

\* The governor's differences and casts are never of negative numbers.
THEOREM RateIsAccounted == ASSUME Bitrate \in Nat \ {0} PROVE Spec => []Accounted
BY RateInvariant, PTL DEF RateInv
=============================================================================
