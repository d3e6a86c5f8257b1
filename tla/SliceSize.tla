----------------------------- MODULE SliceSize -----------------------------
(***************************************************************************)
(* The adaptive slice size (senddata.rs): it grows by a quarter with every *)
(* slice that is acknowledged until it comes to its maximum or a block is  *)
(* lost, and then only reacts to losses.  SendData takes any size up to    *)
(* its MaxSlice for it; the theorems at the end say that the size is never *)
(* 0, which would look like the end of the input, and how large it gets.   *)
(***************************************************************************)
EXTENDS Integers, TLAPS

CONSTANTS
  MinOption, MaxOption, DefaultOption,  \* --min-, --max-, --default-slice-size; 0 is no default
  Fec, FecStripes, FecStripesize,       \* -F [stripes]x[redundancy]/[stripesize]
  Async, Sn                             \* FLAG_ASYNC, FLAG_SN

\* What the command line can hold, but for a -F whose stripes are none or empty.
\* The sizes are taken to stay within the 32 bits the code keeps them in.
Options ==
  /\ MinOption \in Nat /\ MaxOption \in Nat /\ DefaultOption \in Nat
  /\ Fec \in BOOLEAN /\ Async \in BOOLEAN /\ Sn \in BOOLEAN
  /\ FecStripes \in Nat \ {0} /\ FecStripesize \in Nat \ {0}

AtMost(a, b)  == IF a > b THEN b ELSE a
AtLeast(a, b) == IF a < b THEN b ELSE a

\* run_sender puts the options in order.
MinSize     == AtLeast(MinOption, 1)
MaxRequest  == AtLeast(MaxOption, MinSize)
DefaultSize == IF DefaultOption = 0 THEN 0 ELSE AtMost(AtLeast(DefaultOption, MinSize), MaxRequest)

\* The code of a stripe has at most 128 data blocks.
FecLimit == 128 * FecStripes

FirstSize ==
  IF DefaultSize # 0 THEN DefaultSize
  ELSE IF Fec THEN FecStripesize * FecStripes
  ELSE IF Async THEN 1024
  ELSE IF Sn THEN 112 ELSE 130

MaxSize == IF Fec THEN AtMost(MaxRequest, FecLimit) ELSE MaxRequest

\* A size reduced below this is set to it, whatever the options say.
Floor == 32

VARIABLES
  sliceSize,   \* blocks of the next slice
  discovery,   \* "doubling" until the maximum or a loss was met, "reducing" after
  largest      \* blocks of the largest slice cut so far

sizeVars == <<sliceSize, discovery, largest>>

Init ==
  /\ sliceSize = AtMost(IF Fec THEN AtMost(FirstSize, FecLimit) ELSE FirstSize, MaxSize)
  /\ discovery = "doubling"
  /\ largest = 0

\* A slice is cut, as large as the size allows.
Cut == largest' = AtLeast(largest, sliceSize) /\ UNCHANGED <<sliceSize, discovery>>

\* ack_slice
AckSlice ==
  /\ ~Sn /\ discovery = "doubling"
  /\ LET grown == sliceSize + sliceSize \div 4
     IN  /\ sliceSize' = AtMost(grown, MaxSize)
         /\ discovery' = IF grown >= MaxSize THEN "reducing" ELSE discovery
  /\ UNCHANGED largest

\* send_reqack, of a later round of a slice cut so far: good is the last of its
\* blocks that rexmit_slice did not send again.
SendReqack ==
  /\ ~Async
  /\ \E good \in 1..largest - 1 :
       sliceSize' = AtLeast(IF good < sliceSize \div 2 THEN sliceSize \div 2 ELSE good, Floor)
  /\ discovery' = "reducing"
  /\ UNCHANGED largest

Next == Cut \/ AckSlice \/ SendReqack

Spec == Init /\ [][Next]_sizeVars

-----------------------------------------------------------------------------
Bound == AtLeast(MaxSize, Floor)

\* A slice that holds nothing looks like the end of the input to every receiver:
\* no sequence of acknowledgements and losses brings the size down to 0.
SizePositive == sliceSize >= 1

\* The size keeps to --max-slice-size and to what the code of a stripe can
\* cover, except that a loss raises a smaller size to 32.
SizeBounded == sliceSize <= Bound

\* Inductive: last_good_block is of a slice that was cut, so not larger than a size was.
SizeInv ==
  /\ sliceSize \in Nat /\ SizePositive /\ SizeBounded
  /\ largest \in Nat /\ largest <= Bound

\* What the options come to is a size between 1 and the bound.
LEMMA OptionsInOrder ==
  ASSUME Options
  PROVE  /\ MaxSize \in Nat \ {0}
         /\ FirstSize \in Nat \ {0}
         /\ FecLimit \in Nat \ {0}
<1>1. MinSize \in Nat \ {0} /\ MaxRequest \in Nat \ {0}
  BY DEF Options, MinSize, MaxRequest, AtLeast
<1>2. FecLimit \in Nat \ {0}
  BY DEF Options, FecLimit
<1>3. MaxSize \in Nat \ {0}
  BY <1>1, <1>2 DEF Options, MaxSize, AtMost
<1>4. DefaultSize \in Nat
  BY <1>1 DEF Options, DefaultSize, AtMost, AtLeast
<1>5. FecStripesize * FecStripes \in Nat \ {0}
  BY DEF Options
<1>6. FirstSize \in Nat \ {0}
  BY <1>4, <1>5 DEF Options, FirstSize
<1> QED BY <1>2, <1>3, <1>6

\* A size is set, grown and reduced within its bounds.
LEMMA SizeInvariant == ASSUME Options PROVE Spec => []SizeInv
<1> USE OptionsInOrder
<1> DEFINE B == Bound
<1>b. B \in Nat /\ B >= 32 /\ B >= MaxSize
  BY DEF Bound, AtLeast, Floor
<1>1. Init => SizeInv
  <2> SUFFICES ASSUME Init PROVE SizeInv
    OBVIOUS
  <2>1. sliceSize \in Nat /\ sliceSize >= 1 /\ sliceSize <= MaxSize
    BY DEF Init, AtMost
  <2> QED BY <1>b, <2>1 DEF Init, SizeInv, SizePositive, SizeBounded
<1>2. SizeInv /\ [Next]_sizeVars => SizeInv'
  <2> SUFFICES ASSUME SizeInv, [Next]_sizeVars PROVE SizeInv'
    OBVIOUS
  <2>b. Bound' = Bound
    BY DEF Bound, MaxSize, MaxRequest, MinSize, FecLimit, Floor, AtLeast, AtMost
  <2>1. CASE Cut
    BY <1>b, <2>b, <2>1 DEF Cut, SizeInv, SizePositive, SizeBounded, AtLeast
  <2>2. CASE AckSlice
    <3>1. /\ sliceSize \div 4 \in Nat
          /\ sliceSize' = AtMost(sliceSize + sliceSize \div 4, MaxSize)
          /\ largest' = largest
      BY <2>2 DEF AckSlice, SizeInv
    <3>2. sliceSize' \in Nat /\ sliceSize' >= 1 /\ sliceSize' <= MaxSize
      BY <3>1 DEF SizeInv, SizePositive, AtMost
    <3> QED BY <1>b, <2>b, <3>1, <3>2 DEF SizeInv, SizePositive, SizeBounded
  <2>3. CASE SendReqack
    <3>1. PICK good \in 1..largest - 1 :
            sliceSize' = AtLeast(IF good < sliceSize \div 2 THEN sliceSize \div 2 ELSE good, Floor)
      BY <2>3 DEF SendReqack
    <3>2. sliceSize \div 2 \in Nat /\ sliceSize \div 2 <= B /\ good \in Nat /\ good <= B
      BY <1>b, <3>1 DEF SizeInv, SizeBounded
    <3>3. sliceSize' \in Nat /\ sliceSize' >= 32 /\ sliceSize' <= B
      BY <1>b, <3>1, <3>2 DEF AtLeast, Floor
    <3> QED BY <2>3, <2>b, <3>3 DEF SendReqack, SizeInv, SizePositive, SizeBounded
  <2>4. CASE UNCHANGED sizeVars
    BY <2>b, <2>4 DEF sizeVars, SizeInv, SizePositive, SizeBounded
  <2> QED BY <2>1, <2>2, <2>3, <2>4 DEF Next
<1> QED BY <1>1, <1>2, PTL DEF Spec

\* No size is 0, so no slice but the last is taken for the end of the transfer.
THEOREM SizeStaysPositive == ASSUME Options PROVE Spec => []SizePositive
BY SizeInvariant, PTL DEF SizeInv

\* The adaptive size respects its limits up to the floor of 32 blocks.
THEOREM SizeStaysBounded == ASSUME Options PROVE Spec => []SizeBounded
BY SizeInvariant, PTL DEF SizeInv
=============================================================================
