--------------------------- MODULE Ep6FrameProofs ---------------------------
(***************************************************************************)
(* Proofs about Ep6Frame, for every block size, every size of samples,     *)
(* every number of receivers and every unit of time: with SteadyReceivers  *)
(* a block never overflows and the time to sleep until is always valid;    *)
(* without it every variable still keeps its type.                         *)
(***************************************************************************)
EXTENDS Ep6Frame, TLAPS

-----------------------------------------------------------------------------
(* Arithmetic: C's integer division and what is built from it.             *)

\* A quotient times its divisor does not exceed what was divided.
LEMMA DivBound ==
  ASSUME NEW a \in Nat, NEW b \in Nat \ {0}
  PROVE  /\ a \div b \in Nat
         /\ (a \div b) * b <= a
  OBVIOUS

\* A factor that is at least 1 does not make a product smaller.
LEMMA FactorBound ==
  ASSUME NEW a \in Nat, NEW b \in Nat \ {0}
  PROVE  a <= a * b
  OBVIOUS

\* Products are monotone.
LEMMA ProductMonotone ==
  ASSUME NEW a \in Nat, NEW b \in Nat, NEW c \in Nat, a <= b
  PROVE  a * c <= b * c
  OBVIOUS

\* The bytes of one time step of r receivers are a positive number.
LEMMA SizeType ==
  ASSUME NEW r \in 1 .. MaxReceivers
  PROVE  Size(r) \in Nat \ {0}
<1>1. r * IQBytes \in Nat
  BY SizeAssumption
<1> QED
  BY <1>1, SizeAssumption DEF Size

\* n samples of r receivers fit into a block.
LEMMA SamplesFit ==
  ASSUME NEW r \in 1 .. MaxReceivers
  PROVE  /\ Samples(r) \in 0 .. BlockBytes
         /\ Samples(r) * Size(r) <= BlockBytes
<1>1. Size(r) \in Nat \ {0} /\ BlockBytes \in Nat
  BY SizeType, SizeAssumption
<1>2. Samples(r) = BlockBytes \div Size(r)
  BY <1>1 DEF Samples
<1>3. Samples(r) \in Nat /\ Samples(r) * Size(r) <= BlockBytes
  BY <1>1, <1>2, DivBound
<1>4. Samples(r) <= Samples(r) * Size(r)
  BY <1>1, <1>3, FactorBound
<1> QED
  BY <1>1, <1>3, <1>4

\* The time the samples take is less than a second, so that one carry is
\* enough to normalise delay.
LEMMA WaitBound ==
  ASSUME NEW samples \in 0 .. BlockBytes, NEW r \in 0 .. MaxRate
  PROVE  Wait(samples, r) \in 0 .. Second - 1
<1> DEFINE total == 2 * samples * Millisecond
<1>1. BlockBytes \in Nat /\ Millisecond \in Nat /\ Second \in Nat
  BY SizeAssumption, TimeAssumption
<1>2. total \in Nat
  BY <1>1
<1>3. total <= 2 * BlockBytes * Millisecond
  BY <1>1, ProductMonotone
<1>4. total < Second * 48
  BY <1>1, <1>2, <1>3, TimeAssumption
<1>5. KHz(r) \in {48, 96, 192, 384}
  BY SizeAssumption DEF KHz
<1>6. Wait(samples, r) = total \div KHz(r)
  BY <1>2, <1>5 DEF Wait, Quotient
<1>7. ASSUME NEW f \in {48, 96, 192, 384}
      PROVE  total \div f \in 0 .. Second - 1
  <2> HIDE DEF total
  <2>1. CASE f = 48
    BY <1>1, <1>2, <1>4, <2>1
  <2>2. CASE f = 96
    BY <1>1, <1>2, <1>4, <2>2
  <2>3. CASE f = 192
    BY <1>1, <1>2, <1>4, <2>3
  <2>4. CASE f = 384
    BY <1>1, <1>2, <1>4, <2>4
  <2> QED
    BY <1>7, <2>1, <2>2, <2>3, <2>4
<1> QED
  BY <1>5, <1>6, <1>7

-----------------------------------------------------------------------------
(* The invariant.                                                          *)

Inv == TypeOK /\ Layout

\* The initial values have their types.
LEMMA InitType == ASSUME Init PROVE TypeOK
<1>1. MaxReceivers \in Nat
  BY SizeAssumption
<1>2. /\ receivers \in {-1} \cup (1 .. MaxReceivers)
      /\ rate \in {-1} \cup (0 .. MaxRate)
      /\ ready \in BOOLEAN
      /\ pc \in {"loop", "block", "row", "pace", "send"}
  BY Init DEF Init
<1>3. /\ n \in Int /\ wait \in Int /\ block \in {0, 1}
      /\ j \in Nat /\ k \in 0 .. MaxReceivers /\ pointer \in Nat
  BY <1>1, Init DEF Init
<1>4. /\ header_offset \in {0, 8, 16, 24, 32}
      /\ tv_nsec \in Int /\ tv_sec \in {0, 1}
  BY Init DEF Init
<1> QED
  BY <1>2, <1>3, <1>4 DEF TypeOK

\* The thread starts in a state that satisfies it.
LEMMA InitInv == ASSUME SteadyReceivers, Init PROVE Inv
<1>1. pc = "loop" /\ ready = FALSE /\ tv_nsec = 0 /\ Second \in Nat \ {0}
  BY Init, TimeAssumption DEF Init
<1>2. Layout
  BY <1>1 DEF Layout
<1> QED
  BY <1>2, InitType DEF Inv

\* Every step keeps it.
LEMMA NextInv == ASSUME SteadyReceivers, Inv, [Next]_vars PROVE Inv'
<1> USE SizeAssumption, TimeAssumption DEF Inv, TypeOK, Layout
<1>1. ASSUME NEW r \in 1 .. MaxReceivers, SetReceivers(r) PROVE Inv'
  BY <1>1 DEF SetReceivers, MayReset
<1>2. ASSUME NEW r \in 0 .. MaxRate, SetRate(r) PROVE Inv'
  BY <1>2 DEF SetRate, MayReset
<1>3. CASE Start
  BY <1>3 DEF Start
<1>4. CASE Stop
  BY <1>4 DEF Stop
<1>5. CASE Measure
  <2>1. receivers \in 1 .. MaxReceivers /\ rate \in 0 .. MaxRate
    BY <1>5 DEF Measure
  <2>2. n' \in 0 .. BlockBytes /\ n' * Size(receivers) <= BlockBytes
    BY <1>5, <2>1, SamplesFit DEF Measure
  <2>3. wait' \in 0 .. Second - 1
    BY <1>5, <2>1, <2>2, WaitBound DEF Measure
  <2>4. receivers' = receivers
    BY <1>5 DEF Measure
  <2> QED
    BY <1>5, <2>2, <2>3, <2>4 DEF Measure, Size
<1>6. CASE Header
  BY <1>6 DEF Header, NextHeader, Size
<1>7. CASE Sample
  <2>1. pointer' = j' * Size(receivers)' + k' * IQBytes
    BY <1>7 DEF Sample, Size
  <2> QED
    BY <1>7, <2>1 DEF Sample, Size
<1>8. CASE Mic
  <2>1. k = receivers /\ receivers \in 1 .. MaxReceivers
    BY <1>8 DEF Mic
  <2>2. pointer' = j * Size(receivers) + Size(receivers)
    BY <1>8, <2>1 DEF Mic, Size
  <2>3. Size(receivers) \in Nat
    BY <2>1, SizeType
  <2>4. j * Size(receivers) + Size(receivers) = (j + 1) * Size(receivers)
    BY <2>3
  <2>5. pointer' = j' * Size(receivers)' + k' * IQBytes
    BY <1>8, <2>2, <2>3, <2>4 DEF Mic, Size
  <2>6. pointer' \in Nat
    BY <1>8 DEF Mic
  <2> QED
    BY <1>8, <2>1, <2>5, <2>6 DEF Mic, Size
<1>9. CASE EndBlock
  BY <1>9 DEF EndBlock, NextBlock, Size
<1>10. CASE Pace
  BY <1>10 DEF Pace, Carry
<1>11. CASE Send
  BY <1>11 DEF Send
<1>12. CASE UNCHANGED vars
  BY <1>12 DEF vars, Size
<1> QED
  BY <1>1, <1>2, <1>3, <1>4, <1>5, <1>6, <1>7, <1>8, <1>9, <1>10, <1>11, <1>12
  DEF Next, Thread

\* While the settings do not change under way, the pointer is where the
\* counters say and the time is normalised.
THEOREM LayoutInvariance ==
  ASSUME SteadyReceivers PROVE Spec => [](TypeOK /\ Layout)
<1>1. Init => Inv
  BY InitInv, SteadyReceivers
<1>2. Inv /\ [Next]_vars => Inv'
  BY NextInv, SteadyReceivers
<1>3. Inv <=> TypeOK /\ Layout
  BY DEF Inv
<1> QED
  BY <1>1, <1>2, <1>3, PTL DEF Spec

-----------------------------------------------------------------------------
(* What follows from it.                                                   *)

\* A sample that is written ends inside the block: j rows and the samples up
\* to k are less than n rows.
LEMMA LayoutFits == SteadyReceivers /\ TypeOK /\ Layout => WithinBlock
<1> SUFFICES ASSUME SteadyReceivers, TypeOK, Layout,
                    pc = "row", j < n, k < receivers
             PROVE  pointer + IQBytes <= BlockBytes
  BY DEF WithinBlock
<1>1. /\ receivers \in 1 .. MaxReceivers /\ j \in Nat /\ k \in Nat /\ n \in Nat
      /\ pointer = j * Size(receivers) + k * IQBytes
      /\ n * Size(receivers) <= BlockBytes
  BY DEF TypeOK, Layout
<1>2. IQBytes \in Nat /\ MicBytes \in Nat /\ BlockBytes \in Nat
  BY SizeAssumption
<1>3. (k + 1) * IQBytes <= receivers * IQBytes
  BY <1>1, <1>2, ProductMonotone
<1>4. Size(receivers) \in Nat /\ (k + 1) * IQBytes <= Size(receivers)
  BY <1>1, <1>2, <1>3, SizeType DEF Size
<1>5. (j + 1) * Size(receivers) <= n * Size(receivers)
  BY <1>1, <1>4, ProductMonotone
<1>6. pointer + IQBytes = j * Size(receivers) + (k + 1) * IQBytes
  BY <1>1, <1>2, <1>4
<1>7. j * Size(receivers) + Size(receivers) = (j + 1) * Size(receivers)
  BY <1>1, <1>4
<1> QED
  BY <1>1, <1>2, <1>4, <1>5, <1>6, <1>7

\* The samples of a block fit into it.
THEOREM AlwaysWithinBlock == ASSUME SteadyReceivers PROVE Spec => []WithinBlock
<1>1. TypeOK /\ Layout => WithinBlock
  BY LayoutFits, SteadyReceivers
<1> QED
  BY LayoutInvariance, SteadyReceivers, <1>1, PTL

\* clock_nanosleep always gets a valid time.
THEOREM AlwaysPaceValid == ASSUME SteadyReceivers PROVE Spec => []PaceValid
<1>1. TypeOK /\ Layout => PaceValid
  BY TimeAssumption, SteadyReceivers DEF PaceValid, Layout, TypeOK
<1> QED
  BY LayoutInvariance, SteadyReceivers, <1>1, PTL

-----------------------------------------------------------------------------
(* Types, whether the settings are steady or not: also with the negative   *)
(* size of receivers never set.                                            *)

\* C's division of an integer by a positive number is an integer.
LEMMA QuotientType ==
  ASSUME NEW a \in Int, NEW b \in Nat \ {0} PROVE Quotient(a, b) \in Int
BY DEF Quotient

\* The samples of a block are a number, before and after the receivers are set.
LEMMA SamplesType ==
  ASSUME NEW r \in {-1} \cup (1 .. MaxReceivers) PROVE Samples(r) \in Int
<1>1. CASE r = -1
  <2>1. Size(r) = MicBytes - IQBytes
    BY <1>1, SizeAssumption DEF Size
  <2>2. -Size(r) \in Nat \ {0} /\ ~(Size(r) > 0) /\ BlockBytes \in Nat
    BY <2>1, SizeAssumption
  <2> HIDE <1>1
  <2>3. BlockBytes \div (-Size(r)) \in Nat
    BY <2>2, DivBound
  <2> QED
    BY <2>2, <2>3 DEF Samples
<1>2. CASE r \in 1 .. MaxReceivers
  BY <1>2, SamplesFit
<1> QED
  BY <1>1, <1>2

\* So is the time to wait, before and after the rate is set.
LEMMA WaitType ==
  ASSUME NEW samples \in Int, NEW r \in {-1} \cup (0 .. MaxRate)
  PROVE  Wait(samples, r) \in Int
<1>1. KHz(r) \in {0, 48, 96, 192, 384}
  BY SizeAssumption DEF KHz
<1>2. 2 * samples * Millisecond \in Int
  BY TimeAssumption
<1> QED
  BY <1>1, <1>2, QuotientType DEF Wait

\* Every variable has its type in every state, whenever the settings change.
THEOREM Ep6TypeCorrect == Spec => []TypeOK
<1>1. MaxReceivers \in Nat /\ MaxRate \in 0 .. 3 /\ Second \in Nat \ {0}
      /\ IQBytes \in Nat /\ MicBytes \in Nat
  BY SizeAssumption, TimeAssumption
<1>2. Init => TypeOK
  BY InitType
<1>3. TypeOK /\ [Next]_vars => TypeOK'
  <2> SUFFICES ASSUME TypeOK, [Next]_vars PROVE TypeOK'
    OBVIOUS
  <2> USE <1>1 DEF TypeOK
  <2>1. ASSUME NEW r \in 1 .. MaxReceivers, SetReceivers(r) PROVE TypeOK'
    BY <2>1 DEF SetReceivers
  <2>2. ASSUME NEW r \in 0 .. MaxRate, SetRate(r) PROVE TypeOK'
    BY <2>2 DEF SetRate
  <2>3. CASE Start
    BY <2>3 DEF Start
  <2>4. CASE Stop
    BY <2>4 DEF Stop
  <2>5. CASE Measure
    <3>1. n' \in Int
      BY <2>5, SamplesType DEF Measure
    <3>2. wait' \in Int
      BY <2>5, <3>1, WaitType DEF Measure
    <3> QED
      BY <2>5, <3>1, <3>2 DEF Measure
  <2>6. CASE Header
    BY <2>6 DEF Header, NextHeader
  <2>7. CASE Sample
    BY <2>7 DEF Sample
  <2>8. CASE Mic
    BY <2>8 DEF Mic
  <2>9. CASE EndBlock
    BY <2>9 DEF EndBlock, NextBlock
  <2>10. CASE Pace
    BY <2>10 DEF Pace
  <2>11. CASE Send
    BY <2>11 DEF Send
  <2>12. CASE UNCHANGED vars
    BY <2>12 DEF vars
  <2> QED
    BY <2>1, <2>2, <2>3, <2>4, <2>5, <2>6, <2>7, <2>8, <2>9, <2>10, <2>11,
       <2>12 DEF Next, Thread
<1> QED
  BY <1>2, <1>3, PTL DEF Spec
=============================================================================
