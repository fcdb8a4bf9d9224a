--------------------------- MODULE RfSenderProofs ---------------------------
(***************************************************************************)
(* Proofs about RfSender for every set of senders and frequencies and all  *)
(* limits: the types, and, under the assumption ~Overlap that makes them   *)
(* hold, the safety properties: one thread at a time is inside the sender  *)
(* functions.                                                              *)
(***************************************************************************)
EXTENDS RfSender, TLAPS

\* Nothing is initialised and nothing transmits when the program starts.
LEMMA InitSenderInv == Init => SenderInv
<1> SUFFICES ASSUME Init PROVE SenderInv
  OBVIOUS
<1> USE FreqAssumption, HandleAssumption DEF Init, Callers, Set, Victims
<1>1. Live = {}
  BY DEF Live
<1>2. TypeOK
  BY <1>1 DEF TypeOK, Pcs
<1>3. Exclusive
  BY DEF Exclusive, Active
<1>4. SenderState
  BY <1>1 DEF SenderState, NoSenderLost, Active
<1>5. Tuning
  BY <1>1 DEF Tuning, TunedInRange, CommandObeyed, InRange, Active
<1>6. Feeding
  BY DEF Feeding, NoUseAfterDeinit, Runs
<1> QED
  BY <1>2, <1>3, <1>4, <1>5, <1>6 DEF SenderInv

\* Every step keeps the invariant: one case per action.
LEMMA NextSenderInv ==
  ASSUME ~Overlap, SenderInv, [Next]_vars
  PROVE  SenderInv'
<1> USE FreqAssumption, HandleAssumption, FlagAssumption, ~Overlap
    DEF SenderInv, TypeOK, Pcs, Exclusive, SenderState, NoSenderLost, Tuning,
        TunedInRange, CommandObeyed, InRange, Feeding, NoUseAfterDeinit,
        Live, Callers, Set, Victims, Active, Runs, At, globals, feed
<1>1. ASSUME NEW f \in Freqs, Ep2TxFreq(f) PROVE SenderInv'
  BY <1>1 DEF Ep2TxFreq, Requested, Alone
<1>2. CASE Ep6Start
  BY <1>2 DEF Ep6Start, Alone
<1>3. ASSUME NEW k \in Set, TestInit(k) PROVE SenderInv'
  <2>1. TypeOK' /\ Exclusive'
    BY <1>3 DEF TestInit
  <2>2. SenderState'
    BY <1>3 DEF TestInit
  <2>3. Tuning'
    BY <1>3 DEF TestInit
  <2>4. Feeding'
    BY <1>3 DEF TestInit
  <2> QED
    BY <2>1, <2>2, <2>3, <2>4
<1>4. ASSUME NEW k \in Set, Compare(k) PROVE SenderInv'
  BY <1>4 DEF Compare, Changed
<1>5. ASSUME NEW k \in Set, Range(k) PROVE SenderInv'
  BY <1>5 DEF Range, Accepted
<1>6. ASSUME NEW k \in Set, Arg(k) PROVE SenderInv'
  BY <1>6 DEF Arg
<1>7. ASSUME NEW k \in Set, InitSender(k) PROVE SenderInv'
  BY <1>7 DEF InitSender
<1>8. ASSUME NEW k \in Set, Mark(k) PROVE SenderInv'
  BY <1>8 DEF Mark, Marked
<1>9. ASSUME NEW k \in Set, Last(k) PROVE SenderInv'
  BY <1>9 DEF Last
<1>10. ASSUME NEW k \in Callers, Deinit(k) PROVE SenderInv'
  <2>1. TypeOK' /\ Exclusive'
    BY <1>10 DEF Deinit, After, Stopped
  <2>2. SenderState'
    <3>1. ASSUME iqsender = None PROVE SenderState'
      <4>1. /\ pc' = [pc EXCEPT ![k] = After(k)] /\ pc[k] = "deinit"
            /\ UNCHANGED <<iqsender, tuned, interrupted, tx_init>>
        BY <1>10, <3>1 DEF Deinit
      <4>2. Live = {} /\ ~tx_init
        BY <3>1
      <4>3. k = "sig"
        BY <1>10, <4>2 DEF Deinit
      <4>4. pc' = [pc EXCEPT ![k] = "exit"] /\ Live' = {} /\ ~tx_init'
        BY <4>1, <4>2, <4>3 DEF After
      <4> QED
        BY <4>1, <4>3, <4>4
    <3>2. ASSUME iqsender # None PROVE SenderState'
      <4>1. pc' = [pc EXCEPT ![k] = "sleep"] /\ pc[k] = "deinit" /\ ~tx_init'
        BY <1>10, <3>2 DEF Deinit, Stopped
      <4>2. UNCHANGED <<iqsender, tuned, interrupted>>
        BY <1>10 DEF Deinit
      <4> QED
        BY <4>1, <4>2
    <3> QED
      BY <3>1, <3>2
  <2>3. Tuning'
    BY <1>10 DEF Deinit, After, Stopped
  <2>4. Feeding'
    BY <1>10 DEF Deinit, After, Stopped
  <2> QED
    BY <2>1, <2>2, <2>3, <2>4
<1>11. ASSUME NEW k \in Callers, Free(k) PROVE SenderInv'
  BY <1>11 DEF Free, After, Freed
<1>12. CASE BeginBurst
  BY <1>12 DEF BeginBurst, Feedable
<1>13. CASE EndBurst
  BY <1>13 DEF EndBurst
<1>14. ASSUME NEW v \in Victims, Signal(v) PROVE SenderInv'
  BY <1>14 DEF Signal
<1>15. CASE Exit
  BY <1>15 DEF Exit
<1>16. CASE MainReturns
  BY <1>16 DEF MainReturns
<1>17. CASE UNCHANGED vars
  BY <1>17 DEF vars
<1> QED
  BY <1>1, <1>2, <1>3, <1>4, <1>5, <1>6, <1>7, <1>8, <1>9, <1>10, <1>11,
  <1>12, <1>13, <1>14, <1>15, <1>16, <1>17
  DEF Next, Call

\* Every step keeps the types, however the calls overlap.
LEMMA TypeStep == ASSUME TypeOK, [Next]_vars PROVE TypeOK'
<1> USE FreqAssumption, HandleAssumption, FlagAssumption
    DEF TypeOK, Pcs, Live, Callers, Set, Victims, Runs, At, globals, feed
<1>1. ASSUME NEW f \in Freqs, Ep2TxFreq(f) PROVE TypeOK'
  BY <1>1 DEF Ep2TxFreq, Requested, Alone
<1>2. CASE Ep6Start
  BY <1>2 DEF Ep6Start, Alone
<1>3. ASSUME NEW k \in Set, TestInit(k) PROVE TypeOK'
  BY <1>3 DEF TestInit
<1>4. ASSUME NEW k \in Set, Compare(k) PROVE TypeOK'
  BY <1>4 DEF Compare, Changed
<1>5. ASSUME NEW k \in Set, Range(k) PROVE TypeOK'
  BY <1>5 DEF Range, Accepted
<1>6. ASSUME NEW k \in Set, Arg(k) PROVE TypeOK'
  BY <1>6 DEF Arg
<1>7. ASSUME NEW k \in Set, InitSender(k) PROVE TypeOK'
  BY <1>7 DEF InitSender
<1>8. ASSUME NEW k \in Set, Mark(k) PROVE TypeOK'
  BY <1>8 DEF Mark, Marked
<1>9. ASSUME NEW k \in Set, Last(k) PROVE TypeOK'
  BY <1>9 DEF Last
<1>10. ASSUME NEW k \in Callers, Deinit(k) PROVE TypeOK'
  BY <1>10 DEF Deinit, After, Stopped
<1>11. ASSUME NEW k \in Callers, Free(k) PROVE TypeOK'
  BY <1>11 DEF Free, After, Freed
<1>12. CASE BeginBurst
  BY <1>12 DEF BeginBurst, Feedable
<1>13. CASE EndBurst
  BY <1>13 DEF EndBurst
<1>14. ASSUME NEW v \in Victims, Signal(v) PROVE TypeOK'
  BY <1>14 DEF Signal
<1>15. CASE Exit
  BY <1>15 DEF Exit
<1>16. CASE MainReturns
  BY <1>16 DEF MainReturns
<1>17. CASE UNCHANGED vars
  BY <1>17 DEF vars
<1> QED
  BY <1>1, <1>2, <1>3, <1>4, <1>5, <1>6, <1>7, <1>8, <1>9, <1>10, <1>11,
  <1>12, <1>13, <1>14, <1>15, <1>16, <1>17
  DEF Next, Call

\* Every variable keeps its type, however the calls overlap.
THEOREM TypeCorrect == Spec => []TypeOK
<1>1. Init => TypeOK
  BY InitSenderInv DEF SenderInv
<1>2. TypeOK /\ [Next]_vars => TypeOK'
  BY TypeStep
<1> QED
  BY <1>1, <1>2, PTL DEF Spec

\* One thread at a time inside the sender functions: the invariant always holds.
THEOREM SenderInvariance == ASSUME ~Overlap PROVE Spec => []SenderInv
<1>1. SenderInv /\ [Next]_vars => SenderInv'
  BY NextSenderInv, ~Overlap
<1> QED
  BY InitSenderInv, <1>1, PTL DEF Spec

\* Every running sender is the one tx_arg.iqsender names.
THEOREM SenderNeverLost == ASSUME ~Overlap PROVE Spec => []NoSenderLost
<1>1. SenderInv => NoSenderLost
  BY DEF SenderInv, SenderState
<1> QED
  BY SenderInvariance, ~Overlap, <1>1, PTL

\* The radio never transmits outside the limits of iqsender_set.
THEOREM AlwaysTunedInRange == ASSUME ~Overlap PROVE Spec => []TunedInRange
<1>1. SenderInv => TunedInRange
  BY DEF SenderInv, Tuning
<1> QED
  BY SenderInvariance, ~Overlap, <1>1, PTL

\* Between calls the sender runs at the last accepted frequency.
THEOREM CommandAlwaysObeyed == ASSUME ~Overlap PROVE Spec => []CommandObeyed
<1>1. SenderInv => CommandObeyed
  BY DEF SenderInv, Tuning
<1> QED
  BY SenderInvariance, ~Overlap, <1>1, PTL

\* When terminate exits, nothing transmits.
THEOREM AlwaysOffAtExit == ASSUME ~Overlap PROVE Spec => []OffAtExit
<1>1. SenderInv => OffAtExit
  BY DEF SenderInv, SenderState, OffAtExit
<1> QED
  BY SenderInvariance, ~Overlap, <1>1, PTL

\* If 50 ms are enough for a burst, the tx thread never feeds a freed sender.
THEOREM NeverUsedAfterDeinit ==
  ASSUME ~Overlap, GraceEnough PROVE Spec => []NoUseAfterDeinit
<1>1. SenderInv => NoUseAfterDeinit
  BY GraceEnough DEF SenderInv, Feeding
<1> QED
  BY SenderInvariance, ~Overlap, <1>1, PTL
=============================================================================
