---------------------------- MODULE RadioProofs ----------------------------
(***************************************************************************)
(* Proofs about SampleRing, for every length of a burst, of the ring and   *)
(* of a packet: the samples stay in order, they are taken from the payload *)
(* only, and where the latest clear has been nothing older is left.  Then  *)
(* proofs about Radio, for every number of ep6 threads: what is proved of  *)
(* the ring holds in the radio, and the handshake makes the ring behave as *)
(* StreamService promises.                                                 *)
(***************************************************************************)
EXTENDS Radio, TLAPS

\* The ring has at least one burst.  This is all the proofs need to know of
\* the product.
LEMMA SizeType == Size \in Nat \ {0}
<1>1. \A a, b \in Nat \ {0} : a * b \in Nat \ {0}
  OBVIOUS
<1> QED
  BY <1>1, RingAssumption DEF Size

LEMMA SamplesType == Samples \in Nat /\ Half \in Nat \ {0} /\ Samples = 2 * Half
  BY PacketAssumption DEF Samples

\* The pointer stays in the ring or on the cell behind it.
LEMMA WrapType == \A p \in Cells : Wrap(p + 1) \in Cells
  BY SizeType DEF Wrap, Cells

LEMMA ZeroIsAge == 0 \in Ages /\ Silence \in Ages /\ Junk \in Ages
  BY DEF Ages

LEMMA OlderType == \A v \in Ages : Older(v) \in Ages
  BY DEF Older, Ages

\* The program starts in a state that satisfies the invariant.
LEMMA InitIInv == Init => IInv
<1> SUFFICES ASSUME Init PROVE IInv
  OBVIOUS
<1>1. TypeOK
  <2>1. iq_buffer \in [Cells -> Ages]
    BY DEF Init, Ages
  <2>2. /\ tx_iq_ptr \in Cells /\ cleared \in [Threads -> 0 .. Size]
        /\ fresh \in 0 .. Size + 1
        /\ j \in 0 .. Samples /\ bp \in Nat
    BY SizeType, SamplesType DEF Init, Cells
  <2>3. /\ tx_block \in 0 .. TxLen - 1 /\ pos \in 0 .. Burst
    BY RingAssumption DEF Init
  <2>4. /\ played \in {0, Silence, Junk}
        /\ sending \in BOOLEAN /\ last \in Threads \cup {None}
    BY DEF Init
  <2> QED
    BY <2>1, <2>2, <2>3, <2>4 DEF TypeOK
<1>2. StreamOrder
  BY DEF Init, StreamOrder
<1>3. NothingOlder /\ Place
  BY SamplesType DEF Init, NothingOlder, Place
<1> QED
  BY <1>1, <1>2, <1>3 DEF IInv

-----------------------------------------------------------------------------
(* A stored sample.                                                        *)

\* All samples get one older and the pointer moves on by one, so that ages and
\* ways stay equal; the turn from the last cell to the first is one of them.
LEMMA StoreOrder ==
  ASSUME TypeOK, StreamOrder, Store PROVE StreamOrder'
<1> SUFFICES ASSUME NEW c \in Cells, iq_buffer'[c] \notin {Silence, Junk}
             PROVE  iq_buffer'[c] = IF c < tx_iq_ptr' THEN tx_iq_ptr' - 1 - c
                                                      ELSE tx_iq_ptr' + Size - c
  BY DEF StreamOrder
<1>1. Size \in Nat \ {0} /\ c \in 0 .. Size /\ tx_iq_ptr \in 0 .. Size
  BY SizeType DEF TypeOK, Cells
<1>2. tx_iq_ptr' = IF tx_iq_ptr + 1 > Size THEN 0 ELSE tx_iq_ptr + 1
  BY DEF Store, Wrap
<1>3. CASE c = tx_iq_ptr
  <2>1. iq_buffer'[c] = 0
    BY <1>3 DEF Store
  <2> QED
    BY <1>1, <1>2, <1>3, <2>1
<1>4. CASE c # tx_iq_ptr
  <2>1. iq_buffer'[c] = Older(iq_buffer[c])
    BY <1>4 DEF Store
  <2>2. iq_buffer[c] \notin {Silence, Junk}
    BY <2>1 DEF Older
  <2>3. iq_buffer[c] = IF c < tx_iq_ptr THEN tx_iq_ptr - 1 - c
                                        ELSE tx_iq_ptr + Size - c
    BY <2>2 DEF StreamOrder
  <2>4. iq_buffer'[c] = iq_buffer[c] + 1
    BY <2>1, <2>2 DEF Older
  <2> QED
    BY <1>1, <1>2, <1>4, <2>3, <2>4
<1> QED
  BY <1>3, <1>4

LEMMA StoreType == ASSUME TypeOK, Store PROVE TypeOK'
<1>1. iq_buffer' \in [Cells -> Ages]
  <2> DEFINE stored(c) == IF c = tx_iq_ptr THEN 0 ELSE Older(iq_buffer[c])
  <2>1. \A c \in Cells : iq_buffer[c] \in Ages
    BY DEF TypeOK
  <2>2. \A c \in Cells : stored(c) \in Ages
    BY <2>1, OlderType, ZeroIsAge
  <2>3. iq_buffer' = [c \in Cells |-> stored(c)]
    BY DEF Store
  <2> HIDE DEF stored
  <2> QED
    BY <2>2, <2>3
<1>2. tx_iq_ptr' \in Cells
  BY WrapType DEF TypeOK, Store
<1>3. j' \in 0 .. Samples /\ bp' \in Nat
  BY SamplesType DEF TypeOK, Store, Skip
<1>4. fresh' \in 0 .. Size + 1
  BY SizeType DEF TypeOK, Store
<1> QED
  BY <1>1, <1>2, <1>3, <1>4 DEF TypeOK, Store, txVars

\* Every age and the count of fresh samples grow by one, so that a sample that
\* was stored since the clear began stays younger than the count; where the
\* count stops at Size + 1, the order of the ring says that every sample is.
LEMMA StoreNothingOlder ==
  ASSUME TypeOK, StreamOrder, NothingOlder, Store PROVE NothingOlder'
<1> SUFFICES ASSUME NEW c \in Cells, last' # None, c < cleared'[last']
             PROVE  /\ iq_buffer'[c] # Junk
                    /\ iq_buffer'[c] # Silence => iq_buffer'[c] < fresh'
  BY DEF NothingOlder
<1>1. /\ Size \in Nat \ {0} /\ c \in 0 .. Size /\ tx_iq_ptr \in 0 .. Size
      /\ fresh \in 0 .. Size + 1
      /\ last' = last /\ cleared' = cleared
      /\ fresh' = IF fresh > Size THEN fresh ELSE fresh + 1
  BY SizeType DEF TypeOK, Cells, Store
<1>2. CASE c = tx_iq_ptr
  <2>1. iq_buffer'[c] = 0
    BY <1>2 DEF Store
  <2> QED
    BY <1>1, <2>1, CellAssumption
<1>3. CASE c # tx_iq_ptr
  <2>1. iq_buffer'[c] = Older(iq_buffer[c])
    BY <1>3 DEF Store
  <2>2. iq_buffer[c] # Junk /\ (iq_buffer[c] # Silence => iq_buffer[c] < fresh)
    BY <1>1 DEF NothingOlder
  <2>3. CASE iq_buffer[c] = Silence
    BY <2>1, <2>3, CellAssumption DEF Older
  <2>4. CASE iq_buffer[c] # Silence
    <3>1. iq_buffer[c] = IF c < tx_iq_ptr THEN tx_iq_ptr - 1 - c
                                          ELSE tx_iq_ptr + Size - c
      BY <2>2, <2>4 DEF StreamOrder
    <3>2. iq_buffer'[c] = iq_buffer[c] + 1
      BY <2>1, <2>2, <2>4 DEF Older
    <3>3. iq_buffer[c] \in Int /\ iq_buffer[c] < Size
      BY <1>1, <1>3, <3>1
    <3> QED
      BY <1>1, <2>2, <2>4, <3>2, <3>3, CellAssumption
  <2> QED
    BY <2>3, <2>4
<1> QED
  BY <1>2, <1>3

\* bp goes from the first block to the second after Half samples.
LEMMA StorePlace == ASSUME TypeOK, Place, Store PROVE Place'
  BY SamplesType DEF TypeOK, Place, Store, Skip

-----------------------------------------------------------------------------
\* Every step keeps the invariant.
LEMMA NextIInv == ASSUME IInv, [Next]_vars PROVE IInv'
<1>1. TypeOK /\ StreamOrder /\ NothingOlder /\ Place
  BY DEF IInv
<1>2. CASE Packet
  <2>1. TypeOK'
    <3>1. j' \in 0 .. Samples /\ bp' \in Nat
      BY <1>2, SamplesType DEF Packet
    <3> QED
      BY <1>1, <1>2, <3>1 DEF Packet, TypeOK, txVars, history
  <2>2. StreamOrder' /\ NothingOlder'
    BY <1>1, <1>2 DEF Packet, StreamOrder, NothingOlder, history
  <2>3. Place'
    BY <1>2, SamplesType DEF Packet, Place
  <2> QED
    BY <2>1, <2>2, <2>3 DEF IInv
<1>3. CASE Store
  BY <1>1, <1>3, StoreOrder, StoreType, StorePlace, StoreNothingOlder DEF IInv
<1>4. ASSUME NEW t \in Threads, ClearBegin(t) PROVE IInv'
  <2>1. TypeOK'
    <3>1. cleared' \in [Threads -> 0 .. Size]
      BY <1>1, <1>4, SizeType DEF ClearBegin, TypeOK
    <3>2. last' \in Threads \cup {None} /\ fresh' \in 0 .. Size + 1
      BY <1>4, SizeType DEF ClearBegin
    <3> QED
      BY <1>1, <1>4, <3>1, <3>2 DEF ClearBegin, TypeOK, rcvVars, txVars
  <2>2. StreamOrder' /\ Place'
    BY <1>1, <1>4 DEF ClearBegin, StreamOrder, Place, rcvVars
  <2>3. NothingOlder'
    <3>1. last' = t /\ cleared'[t] = 0
      BY <1>1, <1>4 DEF ClearBegin, TypeOK
    <3> QED
      BY <3>1, SizeType DEF NothingOlder, Cells
  <2> QED
    BY <2>1, <2>2, <2>3 DEF IInv
<1>5. ASSUME NEW t \in Threads, Clear(t) PROVE IInv'
  <2>1. /\ cleared[t] \in Cells /\ cleared[t] < Size
        /\ cleared' = [cleared EXCEPT ![t] = cleared[t] + 1]
    BY <1>1, <1>5, SizeType DEF Clear, TypeOK, Cells
  <2>2. iq_buffer' = [iq_buffer EXCEPT ![cleared[t]] = Silence]
    BY <1>5 DEF Clear, Cleared
  <2>3. TypeOK' /\ Place'
    <3>1. cleared' \in [Threads -> 0 .. Size]
      BY <1>1, <2>1, SizeType DEF TypeOK, Cells
    <3>2. iq_buffer' \in [Cells -> Ages]
      BY <1>1, <2>1, <2>2, ZeroIsAge DEF TypeOK
    <3> QED
      BY <1>1, <1>5, <3>1, <3>2 DEF Clear, TypeOK, Place, rcvVars, txVars, history
  <2>4. StreamOrder'
    BY <1>1, <1>5, <2>1, <2>2 DEF Clear, TypeOK, StreamOrder, rcvVars
  <2>5. NothingOlder'
    <3> SUFFICES ASSUME NEW c \in Cells, last' # None, c < cleared'[last']
                 PROVE  /\ iq_buffer'[c] # Junk
                        /\ iq_buffer'[c] # Silence => iq_buffer'[c] < fresh'
      BY DEF NothingOlder
    <3>1. last' = last /\ fresh' = fresh /\ last \in Threads
      BY <1>1, <1>5 DEF Clear, history, TypeOK
    <3>2. CASE c = cleared[t]
      <4>1. iq_buffer'[c] = Silence
        BY <1>1, <2>1, <2>2, <3>2 DEF TypeOK
      <4> QED
        BY <4>1, CellAssumption
    <3>3. CASE c # cleared[t]
      <4>1. c < cleared[last]
        BY <1>1, <2>1, <3>1, <3>3, SizeType DEF TypeOK, Cells
      <4>2. iq_buffer'[c] = iq_buffer[c]
        BY <1>1, <2>1, <2>2, <3>3 DEF TypeOK
      <4> QED
        BY <1>1, <3>1, <4>1, <4>2 DEF NothingOlder
    <3> QED
      BY <3>2, <3>3
  <2> QED
    BY <2>3, <2>4, <2>5 DEF IInv
<1>6. CASE Switch
  BY <1>1, <1>6 DEF Switch, IInv, TypeOK, StreamOrder, NothingOlder, Place,
                    rcvVars, txVars, history
<1>7. CASE TxBegin
  <2>1. TypeOK'
    BY <1>1, <1>7, RingAssumption DEF TxBegin, TypeOK, rcvVars, history
  <2> QED
    BY <1>1, <1>7, <2>1
    DEF TxBegin, IInv, StreamOrder, NothingOlder, Place, rcvVars, history
<1>8. CASE Play
  <2>1. tx_block' \in 0 .. TxLen - 1 /\ pos' \in 0 .. Burst
    BY <1>1, <1>8, RingAssumption DEF Play, TypeOK, NextTxBlock
  <2>2. played' \in {0, Silence, Junk}
    BY <1>8 DEF Play, Kind
  <2> QED
    BY <1>1, <1>8, <2>1, <2>2
    DEF Play, IInv, TypeOK, StreamOrder, NothingOlder, Place, rcvVars, history
<1>9. CASE UNCHANGED vars
  BY <1>1, <1>9
  DEF vars, IInv, TypeOK, StreamOrder, NothingOlder, Place, rcvVars, txVars,
      history
<1> QED
  BY <1>2, <1>3, <1>4, <1>5, <1>6, <1>7, <1>8, <1>9 DEF Next, Tx

\* The invariant holds in every reachable state.
THEOREM Invariance == Spec => []IInv
  BY InitIInv, NextIInv, PTL DEF Spec

\* Every variable keeps its type.
THEOREM TypeCorrect == Spec => []TypeOK
<1>1. IInv => TypeOK
  BY DEF IInv
<1> QED
  BY Invariance, <1>1, PTL

\* Samples are never out of order in the ring but at the pointer.
THEOREM AlwaysStreamOrder == Spec => []StreamOrder
<1>1. IInv => StreamOrder
  BY DEF IInv
<1> QED
  BY Invariance, <1>1, PTL

\* Samples are only taken from the two payloads of a packet.
THEOREM AlwaysInPayload == Spec => []InPayload
<1>1. IInv => InPayload
  BY SamplesType DEF IInv, TypeOK, Place, InPayload
<1> QED
  BY Invariance, <1>1, PTL

\* What was stored before a clear does not outlive it.
THEOREM AlwaysNothingOlder == Spec => []NothingOlder
<1>1. IInv => NothingOlder
  BY DEF IInv
<1> QED
  BY Invariance, <1>1, PTL

\* The tx thread never takes a sample from beyond the ring: what it reads
\* ends before Size, whatever the pointer of the network thread does.
THEOREM TxReadsInRing == Spec => [](pos < Burst => tx_block * Burst + pos < Size)
<1>1. ASSUME NEW b \in 0 .. TxLen - 1, NEW p \in 0 .. Burst - 1
      PROVE  b * Burst + p < TxLen * Burst
  <2>1. b + 1 <= TxLen /\ b \in Nat /\ TxLen \in Nat /\ Burst \in Nat
    BY RingAssumption
  <2>2. (b + 1) * Burst <= TxLen * Burst
    BY <2>1
  <2>3. (b + 1) * Burst = b * Burst + Burst
    BY <2>1
  <2> QED
    BY <2>1, <2>2, <2>3
<1>2. IInv => (pos < Burst => tx_block * Burst + pos < Size)
  BY <1>1, RingAssumption DEF IInv, TypeOK, Size
<1> QED
  BY Invariance, <1>2, PTL

-----------------------------------------------------------------------------
(* The radio uses the ring.                                                *)

\* Every step of the radio is a step of the ring or leaves it alone.
LEMMA RadioStepIsRingStep == ASSUME [RadioNext]_radioVars PROVE [Next]_vars
<1>1. CASE EP2
  BY <1>1 DEF EP2, Next
<1>2. CASE \/ Disable("stopwait") \/ Disable("startwait") \/ StopDone \/ StartArm
           \/ \E t \in Threads : Spawn(t)
  BY <1>2 DEF Disable, StopDone, StartArm, Spawn
<1>3. CASE StoreSample
  BY <1>3 DEF StoreSample, Next
<1>4. CASE \E t \in Threads : Handler(t)
  BY <1>4 DEF Handler, Break, Leave, ClearCell, Next
<1>5. CASE Transmit \/ SwitchSender
  BY <1>5 DEF Transmit, SwitchSender, Next
<1>6. CASE UNCHANGED radioVars
  BY <1>6 DEF radioVars
<1> QED
  BY <1>1, <1>2, <1>3, <1>4, <1>5, <1>6 DEF RadioNext, Network

\* The radio uses the ring as SampleRing says, so that every theorem about the
\* ring is one about the radio.
THEOREM RadioUsesRing == RadioSpec => Spec
<1>1. RadioInit => Init
  BY DEF RadioInit
<1> QED
  BY <1>1, RadioStepIsRingStep, PTL DEF RadioSpec, Spec

\* In particular samples are never out of order, over any number of sessions.
THEOREM RadioStreamOrder == RadioSpec => []StreamOrder
  BY RadioUsesRing, AlwaysStreamOrder, PTL

-----------------------------------------------------------------------------
(* The handshake.                                                          *)

\* The types, and what the flags mean to the threads.
Flags ==
    /\ netpc \in {"recv", "store", "stopwait", "startwait", "spawn"}
    /\ ep6 \in [Threads -> {"none", "loop", "leave", "clear"}]
    /\ enable_thread \in {0, 1} /\ active_thread \in {0, 1}
    /\ Handshake

LEMMA InitFlags == RadioInit => Flags /\ NothingFresh
  BY DEF RadioInit, Init, Flags, Handshake, Streams, NothingFresh

\* The steps of the network thread keep the meaning of the flags.
LEMMA NetworkFlags ==
  ASSUME Flags, \/ EP2 \/ Disable("stopwait") \/ Disable("startwait") \/ Network
  PROVE  Flags'
<1>1. CASE EP2
  BY <1>1 DEF EP2, Flags, Handshake, Streams, MayStore, flags
<1>2. CASE Disable("stopwait") \/ Disable("startwait")
  BY <1>2 DEF Disable, Flags, Handshake, Streams
<1>3. CASE StoreSample
  BY <1>3 DEF StoreSample, Flags, Handshake, Streams, flags
<1>4. CASE StopDone
  BY <1>4 DEF StopDone, Ended, Flags, Handshake, Streams, flags
<1>5. CASE StartArm
  BY <1>5 DEF StartArm, Ended, Flags, Handshake, Streams
<1>6. ASSUME NEW t \in Threads, Spawn(t) PROVE Flags'
  <2>1. /\ netpc = "spawn" /\ netpc' = "recv"
        /\ ep6' = [ep6 EXCEPT ![t] = "loop"]
        /\ enable_thread' = enable_thread /\ active_thread' = active_thread
    BY <1>6 DEF Spawn, flags
  <2>2. enable_thread = 1 /\ active_thread = 1 /\ \A u \in Threads : ~Streams(u)
    BY <2>1 DEF Flags, Handshake
  <2>3. \A u \in Threads : ep6'[u] = IF u = t THEN "loop" ELSE ep6[u]
    BY <2>1 DEF Flags
  <2>4. Handshake'
    BY <2>1, <2>2, <2>3 DEF Flags, Handshake, Streams
  <2> QED
    BY <2>1, <2>4 DEF Flags
<1> QED
  BY <1>1, <1>2, <1>3, <1>4, <1>5, <1>6 DEF Network

\* So do those of an ep6 thread: it clears active_thread only as the one that
\* streams, after enable_thread was cleared.
LEMMA HandlerFlags ==
  ASSUME Flags, NEW t \in Threads, Handler(t) PROVE Flags'
<1>1. CASE Break(t)
  <2>1. /\ ep6[t] = "loop" /\ enable_thread = 0 /\ netpc' = netpc
        /\ ep6' = [ep6 EXCEPT ![t] = "leave"]
        /\ enable_thread' = enable_thread /\ active_thread' = active_thread
    BY <1>1 DEF Break, flags
  <2>2. \A u \in Threads : ep6'[u] = IF u = t THEN "leave" ELSE ep6[u]
    BY <2>1 DEF Flags
  <2> QED
    BY <2>1, <2>2 DEF Flags, Handshake, Streams
<1>2. CASE Leave(t)
  <2>1. /\ ep6[t] = "leave" /\ netpc' = netpc
        /\ ep6' = [ep6 EXCEPT ![t] = "clear"]
        /\ enable_thread' = enable_thread /\ active_thread' = 0
    BY <1>2 DEF Leave
  <2>2. \A u \in Threads : ep6'[u] = IF u = t THEN "clear" ELSE ep6[u]
    BY <2>1 DEF Flags
  <2>3. \A u \in Threads : Streams(u) => u = t
    BY <2>1 DEF Flags, Handshake, Streams
  <2>4. netpc \in {"stopwait", "startwait"}
    BY <2>1 DEF Flags, Handshake, Streams
  <2> QED
    BY <2>1, <2>2, <2>3, <2>4 DEF Flags, Handshake, Streams
<1>3. CASE ClearCell(t)
  <2>1. /\ ep6[t] = "clear" /\ netpc' = netpc
        /\ ep6' = [ep6 EXCEPT ![t] = IF cleared'[t] = Size THEN "none" ELSE "clear"]
        /\ enable_thread' = enable_thread /\ active_thread' = active_thread
    BY <1>3 DEF ClearCell, flags
  <2>2. \A u \in Threads : \/ ep6'[u] = ep6[u]
                           \/ u = t /\ ep6'[u] \in {"none", "clear"}
    BY <2>1 DEF Flags
  <2>3. ep6' \in [Threads -> {"none", "loop", "leave", "clear"}]
    BY <2>1 DEF Flags
  <2> QED
    BY <2>1, <2>2, <2>3 DEF Flags, Handshake, Streams
<1> QED
  BY <1>1, <1>2, <1>3 DEF Handler

LEMMA NextFlags == ASSUME Flags, [RadioNext]_radioVars PROVE Flags'
<1>1. CASE Transmit \/ SwitchSender \/ UNCHANGED radioVars
  BY <1>1 DEF Transmit, SwitchSender, radioVars, handshake, flags, Flags,
              Handshake, Streams
<1> QED
  BY <1>1, NetworkFlags, HandlerFlags DEF RadioNext

-----------------------------------------------------------------------------
(* The ring between two sessions.                                          *)

\* Samples are stored only while active_thread is set, and the clear that
\* begins when it is cleared starts the count anew.
LEMMA NextNothingFresh ==
  ASSUME Flags, NothingFresh, [RadioNext]_radioVars PROVE NothingFresh'
<1>1. CASE EP2
  BY <1>1 DEF EP2, Packet, flags, history, NothingFresh
<1>2. CASE \/ Disable("stopwait") \/ Disable("startwait") \/ StopDone
           \/ \E t \in Threads : Spawn(t)
  BY <1>2 DEF Disable, StopDone, Spawn, flags, vars, history, NothingFresh
<1>3. CASE StartArm
  BY <1>3 DEF StartArm, NothingFresh
<1>4. CASE StoreSample
  BY <1>4 DEF StoreSample, flags, Flags, Handshake, NothingFresh
<1>5. ASSUME NEW t \in Threads, Handler(t) PROVE NothingFresh'
  BY <1>5 DEF Handler, Break, Leave, ClearCell, ClearBegin, Clear, flags, vars,
              history, NothingFresh
<1>6. CASE Transmit
  BY <1>6 DEF Transmit, Tx, TxBegin, Play, handshake, flags, history, NothingFresh
<1>7. CASE SwitchSender \/ UNCHANGED radioVars
  BY <1>7 DEF SwitchSender, Switch, radioVars, vars, handshake, flags, history,
              NothingFresh
<1> QED
  BY <1>1, <1>2, <1>3, <1>4, <1>5, <1>6, <1>7 DEF RadioNext, Network

\* The invariant of the radio holds in every reachable state.
THEOREM RadioInvariance == RadioSpec => []RadioInv
<1>1. RadioInit => IInv /\ Flags /\ NothingFresh
  BY InitIInv, InitFlags DEF RadioInit
<1>2. IInv /\ Flags /\ NothingFresh /\ [RadioNext]_radioVars
          => (IInv /\ Flags /\ NothingFresh)'
  BY RadioStepIsRingStep, NextIInv, NextFlags, NextNothingFresh
<1>3. IInv /\ Flags /\ NothingFresh => RadioInv
  BY DEF IInv, Flags, RadioInv, RadioTypeOK
<1> QED
  BY <1>1, <1>2, <1>3, PTL DEF RadioSpec

\* Every variable of the radio keeps its type.
THEOREM RadioTypeCorrect == RadioSpec => []RadioTypeOK
<1>1. RadioInv => RadioTypeOK
  BY DEF RadioInv
<1> QED
  BY <1>1, RadioInvariance, PTL

\* Between two sessions, after the clear of the last one, the ring is silent:
\* no sample is younger than none.
THEOREM AlwaysSilentWhenStopped == RadioSpec => []SilentWhenStopped
<1>1. RadioInv => SilentWhenStopped
  <2> SUFFICES ASSUME RadioInv, active_thread = 0, last # None,
                      cleared[last] = Size, NEW c \in Cells, c < Size
               PROVE  iq_buffer[c] = Silence
    BY DEF SilentWhenStopped
  <2>1. TypeOK /\ StreamOrder /\ NothingOlder /\ fresh = 0
    BY DEF RadioInv, RadioTypeOK, NothingFresh
  <2>2. iq_buffer[c] # Junk /\ (iq_buffer[c] # Silence => iq_buffer[c] < 0)
    BY <2>1 DEF NothingOlder
  <2>3. ASSUME iq_buffer[c] # Silence PROVE FALSE
    <3>1. iq_buffer[c] = IF c < tx_iq_ptr THEN tx_iq_ptr - 1 - c
                                          ELSE tx_iq_ptr + Size - c
      BY <2>1, <2>2, <2>3 DEF StreamOrder
    <3>2. c \in 0 .. Size /\ tx_iq_ptr \in 0 .. Size /\ Size \in Nat
      BY <2>1, SizeType DEF TypeOK, Cells
    <3>3. iq_buffer[c] >= 0
      BY <3>1, <3>2
    <3>4. iq_buffer[c] \in Int
      BY <3>1, <3>2
    <3> QED
      BY <2>2, <2>3, <3>3, <3>4
  <2> QED
    BY <2>3
<1> QED
  BY RadioInvariance, <1>1, PTL

-----------------------------------------------------------------------------
(* The radio implements StreamService.                                     *)

Sounding == \E c \in Cells : c < Size /\ iq_buffer[c] # Silence

LEMMA RingServiceStep ==
  ASSUME RadioInv, [RadioNext]_radioVars
  PROVE  [RingService!Next]_(RingService!vars)
<1> USE DEF RingService!Next, RingService!vars
<1>1. CASE EP2
  BY <1>1 DEF EP2, Packet, flags
<1>2. CASE \/ Disable("stopwait") \/ Disable("startwait") \/ StopDone
           \/ \E t \in Threads : Spawn(t)
  BY <1>2 DEF Disable, StopDone, Spawn, flags, vars
<1>3. CASE StartArm
  <2>1. active_thread = 0 /\ active_thread' = 1 /\ iq_buffer' = iq_buffer
    BY <1>3 DEF StartArm, Ended, vars
  <2>2. RingService!Begin(1)
    BY <2>1 DEF RingService!Begin
  <2> QED
    BY <2>2
<1>4. CASE StoreSample
  <2>1. active_thread = 1 /\ active_thread' = active_thread
    BY <1>4 DEF StoreSample, flags, RadioInv, Handshake
  <2>2. CASE Sounding'
    BY <2>1, <2>2 DEF RingService!Fill, Sounding
  <2>3. CASE ~Sounding'
    BY <2>1, <2>3 DEF RingService!Drain, Sounding
  <2> QED
    BY <2>2, <2>3
<1>5. ASSUME NEW t \in Threads, Handler(t)
      PROVE  [RingService!Next]_(RingService!vars)
  <2>1. CASE Break(t)
    BY <2>1 DEF Break, flags, vars
  <2>2. CASE Leave(t)
    <3>1. active_thread = 1 /\ active_thread' = 0 /\ iq_buffer' = iq_buffer
      BY <2>2 DEF Leave, ClearBegin, RadioInv, Handshake, Streams
    <3>2. RingService!End
      BY <3>1 DEF RingService!End
    <3> QED
      BY <3>2
  <2>3. CASE ClearCell(t)
    <3>1. /\ active_thread' = active_thread
          /\ iq_buffer' = [iq_buffer EXCEPT ![cleared[t]] = Silence]
          /\ iq_buffer \in [Cells -> Ages]
      BY <2>3 DEF ClearCell, Clear, Cleared, flags, RadioInv, RadioTypeOK, TypeOK
    <3>2. Sounding' => Sounding
      BY <3>1 DEF Sounding
    <3>3. CASE Sounding'
      BY <3>1, <3>2, <3>3 DEF Sounding
    <3>4. CASE ~Sounding'
      BY <3>1, <3>4 DEF RingService!Drain, Sounding
    <3> QED
      BY <3>3, <3>4
  <2> QED
    BY <1>5, <2>1, <2>2, <2>3 DEF Handler
<1>6. CASE Transmit \/ SwitchSender \/ UNCHANGED radioVars
  BY <1>6 DEF Transmit, Tx, TxBegin, Play, SwitchSender, Switch, radioVars,
              vars, handshake, flags
<1> QED
  BY <1>1, <1>2, <1>3, <1>4, <1>5, <1>6 DEF RadioNext, Network

\* Samples are in the ring's played part only from the START of a session on,
\* and sessions follow one another, as StreamService says.
THEOREM RadioRefinement == RadioSpec => RingServiceSpec
<1>1. RadioInit => RingService!Init
  BY DEF RadioInit, RingService!Init
<1> QED
  BY <1>1, RadioInvariance, RingServiceStep, PTL
  DEF RadioSpec, RingServiceSpec, RingService!Spec
=============================================================================
