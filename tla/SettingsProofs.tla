--------------------------- MODULE SettingsProofs ---------------------------
(***************************************************************************)
(* Proofs about Settings, for every set of frames.                         *)
(***************************************************************************)
EXTENDS Settings, TLAPS

-----------------------------------------------------------------------------
(* The registers.  No two of an address have the same name, and none is    *)
(* set by frames of two addresses: Owner says which.                       *)

Owner(r) ==
    CASE r \in {"rate", "ref10", "src122", "PMconfig", "MicSrc", "TX_class_E",
                "OpenCollectorOutputs", "AlexAtt", "preamp", "LTdither",
                "LTrandom", "alexRXant", "alexRXout", "AlexTXrel", "duplex",
                "MicTS", "CommonMercuryFreq", "receivers"} -> 0
    [] r \in {"txdrive", "hermes_config", "alex_manual", "vna", "alex_hpf",
              "alex_bypass", "lna6m", "alexTRdisable", "alex_lpf"} -> 18
    [] r \in {"rx_preamp0", "rx_preamp1", "rx_preamp2", "rx_preamp3",
              "tip_ring", "MicBias", "MicPTT", "LineGain", "MerTxATT0",
              "PureSignal", "PeneSel", "MetisDB9", "MerTxATT1", "rx_att0",
              "rx1_attE"} -> 20
    [] r \in {"rx_att1", "cw_reversed", "cw_speed", "cw_mode", "cw_weight",
              "cw_spacing"} -> 22
    [] r = "c25_ext_board_i2c_data" -> 24
    [] r \in {"rx_adc0", "rx_adc1", "rx_adc2", "rx_adc3", "rx_adc4",
              "rx_adc5", "rx_adc6", "txatt"} -> 28
    [] r \in {"cw_internal", "sidetone_volume", "cw_delay"} -> 30
    [] r \in {"cw_hang", "freq"} -> 32
    [] r = "tx_freq" -> 2
    [] r = "rx_freq0" -> 4 [] r = "rx_freq1" -> 6 [] r = "rx_freq2" -> 8
    [] r = "rx_freq3" -> 10 [] r = "rx_freq4" -> 12 [] r = "rx_freq5" -> 14
    [] r = "rx_freq6" -> 16
    [] OTHER -> -1

\* The addresses whose frames set bits of single bytes.
FieldAddresses == {0, 18, 20, 22, 28, 30}

\* Only these addresses have fields.
LEMMA NoFields == ASSUME NEW a, a \notin FieldAddresses PROVE Fields(a) = {}
BY DEF Fields, FieldAddresses

\* The registers of an address are its own.
LEMMA FieldOwner ==
  ASSUME NEW a, NEW x \in Fields(a) PROVE Owner(x[1]) = a
<1>1. CASE a = 0
  BY <1>1 DEF Fields, Owner
<1>2. CASE a = 18
  BY <1>2 DEF Fields, Owner
<1>3. CASE a = 20
  BY <1>3 DEF Fields, Owner
<1>4. CASE a = 22
  BY <1>4 DEF Fields, Owner
<1>5. CASE a = 28
  BY <1>5 DEF Fields, Owner
<1>6. CASE a = 30
  BY <1>6 DEF Fields, Owner
<1> QED
  BY <1>1, <1>2, <1>3, <1>4, <1>5, <1>6, NoFields DEF FieldAddresses

\* A register is one field.
LEMMA FieldUnique ==
  ASSUME NEW a, NEW x \in Fields(a), NEW y \in Fields(a), x[1] = y[1]
  PROVE  x = y
<1>1. CASE a = 0
  BY <1>1 DEF Fields
<1>2. CASE a = 18
  BY <1>2 DEF Fields
<1>3. CASE a = 20
  BY <1>3 DEF Fields
<1>4. CASE a = 22
  BY <1>4 DEF Fields
<1>5. CASE a = 28
  BY <1>5 DEF Fields
<1>6. CASE a = 30
  BY <1>6 DEF Fields
<1> QED
  BY <1>1, <1>2, <1>3, <1>4, <1>5, <1>6, NoFields DEF FieldAddresses

\* A field is some bits of one of the bytes 1 to 4 of a frame.
LEMMA FieldType ==
  ASSUME NEW a, NEW x \in Fields(a)
  PROVE  x[2] \in 1 .. 4 /\ x[3] \in 0 .. 7 /\ x[4] \in 1 .. 8
<1>1. CASE a = 0
  BY <1>1 DEF Fields
<1>2. CASE a = 18
  BY <1>2 DEF Fields
<1>3. CASE a = 20
  BY <1>3 DEF Fields
<1>4. CASE a = 22
  BY <1>4 DEF Fields
<1>5. CASE a = 28
  BY <1>5 DEF Fields
<1>6. CASE a = 30
  BY <1>6 DEF Fields
<1> QED
  BY <1>1, <1>2, <1>3, <1>4, <1>5, <1>6, NoFields DEF FieldAddresses

-----------------------------------------------------------------------------
(* Values.                                                                 *)

\* A frame: an even address, and its bytes.
LEMMA FrameType ==
  ASSUME NEW f \in Frames
  PROVE  /\ \A i \in 0 .. 4 : f[i] \in 0 .. 255
         /\ Group(f) \in Int /\ Group(f) # -1
         /\ f # NoFrame
<1>1. f \in [0 .. 4 -> 0 .. 255]
  BY FramesAssumption
<1>2. f[0] \in 0 .. 255
  BY <1>1
<1>3. NoFrame[0] = -1
  BY DEF NoFrame
<1> QED
  BY <1>1, <1>2, <1>3 DEF Group

\* The powers of two that masks and shifts of a byte need.
LEMMA Powers == ASSUME NEW k \in 0 .. 8 PROVE 2^k \in 1 .. 256
<1>1. /\ 2^0 = 1 /\ 2^1 = 2 /\ 2^2 = 4 /\ 2^3 = 8 /\ 2^4 = 16 /\ 2^5 = 32
      /\ 2^6 = 64 /\ 2^7 = 128 /\ 2^8 = 256
  OBVIOUS
<1>2. /\ (k = 0 => 2^k = 2^0) /\ (k = 1 => 2^k = 2^1) /\ (k = 2 => 2^k = 2^2)
      /\ (k = 3 => 2^k = 2^3) /\ (k = 4 => 2^k = 2^4) /\ (k = 5 => 2^k = 2^5)
      /\ (k = 6 => 2^k = 2^6) /\ (k = 7 => 2^k = 2^7) /\ (k = 8 => 2^k = 2^8)
  BY Zenon
<1> DEFINE P == 2^k
<1>3. /\ (k = 0 => P = 1) /\ (k = 1 => P = 2) /\ (k = 2 => P = 4)
      /\ (k = 3 => P = 8) /\ (k = 4 => P = 16) /\ (k = 5 => P = 32)
      /\ (k = 6 => P = 64) /\ (k = 7 => P = 128) /\ (k = 8 => P = 256)
  BY <1>1, <1>2, Zenon
<1> HIDE DEF P
<1>4. P \in 1 .. 256
  BY <1>3
<1> QED
  BY <1>4 DEF P

\* Some bits of a byte make a number of at most as many bits.
LEMMA BitsType ==
  ASSUME NEW b \in 0 .. 255, NEW lo \in 0 .. 7, NEW len \in 1 .. 8
  PROVE  Bits(b, lo, len) \in 0 .. 255
<1>1. ASSUME NEW p \in 1 .. 256 PROVE b \div p \in Nat
  OBVIOUS
<1>2. ASSUME NEW v \in Nat, NEW q \in 1 .. 256 PROVE v % q \in 0 .. 255
  OBVIOUS
<1>3. lo \in 0 .. 8 /\ len \in 0 .. 8
  OBVIOUS
<1>4. 2^lo \in 1 .. 256 /\ 2^len \in 1 .. 256
  BY <1>3, Powers, Zenon
<1> QED
  BY <1>1, <1>2, <1>4 DEF Bits

\* The values of a frame's fields.
LEMMA FieldValue ==
  ASSUME NEW f \in Frames, NEW a, NEW x \in Fields(a)
  PROVE  Bits(f[x[2]], x[3], x[4]) \in 0 .. 255
<1>1. x[2] \in 0 .. 4 /\ x[3] \in 0 .. 7 /\ x[4] \in 1 .. 8
  BY FieldType
<1>2. f[x[2]] \in 0 .. 255
  BY <1>1, FrameType
<1> QED
  BY <1>1, <1>2, BitsType

\* The transmitter's attenuation has five bits.
LEMMA AttBits == ASSUME NEW b \in 0 .. 255 PROVE Bits(b, 0, 5) \in 0 .. 31
BY DEF Bits

\* The frequencies, one for each even address from 2 to 16.
LEMMA FrequencyTable ==
  /\ DOMAIN Frequencies = {2, 4, 6, 8, 10, 12, 14, 16}
  /\ Frequencies[2] = "tx_freq"   /\ Frequencies[4] = "rx_freq0"
  /\ Frequencies[6] = "rx_freq1"  /\ Frequencies[8] = "rx_freq2"
  /\ Frequencies[10] = "rx_freq3" /\ Frequencies[12] = "rx_freq4"
  /\ Frequencies[14] = "rx_freq5" /\ Frequencies[16] = "rx_freq6"
<1>1. DOMAIN Frequencies = {2 * i : i \in 1 .. 8}
  BY DEF Frequencies
<1> QED
  BY <1>1 DEF Frequencies

\* The registers that are composed belong to the address of the frame as well.
LEMMA ComposedOwner ==
  ASSUME NEW f \in Frames, NEW r \in DOMAIN Composed(f)
  PROVE  Owner(r) = Group(f)
<1> DEFINE a == Group(f)
<1>1. Address(f) = a
  BY DEF Address
<1>2. CASE a = 0
  <2>1. DOMAIN Composed(f) = {"receivers"}
    BY <1>1, <1>2, FrequencyTable DEF Composed
  <2> QED
    BY <1>2, <2>1 DEF Owner
<1>3. CASE a \in DOMAIN Frequencies
  <2>1. DOMAIN Composed(f) = {Frequencies[a]}
    BY <1>1, <1>3 DEF Composed, Frequencies
  <2>2. a \in {2, 4, 6, 8, 10, 12, 14, 16}
    BY <1>3 DEF Frequencies
  <2>3. \A at \in {2, 4, 6, 8, 10, 12, 14, 16} : Owner(Frequencies[at]) = at
    BY FrequencyTable DEF Owner
  <2> QED
    BY <2>1, <2>2, <2>3
<1>4. CASE a = 20
  BY <1>1, <1>4 DEF Composed, Owner, Rx1, Frequencies
<1>5. CASE a = 24
  BY <1>1, <1>5 DEF Composed, Owner, Frequencies
<1>6. CASE a = 32
  BY <1>1, <1>6 DEF Composed, Owner, Frequencies
<1>7. CASE a \notin {0, 20, 24, 32} \cup DOMAIN Frequencies
  BY <1>1, <1>7 DEF Composed
<1> QED
  BY <1>2, <1>3, <1>4, <1>5, <1>6, <1>7

\* The int of four bytes, the mask of the shifted attenuator and the tone are
\* numbers, and the last two are small.
LEMMA ComposedValue ==
  ASSUME NEW f \in Frames
  PROVE  /\ Word(f) \in Int
         /\ Rx1Att(f) \in 0 .. 31
         /\ SidetoneFreq(f) \in Int
         /\ 0 <= SidetoneFreq(f) /\ SidetoneFreq(f) <= 4095
<1>1. /\ f[0] \in 0 .. 255 /\ f[1] \in 0 .. 255 /\ f[2] \in 0 .. 255
      /\ f[3] \in 0 .. 255 /\ f[4] \in 0 .. 255
  BY FrameType
<1>2. Word(f) \in Int
  <2>1. 2^24 \in Int /\ 2^16 \in Int /\ 2^8 \in Int
    OBVIOUS
  <2> DEFINE top == IF f[1] < 128 THEN f[1] ELSE f[1] - 256
  <2>2. top \in Int /\ f[2] \in Int /\ f[3] \in Int /\ f[4] \in Int
    BY <1>1
  <2>3. ASSUME NEW a \in Int, NEW b \in Int, NEW c \in Int, NEW p \in Int,
               NEW q \in Int, NEW r \in Int
        PROVE  a * p + b * q + c * r + f[4] \in Int
    BY <2>2
  <2>4. top * 2^24 + f[2] * 2^16 + f[3] * 2^8 + f[4] \in Int
    <3> HIDE DEF top
    <3> QED BY <2>1, <2>2, <2>3, Zenon
  <2> QED
    BY <2>4, Zenon DEF Word
<1>3. Rx1Att(f) \in 0 .. 31
  <2>1. 2^15 \in Nat \ {0} /\ Bits(f[4], 0, 5) \in 0 .. 31
    BY <1>1, AttBits
  <2> QED
    BY <2>1 DEF Rx1Att
<1>4. /\ SidetoneFreq(f) \in Int
      /\ 0 <= SidetoneFreq(f) /\ SidetoneFreq(f) <= 4095
  <2> DEFINE hi == f[4] \div 16
             lo == f[3] % 16
             Or == [i \in 0 .. 3 |-> IF Bits(hi, i, 1) + Bits(lo, i, 1) > 0
                                     THEN 2^i ELSE 0]
  <2>1. /\ Or[0] \in 0 .. 1 /\ Or[1] \in {0, 2} /\ Or[2] \in {0, 4}
        /\ Or[3] \in {0, 8}
    <3> HIDE DEF hi, lo
    <3> QED OBVIOUS
  <2> DEFINE high == f[3] \div 16
             middle == Or[0] + Or[1] + Or[2] + Or[3]
             low == f[4] % 16
  <2>2. SidetoneFreq(f) = high * 256 + middle * 16 + low
    BY DEF SidetoneFreq
  <2>3. high \in 0 .. 15 /\ low \in 0 .. 15
    BY <1>1
  <2>4. middle \in 0 .. 15
    <3> HIDE DEF Or
    <3> QED BY <2>1
  <2> HIDE DEF high, middle, low
  <2> QED
    BY <2>2, <2>3, <2>4
<1> QED
  BY <1>2, <1>3, <1>4

\* Numbers that registers hold: bytes, two bytes, and what fits into them.
LEMMA ValueIs ==
  ASSUME NEW v \in Int, -26 <= v, v <= 65535
  PROVE  v \in Values
<1>1. TwoBytes \in Int /\ v <= TwoBytes
  BY DEF TwoBytes
<1> QED
  BY <1>1 DEF Values

LEMMA ByteValue == ASSUME NEW v \in 0 .. 255 PROVE v \in Values /\ v + 1 \in Values
BY ValueIs

LEMMA WordValue ==
  ASSUME NEW b \in 0 .. 255, NEW c \in 0 .. 255 PROVE b * 256 + c \in Values
BY ValueIs

LEMMA HangValue ==
  ASSUME NEW b \in 0 .. 255, NEW c \in 0 .. 255 PROVE b * 4 + (c % 4) \in Values
<1>1. c % 4 \in 0 .. 3
  OBVIOUS
<1>2. ASSUME NEW d \in 0 .. 3 PROVE b * 4 + d \in Values
  BY ValueIs
<1> QED
  BY <1>1, <1>2

LEMMA ToneValue ==
  ASSUME NEW v \in Int, 0 <= v, v <= 4095 PROVE v \in Values
BY ValueIs

LEMMA AttValue == ASSUME NEW v \in 0 .. 63 PROVE 37 - v \in Values
BY ValueIs

LEMMA ValueInt == ASSUME NEW v \in Values PROVE v \in Int
BY DEF Values

\* The registers that are composed are registers.
LEMMA ComposedName ==
  /\ FrequencyNames \subseteq Names
  /\ {"receivers", "rx_att0", "rx1_attE", "c25_ext_board_i2c_data", "cw_hang",
      "freq", "ptt"} \subseteq Names
BY DEF Names

\* The registers that are composed have numbers as values; all but the
\* frequencies are small.
LEMMA ComposedType ==
  ASSUME NEW f \in Frames, NEW r \in DOMAIN Composed(f)
  PROVE  /\ Composed(f)[r] \in Int
         /\ r \in FrequencyNames \/ Composed(f)[r] \in Values
         /\ r \in Names
<1> DEFINE a == Group(f)
<1>1. Address(f) = a
  BY DEF Address
<1>2. /\ f[0] \in 0 .. 255 /\ f[1] \in 0 .. 255 /\ f[2] \in 0 .. 255
      /\ f[3] \in 0 .. 255 /\ f[4] \in 0 .. 255
  BY FrameType
<1>3. CASE a = 0
  <2>1. /\ DOMAIN Composed(f) = {"receivers"}
        /\ Composed(f)["receivers"] = Bits(f[4], 3, 3) + 1
    BY <1>1, <1>3, FrequencyTable DEF Composed
  <2>2. Bits(f[4], 3, 3) \in 0 .. 255
    <3>1. 3 \in 0 .. 7 /\ 3 \in 1 .. 8
      OBVIOUS
    <3> QED
      BY <1>2, <3>1, BitsType, Zenon
  <2>3. Bits(f[4], 3, 3) + 1 \in Values
    BY <2>2, ByteValue, Zenon
  <2> QED
    BY <2>1, <2>3, ValueInt, ComposedName
<1>4. CASE a \in DOMAIN Frequencies
  <2>1. /\ DOMAIN Composed(f) = {Frequencies[a]}
        /\ Composed(f)[Frequencies[a]] = Word(f)
    BY <1>1, <1>4, FrequencyTable DEF Composed
  <2>2. Frequencies[a] \in FrequencyNames
    BY <1>4 DEF FrequencyNames
  <2> QED
    BY <2>1, <2>2, ComposedValue, ComposedName
<1>5. CASE a = 20
  <2>1. Composed(f) = Rx1(f)
    BY <1>1, <1>5, FrequencyTable DEF Composed
  <2>2. Bits(f[4], 0, 6) \in 0 .. 63
    BY <1>2 DEF Bits
  <2>3. Bits(f[4], 5, 1) \in 0 .. 255
    <3>1. 5 \in 0 .. 7 /\ 1 \in 1 .. 8
      OBVIOUS
    <3> QED
      BY <1>2, <3>1, BitsType, Zenon
  <2>4. Rx1Att(f) \in 0 .. 255
    BY ComposedValue
  <2>5. /\ 37 - Bits(f[4], 0, 6) \in Values /\ Bits(f[4], 5, 1) \in Values
        /\ Rx1Att(f) \in Values
    BY <2>2, <2>3, <2>4, AttValue, ByteValue, Zenon
  <2>6. \A n \in DOMAIN Rx1(f) : n \in {"rx_att0", "rx1_attE"} /\ Rx1(f)[n] \in Values
    BY <2>5 DEF Rx1
  <2> QED
    BY <2>1, <2>6, ValueInt, ComposedName
<1>6. CASE a = 24
  <2>1. /\ DOMAIN Composed(f) = {"c25_ext_board_i2c_data"}
        /\ Composed(f)["c25_ext_board_i2c_data"] = f[2] * 256 + f[1]
    BY <1>1, <1>6, FrequencyTable DEF Composed
  <2>2. f[2] * 256 + f[1] \in Values
    BY <1>2, WordValue, Zenon
  <2> QED
    BY <2>1, <2>2, ValueInt, ComposedName
<1>7. CASE a = 32
  <2>1. /\ DOMAIN Composed(f) = {"cw_hang", "freq"}
        /\ Composed(f)["cw_hang"] = f[1] * 4 + (f[2] % 4)
        /\ Composed(f)["freq"] = SidetoneFreq(f)
    BY <1>1, <1>7, FrequencyTable DEF Composed
  <2>2. f[1] * 4 + (f[2] % 4) \in Values
    BY <1>2, HangValue, Zenon
  <2>3. SidetoneFreq(f) \in Values
    BY ComposedValue, ToneValue
  <2> QED
    BY <2>1, <2>2, <2>3, ValueInt, ComposedName
<1>8. CASE a \notin {0, 20, 24, 32} \cup DOMAIN Frequencies
  <2>1. DOMAIN Composed(f) = {}
    BY <1>1, <1>8 DEF Composed
  <2> QED
    BY <2>1
<1> QED
  BY <1>3, <1>4, <1>5, <1>6, <1>7, <1>8

-----------------------------------------------------------------------------
(* What a frame sets.                                                      *)

\* The fields are registers.
LEMMA FieldName == ASSUME NEW a, NEW x \in Fields(a) PROVE x[1] \in Names
<1>1. a \in FieldAddresses
  BY NoFields
<1>2. PICK i \in 0 .. 15 : a = 2 * i
  BY <1>1 DEF FieldAddresses
<1>3. x \in UNION {Fields(2 * j) : j \in 0 .. 15}
  BY <1>2
<1> QED
  BY <1>3 DEF Names

\* A frame sets the fields of its address to its bits.
LEMMA DecodedField ==
  ASSUME NEW f \in Frames, NEW x \in Fields(Group(f))
  PROVE  /\ x[1] \in DOMAIN Decoded(f)
         /\ Decoded(f)[x[1]] = Bits(f[x[2]], x[3], x[4])
<1> DEFINE fields == Fields(Group(f))
           y == CHOOSE z \in fields : z[1] = x[1]
<1>1. y \in fields /\ y[1] = x[1]
  OBVIOUS
<1>2. y = x
  BY <1>1, FieldUnique
<1>3. x[1] \in {z[1] : z \in fields}
  OBVIOUS
<1>4. /\ x[1] \in DOMAIN Decoded(f)
      /\ Decoded(f)[x[1]] = Bits(f[y[2]], y[3], y[4])
  BY <1>3 DEF Decoded, Address
<1> QED
  BY <1>2, <1>4

\* A frame sets nothing of another address, but for PTT, and what it sets are
\* registers with values of their types.
LEMMA DecodedType ==
  ASSUME NEW f \in Frames, NEW r \in DOMAIN Decoded(f)
  PROVE  /\ Owner(r) = Group(f) \/ r = "ptt"
         /\ r \in Names
         /\ Decoded(f)[r] \in Int
         /\ r \in FrequencyNames \/ Decoded(f)[r] \in Values
<1> DEFINE names == {x[1] : x \in Fields(Group(f))}
<1>1. DOMAIN Decoded(f) = names \cup DOMAIN Composed(f) \cup {"ptt"}
  BY DEF Decoded, Address
<1>2. CASE r \in names
  <2>1. PICK x \in Fields(Group(f)) : r = x[1]
    BY <1>2
  <2>2. Decoded(f)[r] \in 0 .. 255
    BY <2>1, DecodedField, FieldValue
  <2>3. Decoded(f)[r] \in Values
    BY <2>2, ByteValue, Zenon
  <2> QED
    BY <2>1, <2>3, FieldOwner, FieldName, ValueInt
<1>3. CASE r \notin names /\ r = "ptt"
  <2>1. Decoded(f)[r] = f[0] % 2
    BY <1>3 DEF Decoded, Address
  <2>2. f[0] \in 0 .. 255
    BY FrameType
  <2>3. f[0] % 2 \in 0 .. 255
    BY <2>2
  <2>4. f[0] % 2 \in Values
    BY <2>3, ByteValue, Zenon
  <2> QED
    BY <1>3, <2>1, <2>4, ValueInt, ComposedName
<1>4. CASE r \notin names /\ r # "ptt"
  <2>1. r \in DOMAIN Composed(f) /\ Decoded(f)[r] = Composed(f)[r]
    BY <1>1, <1>4 DEF Decoded, Address
  <2> QED
    BY <2>1, ComposedOwner, ComposedType
<1> QED
  BY <1>2, <1>3, <1>4

-----------------------------------------------------------------------------
(* The invariant.                                                          *)

\* The addresses of frames so far, after one more.
LEMMA SeenStep ==
  ASSUME Remembered, NEW f \in Frames, Handle(f)
  PROVE  /\ Remembered'
         /\ Seen' = Seen \cup {Group(f)}
         /\ last'[Group(f)] = f
         /\ \A a \in Addresses \ {Group(f)} : last'[a] = last[a]
<1>1. Group(f) \in Addresses
  BY DEF Addresses
<1>2. last' = [last EXCEPT ![Group(f)] = f] /\ f # NoFrame
  BY FrameType DEF Handle
<1> QED
  BY <1>1, <1>2 DEF Remembered, Seen

\* A register changes only with a frame of its address.
LEMMA RegisterStep ==
  ASSUME NEW f \in Frames, Handle(f), NEW r \in Names,
         Owner(r) # Group(f), r # "ptt"
  PROVE  settings'[r] = settings[r]
<1>1. r \notin DOMAIN Decoded(f)
  BY DecodedType
<1> QED
  BY <1>1 DEF Handle

\* A frame gives the fields of its address their bits.
LEMMA FieldStep ==
  ASSUME NEW f \in Frames, Handle(f), NEW x \in Fields(Group(f))
  PROVE  settings'[x[1]] = Bits(f[x[2]], x[3], x[4])
BY DecodedField, FieldName DEF Handle

\* The registers the gains come from, with their addresses.
LEMMA GainNames ==
  /\ {"AlexAtt", "rx_att0", "rx_att1", "txatt", "txdrive"} \subseteq Names
  /\ Owner("AlexAtt") = 0 /\ Owner("rx_att0") = 20 /\ Owner("rx_att1") = 22
  /\ Owner("txatt") = 28 /\ Owner("txdrive") = 18
  /\ <<"txatt", 3, 0, 5>> \in Fields(28)
  /\ <<"txdrive", 1, 0, 8>> \in Fields(18)
  /\ <<"AlexAtt", 3, 0, 2>> \in Fields(0)
  /\ <<"rx_att1", 1, 0, 5>> \in Fields(22)
<1>1. /\ Owner("AlexAtt") = 0 /\ Owner("rx_att0") = 20 /\ Owner("rx_att1") = 22
      /\ Owner("txatt") = 28 /\ Owner("txdrive") = 18
  BY DEF Owner
<1>2. <<"txatt", 3, 0, 5>> \in Fields(28)
  BY DEF Fields
<1>3. <<"txdrive", 1, 0, 8>> \in Fields(18)
  BY DEF Fields
<1>4. <<"AlexAtt", 3, 0, 2>> \in Fields(0)
  BY DEF Fields
<1>5. <<"rx_att1", 1, 0, 5>> \in Fields(22)
  BY DEF Fields
<1>6. /\ <<"txatt", 3, 0, 5>>[1] = "txatt" /\ <<"txdrive", 1, 0, 8>>[1] = "txdrive"
      /\ <<"AlexAtt", 3, 0, 2>>[1] = "AlexAtt" /\ <<"rx_att1", 1, 0, 5>>[1] = "rx_att1"
  OBVIOUS
<1>7. {"AlexAtt", "rx_att1", "txatt", "txdrive"} \subseteq Names
  BY <1>2, <1>3, <1>4, <1>5, <1>6, FieldName
<1> QED
  BY <1>1, <1>2, <1>3, <1>4, <1>5, <1>7, ComposedName

\* Every register keeps the type of its values.
LEMMA SettingsType ==
  ASSUME TypeOK, NEW f \in Frames, Handle(f)
  PROVE  /\ settings' \in [Names -> Int]
         /\ \A r \in Names \ FrequencyNames : settings'[r] \in Values
<1> DEFINE said == Decoded(f)
<1>1. settings' = [r \in Names |-> IF r \in DOMAIN said THEN said[r] ELSE settings[r]]
  BY DEF Handle
<1> HIDE DEF said
<1>2. ASSUME NEW r \in DOMAIN said
      PROVE  said[r] \in Int /\ (r \in FrequencyNames \/ said[r] \in Values)
  BY DecodedType DEF said
<1> QED
  BY <1>1, <1>2 DEF TypeOK

\* The derived gains keep their types: the attenuation of the transmitter and
\* its drive are the bits of the frame just received.
LEMMA GainsType ==
  ASSUME TypeOK, NEW f \in Frames, Handle(f)
  PROVE  rxatt' \in [0 .. 3 -> Int] /\ txatt' \in 0 .. 31 /\ txdrv' \in -1 .. 255
<1> DEFINE a == Group(f)
<1>1. Address(f) = a /\ f[1] \in 0 .. 255 /\ f[3] \in 0 .. 255
  BY FrameType DEF Address
<1>2. \A r \in {"AlexAtt", "rx_att0", "rx_att1"} : settings'[r] \in Int
  BY SettingsType, GainNames
<1>3. rxatt' \in [0 .. 3 -> Int]
  <2>1. rxatt' = RxGains(a, settings')
    BY <1>1 DEF Handle
  <2>2. Rx1Gain(settings') \in Int /\ settings'["rx_att1"] \in Int
    BY <1>2 DEF Rx1Gain
  <2>3. rxatt \in [0 .. 3 -> Int]
    BY DEF TypeOK
  <2> HIDE DEF a
  <2> QED
    BY <2>1, <2>2, <2>3 DEF RxGains
<1>4. txatt' \in 0 .. 31
  <2>1. CASE a = 28
    <3>1. settings'["txatt"] = Bits(f[3], 0, 5)
      <4> DEFINE x == <<"txatt", 3, 0, 5>>
      <4>1. x \in Fields(a) /\ x[1] = "txatt" /\ x[2] = 3 /\ x[3] = 0 /\ x[4] = 5
        BY <2>1, GainNames
      <4> HIDE DEF x
      <4> QED
        BY <4>1, FieldStep
    <3>2. Bits(f[3], 0, 5) \in 0 .. 31
      BY <1>1, AttBits, Zenon
    <3>3. txatt' = settings'["txatt"]
      BY <1>1, <2>1 DEF Handle
    <3> QED
      BY <3>1, <3>2, <3>3
  <2>2. CASE a # 28
    BY <1>1, <2>2 DEF Handle, TypeOK
  <2> QED
    BY <2>1, <2>2
<1>5. txdrv' \in -1 .. 255
  <2>1. CASE a = 18
    <3>1. settings'["txdrive"] \in 0 .. 255
      <4> DEFINE x == <<"txdrive", 1, 0, 8>>
      <4>1. x \in Fields(a) /\ x[1] = "txdrive"
        BY <2>1, GainNames
      <4> HIDE DEF x
      <4> QED
        BY <4>1, FieldStep, FieldValue
    <3> QED
      BY <1>1, <2>1, <3>1 DEF Handle, TxDrive
  <2>2. CASE a # 18
    BY <1>1, <2>2 DEF Handle, TxDrive, TypeOK
  <2> QED
    BY <2>1, <2>2
<1> QED
  BY <1>3, <1>4, <1>5

\* The registers of the frame's address are its bits; those of the others
\* are as before, and so are the frames they come from.
LEMMA FollowStep ==
  ASSUME Remembered, RegistersFollowFrames, NEW f \in Frames, Handle(f)
  PROVE  RegistersFollowFrames'
<1> SUFFICES ASSUME NEW a \in Seen', NEW x \in Fields(a)
             PROVE  settings'[x[1]] = Bits(last'[a][x[2]], x[3], x[4])
  BY DEF RegistersFollowFrames
<1>1. CASE a = Group(f)
  BY <1>1, FieldStep, SeenStep
<1>2. CASE a # Group(f)
  <2>1. a \in Seen /\ last'[a] = last[a]
    BY <1>2, SeenStep DEF Seen
  <2>2. x[1] \in Names /\ Owner(x[1]) = a /\ x[1] # "ptt"
    <3>1. a \in FieldAddresses /\ Owner(x[1]) = a
      BY NoFields, FieldOwner
    <3>2. Owner("ptt") \notin FieldAddresses
      BY DEF Owner, FieldAddresses
    <3> QED
      BY <3>1, <3>2, FieldName
  <2>3. settings'[x[1]] = settings[x[1]]
    BY <1>2, <2>2, RegisterStep
  <2> QED
    BY <2>1, <2>3 DEF RegistersFollowFrames
<1> QED
  BY <1>1, <1>2

\* The gains follow the registers: a frame of an address that none of their
\* registers belongs to changes neither, and the others compute them anew.
LEMMA GainsStep ==
  ASSUME TypeOK, Remembered, GainsFollow, NEW f \in Frames, Handle(f)
  PROVE  GainsFollow'
<1> DEFINE a == Group(f)
<1>1. Address(f) = a /\ Seen' = Seen \cup {a}
  BY SeenStep DEF Address
<1>2. ASSUME NEW r \in {"AlexAtt", "rx_att0", "txatt", "txdrive"}, Owner(r) # a
      PROVE  settings'[r] = settings[r]
  BY <1>2, GainNames, RegisterStep
<1>3. /\ a # 0 => settings'["AlexAtt"] = settings["AlexAtt"]
      /\ a # 20 => settings'["rx_att0"] = settings["rx_att0"]
      /\ a # 28 => settings'["txatt"] = settings["txatt"]
      /\ a # 18 => settings'["txdrive"] = settings["txdrive"]
  BY <1>2, GainNames
<1>4. Seen' \cap {0, 20} # {} => rxatt'[0] = Rx1Gain(settings')
  <2>1. rxatt' = RxGains(a, settings') /\ rxatt \in [0 .. 3 -> Int]
    BY <1>1 DEF Handle, TypeOK
  <2>2. CASE a \in {0, 20}
    <3> HIDE DEF a
    <3> QED
      BY <2>1, <2>2 DEF RxGains
  <2>3. CASE a \notin {0, 20}
    <3>1. Rx1Gain(settings') = Rx1Gain(settings)
      BY <1>3, <2>3 DEF Rx1Gain
    <3>2. Seen' \cap {0, 20} = Seen \cap {0, 20}
      BY <1>1, <2>3
    <3> HIDE DEF a
    <3>3. rxatt'[0] = rxatt[0]
      BY <2>1, <2>3 DEF RxGains
    <3> QED
      BY <3>1, <3>2, <3>3 DEF GainsFollow
  <2> QED
    BY <2>2, <2>3
<1>5. txatt' = settings'["txatt"]
  BY <1>1, <1>3 DEF Handle, GainsFollow
<1>6. txdrv' = (IF 18 \in Seen' THEN settings'["txdrive"] ELSE -1)
  BY <1>1, <1>3 DEF Handle, TxDrive, GainsFollow
<1> QED
  BY <1>4, <1>5, <1>6 DEF GainsFollow

\* Before the first frame the registers have their initial values.
LEMMA InitSettings == Init => SettingsInv
<1> SUFFICES ASSUME Init PROVE SettingsInv
  OBVIOUS
<1>1. Seen = {} /\ Remembered
  BY DEF Init, Seen, Remembered
<1>2. settings = [r \in Names |-> CASE r = "txdrive" -> 255
                                  [] r \in {"txatt", "ptt"} -> 0
                                  [] OTHER -> -1]
  BY DEF Init
<1>3. \A r \in Names : settings[r] \in {-1, 0, 255}
  BY <1>2
<1>4. /\ settings \in [Names -> Int]
      /\ \A r \in Names \ FrequencyNames : settings[r] \in Values
  <2>1. 0 \in Values /\ 255 \in Values /\ -1 \in Values
    BY ValueIs
  <2> QED
    BY <1>2, <1>3, <2>1
<1>5. settings["txatt"] = 0
  BY <1>2, GainNames
<1>6. rxatt \in [0 .. 3 -> Int] /\ txatt = 0 /\ txdrv = -1
  BY DEF Init
<1>7. TypeOK
  BY <1>4, <1>6 DEF TypeOK
<1>8. RegistersFollowFrames /\ GainsFollow
  BY <1>1, <1>5, <1>6 DEF RegistersFollowFrames, GainsFollow
<1> QED
  BY <1>1, <1>7, <1>8 DEF SettingsInv

\* Whatever frames come, in whatever order, the registers are those of the
\* last frames and the gains those of the registers.
THEOREM SettingsInvariance == Spec => []SettingsInv
<1>1. SettingsInv /\ [Next]_vars => SettingsInv'
  <2> SUFFICES ASSUME SettingsInv, [Next]_vars PROVE SettingsInv'
    OBVIOUS
  <2>1. TypeOK /\ Remembered /\ RegistersFollowFrames /\ GainsFollow
    BY DEF SettingsInv
  <2>2. ASSUME NEW f \in Frames, Handle(f) PROVE SettingsInv'
    <3>1. TypeOK'
      BY <2>1, <2>2, SettingsType, GainsType DEF TypeOK
    <3>2. Remembered'
      BY <2>1, <2>2, SeenStep
    <3>3. RegistersFollowFrames'
      BY <2>1, <2>2, FollowStep
    <3>4. GainsFollow'
      BY <2>1, <2>2, GainsStep
    <3> QED
      BY <3>1, <3>2, <3>3, <3>4 DEF SettingsInv
  <2>3. CASE UNCHANGED vars
    <3>1. Seen' = Seen /\ Remembered' = Remembered
      BY <2>3 DEF vars, Seen, Remembered
    <3> QED
      BY <2>1, <2>3, <3>1
      DEF SettingsInv, vars, TypeOK, RegistersFollowFrames, GainsFollow, Rx1Gain
  <2> QED
    BY <2>2, <2>3 DEF Next
<1> QED
  BY InitSettings, <1>1, PTL DEF Spec

\* Every register and every gain has its type.
THEOREM SettingsTypeCorrect == Spec => []TypeOK
<1>1. SettingsInv => TypeOK
  BY DEF SettingsInv
<1> QED
  BY SettingsInvariance, <1>1, PTL

\* Every register holds what the last frame of its address said.
THEOREM AlwaysFollowFrames == Spec => []RegistersFollowFrames
<1>1. SettingsInv => RegistersFollowFrames
  BY DEF SettingsInv
<1> QED
  BY SettingsInvariance, <1>1, PTL

\* The gains are those of the registers they are derived from.
THEOREM AlwaysGainsFollow == Spec => []GainsFollow
<1>1. SettingsInv => GainsFollow
  BY DEF SettingsInv
<1> QED
  BY SettingsInvariance, <1>1, PTL
=============================================================================
