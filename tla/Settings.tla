------------------------------ MODULE Settings ------------------------------
(***************************************************************************)
(* The registers of the radio (settings) and what is derived from them.    *)
(* Each of the two 5-byte frames of an EP2 packet names an address and     *)
(* sets the registers of this address (ep2_handler).  The branches for the *)
(* C25 are left out: device_emulation is never anything but DEVICE_METIS.  *)
(***************************************************************************)
EXTENDS Integers, FiniteSets

CONSTANTS
    Frames,     \* the frames PCs send: functions from 0 .. 4 to 0 .. 255
    MaxSeen     \* bound: of how many addresses frames are sent in a behaviour

ASSUME FramesAssumption == Frames \subseteq [0 .. 4 -> 0 .. 255]
ASSUME SeenAssumption == MaxSeen \in Nat

VARIABLES
    settings,   \* a function from the names of the registers
    rxatt,      \* rxatt_dbl, in decibels
    txatt,      \* txatt_dbl, in decibels
    txdrv,      \* txdrv_dbl, in 256ths; -1 stands for the initial 0.99
    last        \* history: the last frame of each address

vars == <<settings, rxatt, txatt, txdrv, last>>

\* len bits of a byte, from bit lo on.
Bits(b, lo, len) == (b \div 2^lo) % 2^len

\* The address of a frame; its lowest bit is PTT.
Group(f) == f[0] - (f[0] % 2)

\* Mutant of Address: the address with the PTT bit is another one.
Address_WithPtt(f) == f[0]
Address(f) == Group(f)

Addresses == {Group(f) : f \in Frames}
NoFrame == [i \in 0 .. 4 |-> -1]

(***************************************************************************)
(* The registers that are bits of one byte: name, byte, first bit, length. *)
(***************************************************************************)
Fields(at) ==
    CASE at = 0 -> {
        <<"rate", 1, 0, 2>>, <<"ref10", 1, 3, 1>>, <<"src122", 1, 4, 1>>,
        <<"PMconfig", 1, 5, 2>>, <<"MicSrc", 1, 7, 1>>,
        <<"TX_class_E", 2, 0, 1>>, <<"OpenCollectorOutputs", 2, 1, 7>>,
        <<"AlexAtt", 3, 0, 2>>, <<"preamp", 3, 2, 1>>, <<"LTdither", 3, 3, 1>>,
        <<"LTrandom", 3, 4, 1>>, <<"alexRXant", 3, 5, 2>>,
        <<"alexRXout", 3, 7, 1>>, <<"AlexTXrel", 4, 0, 2>>,
        <<"duplex", 4, 2, 1>>, <<"MicTS", 4, 6, 1>>,
        <<"CommonMercuryFreq", 4, 7, 1>>}
    [] at = 18 -> {
        <<"txdrive", 1, 0, 8>>, <<"hermes_config", 2, 0, 6>>,
        <<"alex_manual", 2, 6, 1>>, <<"vna", 2, 7, 1>>,
        <<"alex_hpf", 3, 0, 5>>, <<"alex_bypass", 3, 5, 1>>,
        <<"lna6m", 3, 6, 1>>, <<"alexTRdisable", 3, 7, 1>>,
        <<"alex_lpf", 4, 0, 8>>}
    [] at = 20 -> {
        <<"rx_preamp0", 1, 0, 1>>, <<"rx_preamp1", 1, 1, 1>>,
        <<"rx_preamp2", 1, 2, 1>>, <<"rx_preamp3", 1, 3, 1>>,
        <<"tip_ring", 1, 4, 1>>, <<"MicBias", 1, 5, 1>>, <<"MicPTT", 1, 6, 1>>,
        <<"LineGain", 2, 0, 5>>, <<"MerTxATT0", 2, 5, 1>>,
        <<"PureSignal", 2, 6, 1>>, <<"PeneSel", 2, 7, 1>>,
        <<"MetisDB9", 3, 0, 4>>, <<"MerTxATT1", 3, 4, 1>>}
    [] at = 22 -> {
        <<"rx_att1", 1, 0, 5>>, <<"cw_reversed", 2, 6, 1>>,
        <<"cw_speed", 3, 0, 6>>, <<"cw_mode", 3, 6, 2>>,
        <<"cw_weight", 4, 0, 7>>, <<"cw_spacing", 4, 7, 1>>}
    [] at = 28 -> {
        <<"rx_adc0", 1, 0, 2>>, <<"rx_adc1", 1, 2, 2>>, <<"rx_adc2", 1, 4, 2>>,
        <<"rx_adc3", 1, 6, 2>>, <<"rx_adc4", 2, 0, 2>>, <<"rx_adc5", 2, 2, 2>>,
        <<"rx_adc6", 2, 4, 2>>, <<"txatt", 3, 0, 5>>}
    [] at = 30 -> {
        <<"cw_internal", 1, 0, 1>>, <<"sidetone_volume", 2, 0, 8>>,
        <<"cw_delay", 3, 0, 8>>}
    [] OTHER -> {}

Frequencies == [at \in {2 * i : i \in 1 .. 8} |->
    <<"tx_freq", "rx_freq0", "rx_freq1", "rx_freq2", "rx_freq3", "rx_freq4",
      "rx_freq5", "rx_freq6">>[at \div 2]]

\* Four bytes as the int they are computed in, before they become a long.
Word(f) == (IF f[1] < 128 THEN f[1] ELSE f[1] - 256) * 2^24
               + f[2] * 2^16 + f[3] * 2^8 + f[4]

\* fr3 << 4 | fr4: the high half of fr4 and the low half of fr3 overlap.
SidetoneFreq(f) ==
    LET hi == f[4] \div 16  lo == f[3] % 16
        Or == [i \in 0 .. 3 |-> IF Bits(hi, i, 1) + Bits(lo, i, 1) > 0 THEN 2^i ELSE 0]
    IN  (f[3] \div 16) * 256 + (Or[0] + Or[1] + Or[2] + Or[3]) * 16 + (f[4] % 16)

-----------------------------------------------------------------------------
(* What a frame says.                                                      *)

HLFormat(f) == Bits(f[4], 6, 1) = 1

\* (fr4 & 0x1F) >> 0x0F
Rx1Att(f) == Bits(f[4], 0, 5) \div 2^15

\* Mutant of Rx1: the mask of the 6-bit format is forgotten.
Rx1_Unmasked(f) ==
    IF HLFormat(f) THEN [rx_att0 |-> 37 - f[4]]
                   ELSE [rx_att0 |-> Rx1Att(f), rx1_attE |-> Bits(f[4], 5, 1)]
Rx1(f) ==
    IF HLFormat(f) THEN [rx_att0 |-> 37 - Bits(f[4], 0, 6)]
                   ELSE [rx_att0 |-> Rx1Att(f), rx1_attE |-> Bits(f[4], 5, 1)]

\* The registers that are more than bits of one byte.
Composed(f) ==
    LET at == Address(f)
    IN  CASE at = 0 -> [receivers |-> Bits(f[4], 3, 3) + 1]
        [] at \in DOMAIN Frequencies -> [r \in {Frequencies[at]} |-> Word(f)]
        [] at = 20 -> Rx1(f)
        [] at = 24 -> [c25_ext_board_i2c_data |-> f[2] * 256 + f[1]]
        [] at = 32 -> [cw_hang |-> f[1] * 4 + (f[2] % 4), freq |-> SidetoneFreq(f)]
        [] OTHER -> [r \in {} |-> 0]

\* The registers that f sets, with their values.
Decoded(f) ==
    LET fields == Fields(Address(f))
        names == {x[1] : x \in fields}
        value(x) == Bits(f[x[2]], x[3], x[4])
        composed == Composed(f)
    IN  [r \in names \cup DOMAIN composed \cup {"ptt"} |->
            IF r \in names THEN value(CHOOSE x \in fields : x[1] = r)
            ELSE IF r = "ptt" THEN f[0] % 2 ELSE composed[r]]

-----------------------------------------------------------------------------
FrequencyNames == {Frequencies[at] : at \in DOMAIN Frequencies}

Names ==
    {x[1] : x \in UNION {Fields(2 * i) : i \in 0 .. 15}}
        \cup FrequencyNames
        \cup {"receivers", "rx_att0", "rx1_attE", "c25_ext_board_i2c_data",
              "cw_hang", "freq", "ptt"}

Init ==
    /\ settings = [r \in Names |->
            CASE r = "txdrive" -> 255 [] r \in {"txatt", "ptt"} -> 0 [] OTHER -> -1]
    /\ rxatt = [i \in 0 .. 3 |-> 0]
    /\ txatt = 0
    /\ txdrv = -1
    /\ last = [a \in Addresses |-> NoFrame]

\* Attenuation of the first receiver.
Rx1Gain(s) == 10 * s["AlexAtt"] + s["rx_att0"]

\* The gains after a frame of address at that left the registers as s.
\* Mutant of RxGains: not recomputed when the step attenuator changes.
RxGains_Alex(at, s) == IF at = 0 THEN [rxatt EXCEPT ![0] = Rx1Gain(s)] ELSE rxatt
RxGains(at, s) ==
    CASE at = 0  -> [rxatt EXCEPT ![0] = Rx1Gain(s), ![1] = 0]
    [] at = 20   -> [i \in 0 .. 3 |-> CASE i = 0 -> Rx1Gain(s)
                                      [] i = 1 -> s["rx_att1"]
                                      [] OTHER -> 0]
    [] at = 22   -> [rxatt EXCEPT ![1] = s["rx_att1"]]
    [] OTHER     -> rxatt

\* Mutant of TxDrive: recomputed with the attenuator instead of the drive.
TxDrive_OnAtt(at, s) == IF at = 28 THEN s["txdrive"] ELSE txdrv
TxDrive(at, s) == IF at = 18 THEN s["txdrive"] ELSE txdrv

Handle(f) ==
    /\ LET said == Decoded(f)
       IN  settings' = [r \in Names |->
                           IF r \in DOMAIN said THEN said[r] ELSE settings[r]]
    /\ rxatt' = RxGains(Address(f), settings')
    /\ txatt' = IF Address(f) = 28 THEN settings'["txatt"] ELSE txatt
    /\ txdrv' = TxDrive(Address(f), settings')
    /\ last' = [last EXCEPT ![Group(f)] = f]

Seen == {a \in Addresses : last[a] # NoFrame}

Next ==
    \E f \in Frames :
        /\ Cardinality(Seen \cup {Group(f)}) <= MaxSeen
        /\ Handle(f)

Spec == Init /\ [][Next]_vars

-----------------------------------------------------------------------------
\* What registers hold that are not frequencies: at most two bytes.
TwoBytes == 65535
Values == -26 .. TwoBytes

TypeOK ==
    /\ settings \in [Names -> Int]
    /\ \A r \in Names \ FrequencyNames : settings[r] \in Values
    /\ rxatt \in [0 .. 3 -> Int]
    /\ txatt \in 0 .. 31 /\ txdrv \in -1 .. 255

\* Every register holds what the last frame of its address said, whatever
\* frames of other addresses came since and whether PTT was set in them.
RegistersFollowFrames ==
    \A a \in Seen : \A x \in Fields(a) :
        settings[x[1]] = Bits(last[a][x[2]], x[3], x[4])

\* The first receiver's gain is that of its two attenuators, whichever of the
\* two was set last, and the transmitter's attenuation and drive are those of
\* the registers, whatever frames of other addresses came in between.
GainsFollow ==
    /\ Seen \cap {0, 20} # {} => rxatt[0] = Rx1Gain(settings)
    /\ txatt = settings["txatt"]
    /\ txdrv = (IF 18 \in Seen THEN settings["txdrive"] ELSE -1)

\* Seen is the addresses of the frames so far.
Remembered == last \in [Addresses -> Frames \cup {NoFrame}]

\* The inductive invariant: together with the types, what follows from the
\* registers is kept by every frame.
SettingsInv == TypeOK /\ Remembered /\ RegistersFollowFrames /\ GainsFollow

\* ep2.c says of rxatt_dbl "this reflects both att and preamp".  The code does
\* not keep it: a frame of address 0 resets the second receiver's gain.
Rx2GainFollows ==
    Seen \cap {20, 22} # {} => rxatt[1] = settings["rx_att1"]
=============================================================================
