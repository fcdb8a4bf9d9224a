------------------------------ MODULE Ep6Frame ------------------------------
(***************************************************************************)
(* One ep6 thread builds packets (ep6_handler): two blocks of samples for  *)
(* settings.receivers receivers, then a wait for the time these samples    *)
(* take.  settings.receivers and settings.rate belong to the network       *)
(* thread, which stores what EP2 packets say at any moment.                *)
(***************************************************************************)
EXTENDS Integers

CONSTANTS
    BlockBytes,     \* room for samples in a block (504 in C)
    IQBytes,        \* bytes of one I/Q sample of one receiver (6)
    MicBytes,       \* bytes of one microphone sample (2)
    MaxReceivers,   \* 8
    MaxRate,        \* 3
    Second,         \* nanoseconds in a second (1000000000)
    Millisecond,    \* the 1000000 of the computation of wait
    SteadyReceivers \* are they set before START and left alone meanwhile?

ASSUME SizeAssumption ==
    /\ IQBytes \in Nat \ {0} /\ MicBytes \in Nat \ {0} /\ MicBytes < IQBytes
    /\ MaxReceivers \in Nat \ {0} /\ MaxRate \in 0 .. 3
    /\ BlockBytes \in Nat /\ BlockBytes >= MaxReceivers * IQBytes + MicBytes
ASSUME TimeAssumption ==
    /\ Second \in Nat \ {0} /\ Millisecond \in Nat \ {0}
    /\ 2 * BlockBytes * Millisecond < Second * 48
ASSUME SteadyAssumption == SteadyReceivers \in BOOLEAN

VARIABLES
    receivers, rate,    \* settings.receivers, settings.rate; -1 until set
    ready,              \* is there an ep6 thread?
    pc,                 \* where the thread is
    n,                  \* samples per block
    wait,
    block,              \* i, the block being filled
    j, k,               \* the sample and the receiver in it
    pointer,            \* bytes written after the block's header
    header_offset,
    tv_nsec, tv_sec     \* delay: when the packet is due

vars == <<receivers, rate, ready, pc, n, wait, block, j, k, pointer,
          header_offset, tv_nsec, tv_sec>>

Init ==
    /\ receivers = -1 /\ rate = -1
    /\ ready = FALSE
    /\ pc = "loop" /\ n = 0 /\ wait = 0
    /\ block = 0 /\ j = 0 /\ k = 0 /\ pointer = 0
    /\ header_offset = 0
    /\ tv_nsec = 0 /\ tv_sec = 0

-----------------------------------------------------------------------------
(* The network thread: ep2_receivers, ep2_samplerate.                      *)

MayReset == ~SteadyReceivers \/ ~ready

SetReceivers(r) ==
    /\ MayReset
    /\ receivers' = r
    /\ UNCHANGED <<rate, ready, pc, n, wait, block, j, k, pointer,
                   header_offset, tv_nsec, tv_sec>>

SetRate(r) ==
    /\ MayReset
    /\ rate' = r
    /\ UNCHANGED <<receivers, ready, pc, n, wait, block, j, k, pointer,
                   header_offset, tv_nsec, tv_sec>>

\* A new thread: header_offset = 0, and delay is what the clock says.
Start ==
    /\ ~ready
    /\ SteadyReceivers => receivers # -1 /\ rate # -1
    /\ ready' = TRUE
    /\ header_offset' = 0
    /\ tv_nsec' \in {0, Second - 1} /\ tv_sec' = 0
    /\ UNCHANGED <<receivers, rate, pc, n, wait, block, j, k, pointer>>

\* enable_thread is 0 at the top of the loop.
Stop ==
    /\ ready /\ pc = "loop"
    /\ ready' = FALSE
    /\ UNCHANGED <<receivers, rate, pc, n, wait, block, j, k, pointer,
                   header_offset, tv_nsec, tv_sec>>

-----------------------------------------------------------------------------
(* The ep6 thread.                                                         *)

Size(r) == r * IQBytes + MicBytes

\* 504 / size, which is -126 for the size -4 of receivers never set.
\* Mutant of Samples: the microphone sample is forgotten.
Samples_NoMic(r) == BlockBytes \div (r * IQBytes)
Samples(r) == IF Size(r) > 0 THEN BlockBytes \div Size(r)
                             ELSE -(BlockBytes \div (-Size(r)))

\* 48 << settings.rate, the two bits of a packet; 48 << -1 is undefined, and
\* the processors in use give 0, which the code tests for.
KHz(r) == IF r = -1 THEN 0 ELSE <<48, 96, 192, 384>>[r + 1]

\* C division truncates towards zero.
Quotient(a, b) == IF a >= 0 THEN a \div b ELSE -((-a) \div b)

Wait(samples, r) ==
    IF KHz(r) = 0 THEN 2 * samples * Millisecond
                  ELSE Quotient(2 * samples * Millisecond, KHz(r))

Measure ==
    /\ ready /\ pc = "loop"
    /\ n' = Samples(receivers)
    /\ wait' = Wait(n', rate)
    /\ pc' = "block" /\ block' = 0
    /\ UNCHANGED <<receivers, rate, ready, j, k, pointer, header_offset,
                   tv_nsec, tv_sec>>

\* Mutant of NextHeader: one header too many.
NextHeader_Sixth == IF header_offset = 40 THEN 0 ELSE header_offset + 8
NextHeader == IF header_offset = 32 THEN 0 ELSE header_offset + 8

\* The header and the headers' rotation.
Header ==
    /\ pc = "block"
    /\ header_offset' = NextHeader
    /\ pointer' = 0 /\ j' = 0 /\ k' = 0
    /\ pc' = "row"
    /\ UNCHANGED <<receivers, rate, ready, n, wait, block, tv_nsec, tv_sec>>

\* k < settings.receivers: the setting is read again for every sample.
Sample ==
    /\ pc = "row" /\ j < n /\ k < receivers
    /\ pointer' = pointer + IQBytes
    /\ k' = k + 1
    /\ UNCHANGED <<receivers, rate, ready, pc, n, wait, block, j,
                   header_offset, tv_nsec, tv_sec>>

Mic ==
    /\ pc = "row" /\ j < n /\ k >= receivers
    /\ pointer' = pointer + MicBytes
    /\ j' = j + 1 /\ k' = 0
    /\ UNCHANGED <<receivers, rate, ready, pc, n, wait, block, header_offset,
                   tv_nsec, tv_sec>>

NextBlock == 1 - block

EndBlock ==
    /\ pc = "row" /\ j >= n
    /\ block' = NextBlock
    /\ pc' = IF NextBlock = 1 THEN "block" ELSE "pace"
    /\ UNCHANGED <<receivers, rate, ready, n, wait, j, k, pointer,
                   header_offset, tv_nsec, tv_sec>>

\* Mutant of Carry: one nanosecond too late.
Carry_Late(ns) == ns > Second
Carry(ns) == ns >= Second

\* delay += wait, normalised: one turn of the loop is enough as wait < Second.
Pace ==
    /\ pc = "pace"
    /\ LET ns == tv_nsec + wait
       IN  IF Carry(ns) THEN tv_nsec' = ns - Second /\ tv_sec' = (tv_sec + 1) % 2
                        ELSE tv_nsec' = ns /\ UNCHANGED tv_sec
    /\ pc' = "send"
    /\ UNCHANGED <<receivers, rate, ready, n, wait, block, j, k, pointer,
                   header_offset>>

\* clock_nanosleep, then hpsdr_network_send.
Send ==
    /\ pc = "send"
    /\ pc' = "loop"
    /\ UNCHANGED <<receivers, rate, ready, n, wait, block, j, k, pointer,
                   header_offset, tv_nsec, tv_sec>>

Thread == Measure \/ Header \/ Sample \/ Mic \/ EndBlock \/ Pace \/ Send

Next ==
    \/ \E r \in 1 .. MaxReceivers : SetReceivers(r)
    \/ \E r \in 0 .. MaxRate : SetRate(r)
    \/ Start \/ Stop
    \/ Thread

Spec == Init /\ [][Next]_vars

-----------------------------------------------------------------------------
TypeOK ==
    /\ receivers \in {-1} \cup (1 .. MaxReceivers)
    /\ rate \in {-1} \cup (0 .. MaxRate)
    /\ ready \in BOOLEAN
    /\ pc \in {"loop", "block", "row", "pace", "send"}
    /\ n \in Int /\ wait \in Int
    /\ block \in {0, 1}
    /\ j \in Nat /\ k \in 0 .. MaxReceivers /\ pointer \in Nat
    /\ header_offset \in {0, 8, 16, 24, 32}
    /\ tv_nsec \in Int /\ tv_sec \in {0, 1}

\* The samples of a block fit into it: ep6_handler writes through a pointer
\* with no check but n, computed from the settings before.
WithinBlock ==
    pc = "row" /\ j < n /\ k < receivers => pointer + IQBytes <= BlockBytes

\* delay is a valid time whenever clock_nanosleep gets it, or the thread would
\* not wait at all and flood the PC.
PaceValid == pc = "send" => 0 <= tv_nsec /\ tv_nsec < Second

(***************************************************************************)
(* The inductive invariant behind WithinBlock: where the pointer is, given *)
(* that the settings have not changed since n was computed from them.      *)
(***************************************************************************)
Layout ==
    SteadyReceivers =>
        /\ ready => receivers # -1 /\ rate # -1
        /\ pc # "loop" => ready
        /\ pc \in {"block", "row"} => n >= 0 /\ n * Size(receivers) <= BlockBytes
        /\ pc = "row" => /\ j <= n /\ k <= receivers
                         /\ (j = n => k = 0)
                         /\ pointer = j * Size(receivers) + k * IQBytes
        /\ pc \in {"block", "row", "pace"} => 0 <= wait /\ wait < Second
        /\ 0 <= tv_nsec /\ tv_nsec < Second
=============================================================================
