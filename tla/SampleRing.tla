----------------------------- MODULE SampleRing -----------------------------
(***************************************************************************)
(* The ring of transmit samples.  The network thread stores the samples of *)
(* each EP2 packet (samples_rcv), the tx thread gives the ring to the      *)
(* sender one burst after the other (iqsender_tx), an ep6 thread that ends *)
(* clears it (iqsender_clear_buffer).  None of them waits for another, and *)
(* several ep6 threads may clear at the same time.                         *)
(* A sample is represented by its age: how many were stored after it.      *)
(***************************************************************************)
EXTENDS Integers

CONSTANTS
    Burst,      \* config.global.iqburst, samples the tx thread takes at once
    TxLen,      \* TXLEN, bursts in the ring (10)
    Half,       \* samples in each of the two blocks of a packet (63)
    Threads,    \* ep6 threads alive at one time
    None,       \* no thread
    Silence,    \* a cleared cell
    Junk        \* a cell as malloc returned it

ASSUME RingAssumption == Burst \in Nat \ {0} /\ TxLen \in Nat \ {0}
ASSUME PacketAssumption == Half \in Nat \ {0}
ASSUME ThreadAssumption == None \notin Threads
ASSUME CellAssumption == Silence \notin Int /\ Junk \notin Int /\ Silence # Junk

VARIABLES
    iq_buffer,  \* tx_arg.iq_buffer and the cell behind it
    tx_iq_ptr,  \* the cell the next sample goes to
    j, bp,      \* samples_rcv: the next sample of the packet and its place in it
    cleared,    \* iqsender_clear_buffer: cells each thread has cleared so far
    tx_block,   \* the burst the tx thread takes next
    pos,        \* samples of it taken so far
    played,     \* what the sender got last: Silence, Junk or 0 for a sample
    sending,    \* is there a sender, and tx_init?
    last,       \* history: the thread that began its clear last
    fresh       \* history: samples stored since, Size + 1 if more than Size

rcvVars == <<tx_iq_ptr, j, bp>>
txVars  == <<tx_block, pos, played>>
history == <<last, fresh>>
vars == <<iq_buffer, rcvVars, cleared, txVars, sending, history>>

Size == TxLen * Burst
Cells == 0 .. Size      \* what is allocated is 0 .. Size - 1
Samples == 2 * Half     \* of a packet

Init ==
    /\ \E v \in {Silence, Junk} : iq_buffer = [c \in Cells |-> v]
    /\ tx_iq_ptr = 0
    /\ j = Samples /\ bp = 0
    /\ cleared = [t \in Threads |-> Size]
    /\ tx_block = 0 /\ pos = Burst /\ played = Silence
    /\ sending = FALSE
    /\ last = None /\ fresh = 0

-----------------------------------------------------------------------------
(* The network thread.                                                     *)

\* 8 bytes of packet header, then 8 of the first block's SYNC and C&C.
Packet ==
    /\ j = Samples
    /\ j' = 0 /\ bp' = 16
    /\ UNCHANGED <<iq_buffer, tx_iq_ptr, cleared, txVars, sending, history>>

\* Mutant of Wrap: not to the beginning.
Wrap_ToOne(p) == IF p > Size THEN 1 ELSE p
Wrap(p) == IF p > Size THEN 0 ELSE p

\* Mutant of Skip: after the first sample of the second block.
Skip_Late == IF j = Half THEN 8 ELSE 0
Skip == IF j = Half - 1 THEN 8 ELSE 0

Older(v) == IF v \in {Silence, Junk} THEN v ELSE v + 1

\* 4 bytes of audio are passed over, 4 of I and Q are stored.
Store ==
    /\ j < Samples
    /\ iq_buffer' = [c \in Cells |-> IF c = tx_iq_ptr THEN 0
                                                      ELSE Older(iq_buffer[c])]
    /\ tx_iq_ptr' = Wrap(tx_iq_ptr + 1)
    /\ bp' = bp + 8 + Skip
    /\ j' = j + 1
    /\ fresh' = IF fresh > Size THEN fresh ELSE fresh + 1
    /\ UNCHANGED <<cleared, txVars, sending, last>>

-----------------------------------------------------------------------------
(* The end of an ep6 thread.                                               *)

ClearBegin(t) ==
    /\ cleared[t] = Size
    /\ cleared' = [cleared EXCEPT ![t] = 0]
    /\ last' = t /\ fresh' = 0
    /\ UNCHANGED <<iq_buffer, rcvVars, txVars, sending>>

\* Mutant of Cleared: the last burst is left alone.
Cleared_AllButOne(c) == IF c < Size - Burst THEN Silence ELSE iq_buffer[c]
Cleared(c) == Silence

Clear(t) ==
    /\ cleared[t] < Size
    /\ iq_buffer' = [iq_buffer EXCEPT ![cleared[t]] = Cleared(cleared[t])]
    /\ cleared' = [cleared EXCEPT ![t] = cleared[t] + 1]
    /\ UNCHANGED <<rcvVars, txVars, sending, history>>

-----------------------------------------------------------------------------
(* The tx thread.                                                          *)

\* tx_init changes at any time, see RfSender.
Switch ==
    /\ sending' = ~sending
    /\ UNCHANGED <<iq_buffer, rcvVars, cleared, txVars, history>>

TxBegin ==
    /\ pos = Burst /\ sending
    /\ pos' = 0
    /\ UNCHANGED <<iq_buffer, rcvVars, cleared, tx_block, played, sending,
                   history>>

\* Mutant of NextTxBlock: one block too far.
NextTxBlock_Beyond == IF tx_block > TxLen - 1 THEN 0 ELSE tx_block + 1
NextTxBlock == IF tx_block + 1 > TxLen - 1 THEN 0 ELSE tx_block + 1

Kind(v) == IF v \in {Silence, Junk} THEN v ELSE 0

Play ==
    /\ pos < Burst
    /\ played' = Kind(iq_buffer[tx_block * Burst + pos])
    /\ pos' = pos + 1
    /\ tx_block' = IF pos + 1 = Burst THEN NextTxBlock ELSE tx_block
    /\ UNCHANGED <<iq_buffer, rcvVars, cleared, sending, history>>

Tx == TxBegin \/ Play

Next ==
    \/ Packet \/ Store
    \/ \E t \in Threads : ClearBegin(t) \/ Clear(t)
    \/ Switch \/ Tx

Spec == Init /\ [][Next]_vars

-----------------------------------------------------------------------------
Ages == Int \cup {Silence, Junk}

TypeOK ==
    /\ iq_buffer \in [Cells -> Ages]
    /\ tx_iq_ptr \in Cells
    /\ j \in 0 .. Samples /\ bp \in Nat
    /\ cleared \in [Threads -> 0 .. Size]
    /\ tx_block \in 0 .. TxLen - 1 /\ pos \in 0 .. Burst
    /\ played \in {0, Silence, Junk}
    /\ sending \in BOOLEAN
    /\ last \in Threads \cup {None} /\ fresh \in 0 .. Size + 1

\* The samples lie in the ring in the order of the packets: what a cell holds
\* is exactly as old as the way of the pointer from it says, whatever the
\* clears and the sender did.  So no burst mixes samples out of order but
\* where the pointer is, and none is older than one turn.
StreamOrder ==
    \A c \in Cells :
        \/ iq_buffer[c] \in {Silence, Junk}
        \/ iq_buffer[c] = IF c < tx_iq_ptr THEN tx_iq_ptr - 1 - c
                                           ELSE tx_iq_ptr + Size - c

\* The bytes of a sample are sample bytes of the packet: not its header, not
\* the SYNC and C&C bytes of a block, nothing behind its end.
InPayload ==
    j < Samples => \/ 16 <= bp /\ bp + 8 <= 16 + 8 * Half
                   \/ 24 + 8 * Half <= bp /\ bp + 8 <= 24 + 16 * Half

\* Where the latest clear has been there is nothing from before it, neither
\* samples nor what malloc returned, whatever other threads clear, store and
\* play meanwhile: what a session stored never outlives the thread's clear.
NothingOlder ==
    \A c \in Cells : last # None /\ c < cleared[last] =>
        /\ iq_buffer[c] # Junk
        /\ iq_buffer[c] # Silence => iq_buffer[c] < fresh

\* What is stored lands in the ring that main allocates and the tx thread plays.
InBounds == j < Samples => tx_iq_ptr < Size

(***************************************************************************)
(* The inductive invariant: InPayload needs to know where exactly bp is.   *)
(***************************************************************************)
Place == j < Samples => bp = IF j < Half THEN 16 + 8 * j ELSE 24 + 8 * j

IInv == TypeOK /\ StreamOrder /\ NothingOlder /\ Place
=============================================================================
