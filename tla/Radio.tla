------------------------------- MODULE Radio -------------------------------
(***************************************************************************)
(* The start/stop handshake and the transmit ring together: when the       *)
(* network thread may store samples, when an ep6 thread clears the ring    *)
(* cell by cell, and what the tx thread plays meanwhile, over any number   *)
(* of sessions.  The handshake is that of Session, reduced to one PC and   *)
(* to the steps that matter to the ring; the ring is SampleRing.           *)
(***************************************************************************)
EXTENDS SampleRing

VARIABLES
    netpc,          \* where the network thread is
    ep6,            \* where each ep6 thread is
    enable_thread,
    active_thread

flags == <<enable_thread, active_thread>>
handshake == <<netpc, ep6, flags>>
radioVars == <<vars, handshake>>

RadioInit ==
    /\ Init
    /\ netpc = "recv"
    /\ ep6 = [t \in Threads |-> "none"]
    /\ enable_thread = 0 /\ active_thread = 0

-----------------------------------------------------------------------------
(* hpsdr_network_process.                                                  *)

\* Mutant of MayStore: samples are stored whether or not a session runs.
MayStore_Always == TRUE
MayStore == active_thread = 1

\* An EP2 packet while the radio runs; otherwise it changes nothing here.
EP2 ==
    /\ netpc = "recv"
    /\ MayStore
    /\ Packet
    /\ netpc' = "store"
    /\ UNCHANGED <<ep6, flags>>

\* samples_rcv, one sample after the other; then the next packet is read.
StoreSample ==
    /\ netpc = "store"
    /\ Store
    /\ netpc' = IF j' = Samples THEN "recv" ELSE "store"
    /\ UNCHANGED <<ep6, flags>>

\* STOP and START first tell the running thread to end ...
Disable(wait) ==
    /\ netpc = "recv"
    /\ netpc' = wait
    /\ enable_thread' = 0
    /\ UNCHANGED <<vars, ep6, active_thread>>

\* Mutant of Ended: nobody waits for the thread.
Ended_Assumed == TRUE
Ended == active_thread = 0

\* ... and wait until it has.
StopDone ==
    /\ netpc = "stopwait"
    /\ Ended
    /\ netpc' = "recv"
    /\ UNCHANGED <<vars, ep6, flags>>

StartArm ==
    /\ netpc = "startwait"
    /\ Ended
    /\ enable_thread' = 1 /\ active_thread' = 1
    /\ netpc' = "spawn"
    /\ UNCHANGED <<vars, ep6>>

Spawn(t) ==
    /\ netpc = "spawn"
    /\ ep6[t] = "none"
    /\ ep6' = [ep6 EXCEPT ![t] = "loop"]
    /\ netpc' = "recv"
    /\ UNCHANGED <<vars, flags>>

-----------------------------------------------------------------------------
(* ep6_handler.                                                            *)

\* if (!enable_thread) break;
Break(t) ==
    /\ ep6[t] = "loop"
    /\ enable_thread = 0
    /\ ep6' = [ep6 EXCEPT ![t] = "leave"]
    /\ UNCHANGED <<vars, netpc, flags>>

\* active_thread = 0, and on to iqsender_clear_buffer.
Leave(t) ==
    /\ ep6[t] = "leave"
    /\ active_thread' = 0
    /\ ClearBegin(t)
    /\ ep6' = [ep6 EXCEPT ![t] = "clear"]
    /\ UNCHANGED <<netpc, enable_thread>>

ClearCell(t) ==
    /\ ep6[t] = "clear"
    /\ Clear(t)
    /\ ep6' = [ep6 EXCEPT ![t] = IF cleared'[t] = Size THEN "none" ELSE "clear"]
    /\ UNCHANGED <<netpc, flags>>

-----------------------------------------------------------------------------
Network ==
    \/ StoreSample \/ StopDone \/ StartArm
    \/ \E t \in Threads : Spawn(t)

Handler(t) == Break(t) \/ Leave(t) \/ ClearCell(t)

Transmit == Tx /\ UNCHANGED handshake
SwitchSender == Switch /\ UNCHANGED handshake

RadioNext ==
    \/ EP2 \/ Disable("stopwait") \/ Disable("startwait") \/ Network
    \/ \E t \in Threads : Handler(t)
    \/ Transmit \/ SwitchSender

RadioSpec == RadioInit /\ [][RadioNext]_radioVars

\* The scheduler runs every thread that can run; the PC need not send.
FairRadioSpec ==
    /\ RadioSpec
    /\ WF_radioVars(Network)
    /\ \A t \in Threads : WF_radioVars(Handler(t))
    /\ WF_radioVars(Transmit)

-----------------------------------------------------------------------------
RadioTypeOK ==
    /\ TypeOK
    /\ netpc \in {"recv", "store", "stopwait", "startwait", "spawn"}
    /\ ep6 \in [Threads -> {"none", "loop", "leave", "clear"}]
    /\ enable_thread \in {0, 1} /\ active_thread \in {0, 1}

\* Once the thread of the last session has cleared the ring and no other
\* session runs, nothing is left that the tx thread could play: no sample came
\* in between the test of active_thread and the clear, behind its back or from
\* the session before, whose thread may still be clearing.
SilentWhenStopped ==
    active_thread = 0 /\ last # None /\ cleared[last] = Size
        => \A c \in Cells : c < Size => iq_buffer[c] = Silence

\* The ring keeps the promise of StreamService: samples appear in the part
\* that is played only while a PC is being served, from the moment
\* active_thread is set to the moment the thread gives it back, and a new
\* session starts only after the old one has ended, although clears of old
\* sessions run into the new one.
RingService == INSTANCE StreamService
                 WITH Clients <- {1}, None <- 0, client <- active_thread,
                      samples <- \E c \in Cells : c < Size /\ iq_buffer[c] # Silence
RingServiceSpec == RingService!Spec

\* When no further session comes, the transmitter is fed silence for ever: no
\* sample of any session, and nothing of what malloc returned, is played
\* again and again after the last STOP.
Quiet ==
    <>[](active_thread = 0 /\ last # None /\ sending) => <>[](played = Silence)

(***************************************************************************)
(* The inductive invariant: what the two flags mean to each thread, which  *)
(* makes the samples of the ring those of the running session.             *)
(***************************************************************************)
Streams(t) == ep6[t] \in {"loop", "leave"}

Handshake ==
    /\ \A t \in Threads : Streams(t) => active_thread = 1
    /\ \A t, u \in Threads : Streams(t) /\ Streams(u) => t = u
    /\ \A t \in Threads : ep6[t] = "leave" => enable_thread = 0
    /\ enable_thread = 0 /\ active_thread = 1
           => netpc \in {"stopwait", "startwait"}
    /\ netpc = "store" => enable_thread = 1 /\ active_thread = 1
    /\ netpc = "spawn" => /\ enable_thread = 1 /\ active_thread = 1
                          /\ \A t \in Threads : ~Streams(t)

NothingFresh == active_thread = 0 => fresh = 0

RadioInv ==
    /\ RadioTypeOK /\ StreamOrder /\ NothingOlder /\ Handshake /\ NothingFresh
=============================================================================
