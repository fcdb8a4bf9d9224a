------------------------------ MODULE Session ------------------------------
(***************************************************************************)
(* The start/stop handshake of the hpsdr protocol server: the network      *)
(* thread (hpsdr_network_process, called in a loop by main) and the        *)
(* detached ep6 threads it creates (ep6_handler), which stream packets to  *)
(* the PC through hpsdr_network_send.                                      *)
(*                                                                         *)
(* The threads share plain C globals: enable_thread, active_thread,        *)
(* sock_TCP_Client, addr, seqnum, last_seqnum and the transmit ring.  One  *)
(* action is a stretch of code with at most one access to a global that    *)
(* another thread may write at that moment.                                *)
(***************************************************************************)
EXTENDS Integers, FiniteSets

CONSTANTS
    Peers,          \* UDP addresses of PCs
    Conns,          \* TCP connections of PCs
    Threads,        \* identities of ep6 threads alive at one time
    None,           \* no connection (-1 in C), no address yet
    RetryLimit,     \* empty UDP receives before accept() is tried (10 in C)
    SeqMod,         \* EP2 sequence numbers are 0 .. SeqMod-1 (2^32 in C)
    SpawnMayFail    \* may pthread_create fail?

ASSUME EndpointAssumption ==
    /\ Peers \cap Conns = {}
    /\ None \notin Peers \cup Conns
ASSUME RetryAssumption == RetryLimit \in Nat
ASSUME SeqAssumption == SeqMod \in Nat \ {0}
ASSUME SpawnAssumption == SpawnMayFail \in BOOLEAN

VARIABLES
    netpc,              \* where the network thread is
    ep6,                \* where each ep6 thread is
    enable_thread,
    active_thread,
    sock_TCP_Client,    \* the accepted connection or None
    conn,               \* what the kernel knows of each connection
    stalled,            \* connections whose PC has stopped reading
    addr,               \* where UDP packets of the stream go
    addr_from,          \* sender of the last UDP packet
    udp_retries,
    buf_seq,            \* sequence number in the receive buffer
    seqnum,
    last_seqnum,
    silent,             \* is the transmit ring all zero?
    via                 \* history: who sent the last START that was obeyed

netVars  == <<enable_thread, active_thread, sock_TCP_Client, addr>>
rcvVars  == <<addr_from, udp_retries>>
seqVars  == <<buf_seq, seqnum, last_seqnum>>
envVars  == <<conn, stalled>>
vars == <<netpc, ep6, netVars, envVars, rcvVars, seqVars, silent, via>>

Seq32 == 0 .. SeqMod - 1
NoSeq == SeqMod - 1             \* 0xffffffff
NetPcs == {"recv", "ep2check", "gate", "store", "discovery", "stop",
           "stopwait", "start", "startwait", "spawn", "eofloop", "deinit",
           "exit", "sigpipe", "gone"}
Ep6Pcs == {"none", "set", "loop", "send", "sendtcp", "sendudp", "leave",
           "reset", "resetlast", "clear", "sigpipe"}
ConnStates == {"idle", "pending", "open", "eof", "reset", "broken", "closed"}

(***************************************************************************)
(* A thread streams from its creation until it clears active_thread; what  *)
(* it does after that (its tail) may overlap the next session.             *)
(***************************************************************************)
Streaming(t) == ep6[t] \in {"set", "loop", "send", "sendtcp", "sendudp",
                            "leave", "sigpipe"}
InTail(t) == ep6[t] \in {"reset", "resetlast", "clear"}
Running == netpc \notin {"deinit", "exit", "sigpipe", "gone"}

Init ==
    /\ netpc = "recv"
    /\ ep6 = [t \in Threads |-> "none"]
    /\ enable_thread = 0 /\ active_thread = 0
    /\ sock_TCP_Client = None
    /\ conn = [c \in Conns |-> "idle"]
    /\ stalled = {}
    /\ addr = None /\ addr_from = None
    /\ udp_retries = 0
    /\ buf_seq = 0 /\ seqnum = 0 /\ last_seqnum = NoSeq
    /\ silent \in BOOLEAN           \* malloc does not clear the ring
    /\ via = None

-----------------------------------------------------------------------------
(* hpsdr_network_process: receiving one packet.                            *)

\* What a packet asks for; "other" are the packets that change no state
\* modelled here: wrong length, unknown code, program, erase and set ip.
Handler == [ep2 |-> "ep2check", discovery |-> "discovery", stop |-> "stop",
            start |-> "start", other |-> "recv"]

Dispatch(kind) ==
    /\ netpc = "recv"
    /\ netpc' = Handler[kind]
    /\ IF kind = "ep2"
         THEN \E s \in Seq32 : /\ buf_seq' = s
                               /\ seqnum' = s
                               /\ UNCHANGED last_seqnum
         ELSE UNCHANGED seqVars

RecvUdp(p, kind) ==
    /\ sock_TCP_Client = None
    /\ Dispatch(kind)
    /\ addr_from' = p
    /\ udp_retries' = 0
    /\ UNCHANGED <<ep6, netVars, envVars, silent, via>>

RecvTcp(kind) ==
    /\ sock_TCP_Client # None
    /\ conn[sock_TCP_Client] = "open"
    /\ Dispatch(kind)
    /\ UNCHANGED <<ep6, netVars, envVars, rcvVars, silent, via>>

\* Mutant of NextRetries: the counter is not reset after an accept().
NextRetries_NoReset == udp_retries + 1
NextRetries == IF udp_retries + 1 > RetryLimit THEN 0 ELSE udp_retries + 1

\* Nothing arrived by UDP, or an empty datagram, which sets addr_from all the
\* same: count it, and accept a client once in a while.
RecvTimeout ==
    /\ netpc = "recv"
    /\ sock_TCP_Client = None
    /\ udp_retries' = NextRetries
    /\ \/ \E c \in Conns : /\ udp_retries + 1 > RetryLimit
                           /\ conn[c] = "pending"
                           /\ sock_TCP_Client' = c
                           /\ conn' = [conn EXCEPT ![c] = "open"]
       \/ /\ udp_retries + 1 > RetryLimit => \A c \in Conns : conn[c] # "pending"
          /\ UNCHANGED <<sock_TCP_Client, conn>>
    /\ addr_from' \in {addr_from} \cup Peers
    /\ UNCHANGED <<netpc, ep6, enable_thread, active_thread, addr, stalled,
                   seqVars, silent, via>>

\* recvfrom returns 0 from now on, and the read loop never ends.
RecvEof ==
    /\ netpc = "recv"
    /\ sock_TCP_Client # None
    /\ conn[sock_TCP_Client] \in {"eof", "broken"}
    /\ netpc' = "eofloop"
    /\ UNCHANGED <<ep6, netVars, envVars, rcvVars, seqVars, silent, via>>

EofSpin == netpc = "eofloop" /\ UNCHANGED vars

\* recvfrom fails with ECONNRESET: the process ends.
RecvError ==
    /\ netpc = "recv"
    /\ sock_TCP_Client # None
    /\ conn[sock_TCP_Client] = "reset"
    /\ netpc' = "deinit"
    /\ UNCHANGED <<ep6, netVars, envVars, rcvVars, seqVars, silent, via>>

-----------------------------------------------------------------------------
(* hpsdr_network_process: one action per step of a packet's handler.       *)

\* last_seqnum = seqnum, where the compiler may or may not have kept the
\* number it stored in the shared seqnum in a register.
Ep2Check ==
    /\ netpc = "ep2check"
    /\ last_seqnum' \in {seqnum, buf_seq}
    /\ netpc' = "gate"
    /\ UNCHANGED <<ep6, netVars, envVars, rcvVars, buf_seq, seqnum, silent,
                   via>>

MayStore == active_thread = 1

\* After both ep2_handler calls: if (active_thread) samples_rcv(buffer).
Gate ==
    /\ netpc = "gate"
    /\ netpc' = IF MayStore THEN "store" ELSE "recv"
    /\ UNCHANGED <<ep6, netVars, envVars, rcvVars, seqVars, silent, via>>

Store ==
    /\ netpc = "store"
    /\ silent' = FALSE
    /\ netpc' = "recv"
    /\ UNCHANGED <<ep6, netVars, envVars, rcvVars, seqVars, via>>

\* Mutant of ClosesAfterReply: the connection is closed though it streams.
ClosesAfterReply_Always == sock_TCP_Client # None
ClosesAfterReply == sock_TCP_Client # None /\ active_thread = 0

\* Discovery over UDP, or over TCP while the radio runs: nothing changes.
DiscoveryStay ==
    /\ netpc = "discovery"
    /\ ~ClosesAfterReply
    /\ netpc' = "recv"
    /\ UNCHANGED <<ep6, netVars, envVars, rcvVars, seqVars, silent, via>>

\* Discovery over TCP while the radio is stopped: reply, then close.
DiscoveryClose ==
    /\ netpc = "discovery"
    /\ ClosesAfterReply
    /\ conn[sock_TCP_Client] # "broken"
    /\ netpc' = "recv"
    /\ sock_TCP_Client' = None
    /\ conn' = [conn EXCEPT ![sock_TCP_Client] = "idle"]
    /\ stalled' = stalled \ {sock_TCP_Client}
    /\ UNCHANGED <<ep6, enable_thread, active_thread, addr, rcvVars, seqVars,
                   silent, via>>

\* The same, but the PC is gone: send raises SIGPIPE.
DiscoveryPipe ==
    /\ netpc = "discovery"
    /\ ClosesAfterReply
    /\ conn[sock_TCP_Client] = "broken"
    /\ netpc' = "sigpipe"
    /\ UNCHANGED <<ep6, netVars, envVars, rcvVars, seqVars, silent, via>>

\* Mutant of Disabled: the flag the ep6 thread looks at is left alone.
Disabled_Forgotten == enable_thread
Disabled == 0

\* STOP and START both first tell the running thread to end ...
Disable ==
    /\ netpc \in {"stop", "start"}
    /\ enable_thread' = Disabled
    /\ netpc' = IF netpc = "stop" THEN "stopwait" ELSE "startwait"
    /\ UNCHANGED <<ep6, active_thread, sock_TCP_Client, addr, envVars,
                   rcvVars, seqVars, silent, via>>

\* Mutant of Ended: nobody waits for the thread.
Ended_Assumed == TRUE
Ended == active_thread = 0

\* ... and wait until it has: while (active_thread) usleep(1000).
WaitActive ==
    /\ netpc \in {"stopwait", "startwait"}
    /\ ~Ended
    /\ UNCHANGED vars

StopDone ==
    /\ netpc = "stopwait"
    /\ Ended
    /\ netpc' = "recv"
    /\ sock_TCP_Client' = None
    /\ conn' = [c \in Conns |-> IF c = sock_TCP_Client THEN "idle" ELSE conn[c]]
    /\ stalled' = stalled \ {sock_TCP_Client}
    /\ UNCHANGED <<ep6, enable_thread, active_thread, addr, rcvVars, seqVars,
                   silent, via>>

\* Mutant of Destination: the first session's address is kept.
Destination_Kept == IF addr = None THEN addr_from ELSE addr
Destination == addr_from

StartArm ==
    /\ netpc = "startwait"
    /\ Ended
    /\ addr' = Destination
    /\ enable_thread' = 1
    /\ active_thread' = 1
    /\ via' = IF sock_TCP_Client = None THEN addr_from ELSE sock_TCP_Client
    /\ netpc' = "spawn"
    /\ UNCHANGED <<ep6, sock_TCP_Client, envVars, rcvVars, seqVars, silent>>

Spawn(t) ==
    /\ netpc = "spawn"
    /\ ep6[t] = "none"
    /\ ep6' = [ep6 EXCEPT ![t] = "set"]
    /\ netpc' = "recv"
    /\ UNCHANGED <<netVars, envVars, rcvVars, seqVars, silent, via>>

\* pthread_create reports failure by a positive number; the code tests < 0.
SpawnFail ==
    /\ netpc = "spawn"
    /\ SpawnMayFail
    /\ netpc' = "recv"
    /\ UNCHANGED <<ep6, netVars, envVars, rcvVars, seqVars, silent, via>>

\* hpsdr_network_deinit closes the sockets; the variables keep their values.
Deinit ==
    /\ netpc = "deinit"
    /\ netpc' = "exit"
    /\ conn' = [c \in Conns |-> IF c = sock_TCP_Client THEN "closed" ELSE conn[c]]
    /\ UNCHANGED <<ep6, netVars, stalled, rcvVars, seqVars, silent, via>>

\* main returns, or the SIGPIPE handler (terminate) reaches exit(1).
Exit ==
    /\ \/ netpc \in {"exit", "sigpipe"}
       \/ \E t \in Threads : ep6[t] = "sigpipe"
    /\ netpc' = "gone"
    /\ ep6' = [t \in Threads |-> "none"]
    /\ UNCHANGED <<netVars, envVars, rcvVars, seqVars, silent, via>>

-----------------------------------------------------------------------------
(* ep6_handler: one action per step of an ep6 thread.                      *)

Goto(t, pc) == ep6' = [ep6 EXCEPT ![t] = pc]

\* iqsender_set(), which is a component of its own.
Ep6Set(t) ==
    /\ ep6[t] = "set"
    /\ Goto(t, "loop")
    /\ UNCHANGED <<netpc, netVars, envVars, rcvVars, seqVars, silent, via>>

\* if (!enable_thread) break; else build a packet and sleep.
Ep6Loop(t) ==
    /\ ep6[t] = "loop"
    /\ Goto(t, IF enable_thread = 0 THEN "leave" ELSE "send")
    /\ UNCHANGED <<netpc, netVars, envVars, rcvVars, seqVars, silent, via>>

\* hpsdr_network_send tests sock_TCP_Client, then reads it again to send.
Ep6Choose(t) ==
    /\ ep6[t] = "send"
    /\ Goto(t, IF sock_TCP_Client = None THEN "sendudp" ELSE "sendtcp")
    /\ UNCHANGED <<netpc, netVars, envVars, rcvVars, seqVars, silent, via>>

Ep6SendUdp(t) ==
    /\ ep6[t] = "sendudp"
    /\ Goto(t, "loop")
    /\ UNCHANGED <<netpc, netVars, envVars, rcvVars, seqVars, silent, via>>

\* The blocking sendto on a connection: it waits while the PC does not read;
\* it fails, once, with ECONNRESET; on a closed descriptor it fails too.
Ep6SendTcp(t) ==
    /\ ep6[t] = "sendtcp"
    /\ \/ /\ sock_TCP_Client # None
          /\ conn[sock_TCP_Client] \in {"open", "eof"}
          /\ sock_TCP_Client \notin stalled
          /\ UNCHANGED conn
       \/ /\ sock_TCP_Client # None
          /\ conn[sock_TCP_Client] = "reset"
          /\ conn' = [conn EXCEPT ![sock_TCP_Client] = "broken"]
       \/ /\ sock_TCP_Client = None \/ conn[sock_TCP_Client] \in {"idle", "closed"}
          /\ UNCHANGED conn
    /\ Goto(t, "loop")
    /\ UNCHANGED <<netpc, netVars, stalled, rcvVars, seqVars, silent, via>>

\* On a connection the PC is known to have left, sendto raises SIGPIPE, and
\* the handler main installed for every signal ends the process.
Ep6SendPipe(t) ==
    /\ ep6[t] = "sendtcp"
    /\ sock_TCP_Client # None
    /\ conn[sock_TCP_Client] = "broken"
    /\ Goto(t, "sigpipe")
    /\ UNCHANGED <<netpc, netVars, envVars, rcvVars, seqVars, silent, via>>

\* Mutant of LeftActive: the thread ends without saying so.
LeftActive_Forgotten == active_thread
LeftActive == 0

Ep6Leave(t) ==
    /\ ep6[t] = "leave"
    /\ active_thread' = LeftActive
    /\ Goto(t, "reset")
    /\ UNCHANGED <<netpc, enable_thread, sock_TCP_Client, addr, envVars,
                   rcvVars, seqVars, silent, via>>

Ep6Reset(t) ==
    /\ ep6[t] = "reset"
    /\ seqnum' = 0
    /\ Goto(t, "resetlast")
    /\ UNCHANGED <<netpc, netVars, envVars, rcvVars, buf_seq, last_seqnum,
                   silent, via>>

Ep6ResetLast(t) ==
    /\ ep6[t] = "resetlast"
    /\ last_seqnum' = NoSeq
    /\ Goto(t, "clear")
    /\ UNCHANGED <<netpc, netVars, envVars, rcvVars, buf_seq, seqnum, silent,
                   via>>

\* Mutant of Cleared: the ring keeps the samples.
Cleared_Forgotten == silent
Cleared == TRUE

\* iqsender_clear_buffer()
Ep6Clear(t) ==
    /\ ep6[t] = "clear"
    /\ silent' = Cleared
    /\ Goto(t, "none")
    /\ UNCHANGED <<netpc, netVars, envVars, rcvVars, seqVars, via>>

-----------------------------------------------------------------------------
(* The PCs and the kernel.                                                 *)

Connect(c) ==
    /\ netpc # "gone"
    /\ conn[c] = "idle"
    /\ conn' = [conn EXCEPT ![c] = "pending"]
    /\ UNCHANGED <<netpc, ep6, netVars, stalled, rcvVars, seqVars, silent, via>>

\* An accepted PC shuts down its side: receives return 0, sends still succeed.
PeerClose(c) ==
    /\ netpc # "gone"
    /\ conn[c] = "open"
    /\ conn' = [conn EXCEPT ![c] = "eof"]
    /\ UNCHANGED <<netpc, ep6, netVars, stalled, rcvVars, seqVars, silent, via>>

\* An accepted PC resets the connection; the error is ECONNRESET and is
\* reported once, or, after a close, EPIPE.
PeerReset(c) ==
    /\ netpc # "gone"
    /\ conn[c] \in {"open", "eof"}
    /\ conn' = [conn EXCEPT ![c] = IF conn[c] = "open" THEN "reset" ELSE "broken"]
    /\ stalled' = stalled \ {c}
    /\ UNCHANGED <<netpc, ep6, netVars, rcvVars, seqVars, silent, via>>

Stall(c) ==
    /\ netpc # "gone"
    /\ conn[c] \in {"open", "eof"}
    /\ stalled' = IF c \in stalled THEN stalled \ {c} ELSE stalled \cup {c}
    /\ UNCHANGED <<netpc, ep6, netVars, conn, rcvVars, seqVars, silent, via>>

-----------------------------------------------------------------------------
NetStep ==
    \/ RecvTimeout \/ RecvEof \/ EofSpin \/ RecvError
    \/ Ep2Check \/ Gate \/ Store
    \/ DiscoveryStay \/ DiscoveryClose \/ DiscoveryPipe
    \/ Disable \/ WaitActive \/ StopDone \/ StartArm
    \/ \E t \in Threads : Spawn(t)
    \/ SpawnFail \/ Deinit

Receive ==
    \E kind \in DOMAIN Handler : RecvTcp(kind) \/ \E p \in Peers : RecvUdp(p, kind)

Ep6Step(t) ==
    \/ Ep6Set(t) \/ Ep6Loop(t) \/ Ep6Choose(t)
    \/ Ep6SendUdp(t) \/ Ep6SendTcp(t) \/ Ep6SendPipe(t)
    \/ Ep6Leave(t) \/ Ep6Reset(t) \/ Ep6ResetLast(t) \/ Ep6Clear(t)

Environment ==
    \E c \in Conns : Connect(c) \/ PeerClose(c) \/ PeerReset(c) \/ Stall(c)

Finished == netpc = "gone" /\ UNCHANGED vars

Next ==
    \/ NetStep \/ Receive
    \/ \E t \in Threads : Ep6Step(t)
    \/ Exit \/ Environment \/ Finished

Spec == Init /\ [][Next]_vars

\* The scheduler runs every thread that can run; nothing is asked of the PCs.
FairSpec ==
    /\ Spec
    /\ WF_vars(NetStep)
    /\ WF_vars(Exit)
    /\ \A t \in Threads : WF_vars(Ep6Step(t))

-----------------------------------------------------------------------------
TypeOK ==
    /\ netpc \in NetPcs
    /\ ep6 \in [Threads -> Ep6Pcs]
    /\ enable_thread \in {0, 1} /\ active_thread \in {0, 1}
    /\ sock_TCP_Client \in Conns \cup {None}
    /\ conn \in [Conns -> ConnStates]
    /\ stalled \subseteq Conns
    /\ addr \in Peers \cup {None} /\ addr_from \in Peers \cup {None}
    /\ udp_retries \in 0 .. RetryLimit
    /\ buf_seq \in Seq32 /\ seqnum \in Seq32 /\ last_seqnum \in Seq32
    /\ silent \in BOOLEAN
    /\ via \in Peers \cup Conns \cup {None}

\* Never two ep6 threads that stream at once: the enable/active handshake of
\* STOP and START (network.c) with the end of ep6_handler keeps sessions apart
\* although the threads are detached and never joined.
OneStreamer ==
    \A t, u \in Threads : Streaming(t) /\ Streaming(u) => t = u

\* active_thread, which START and STOP wait for and discovery reports, is set
\* exactly while a thread streams or is about to be created.
ActiveMeansStreaming ==
    Running => (active_thread = 1 <=> netpc = "spawn" \/ \E t \in Threads : Streaming(t))

\* hpsdr_network_send tests sock_TCP_Client and reads it again: in between
\* nobody has closed the connection, unless the process is ending.
SendSocketOpen ==
    \A t \in Threads : ep6[t] = "sendtcp" /\ Running =>
        /\ sock_TCP_Client # None
        /\ conn[sock_TCP_Client] \in {"open", "eof", "reset", "broken"}

\* A streamed packet goes to the PC whose START was obeyed, or to a TCP client
\* accepted since: never to another UDP address, although addr and addr_from
\* are shared, and never to UDP when the START came by TCP.
StreamGoesToStarter ==
    \A t \in Threads : Running =>
        /\ ep6[t] = "sendudp" => via \in Peers /\ addr = via
        /\ ep6[t] = "sendtcp" /\ via \in Conns => sock_TCP_Client = via

\* After the first session, whenever no session runs and no thread is still
\* cleaning up, the transmitter is fed silence: no EP2 samples survive a STOP.
QuietWhenStopped ==
    via # None /\ active_thread = 0 /\ (\A t \in Threads : ~InTail(t)) /\ Running
        => silent

\* The STOP and START handlers' wait for active_thread ends, unless the PC
\* that is streamed to has stopped reading its TCP connection.
WaitEnds ==
    netpc \in {"stopwait", "startwait"}
        ~> netpc \notin {"stopwait", "startwait"} \/ stalled # {}

\* After a STOP the ring is cleared, on the same condition.
StopSilences ==
    netpc = "stopwait" /\ via # None ~> silent \/ ~Running \/ stalled # {}

(***************************************************************************)
(* The inductive invariant behind these: what each thread may rely on at   *)
(* the points where it does not look at the shared variables itself.       *)
(***************************************************************************)
Flags ==
    /\ \A t \in Threads : Streaming(t) => active_thread = 1
    /\ \A t \in Threads : ep6[t] = "leave" => enable_thread = 0
    /\ enable_thread = 0 /\ active_thread = 1
           => netpc \in {"stopwait", "startwait", "gone"}
    /\ netpc = "store" => enable_thread = 1 /\ active_thread = 1
    /\ netpc = "spawn" => /\ enable_thread = 1 /\ active_thread = 1
                          /\ \A t \in Threads : ~Streaming(t)

ClientUsable ==
    sock_TCP_Client # None /\ netpc \notin {"exit", "gone"}
        => conn[sock_TCP_Client] \in {"open", "eof", "reset", "broken"}

Destinations ==
    /\ netpc = "spawn" \/ (\E t \in Threads : Streaming(t))
           => \/ via \in Peers /\ addr = via
              \/ via \in Conns /\ sock_TCP_Client = via
    /\ netpc \in {"start", "startwait"} /\ sock_TCP_Client = None
           => addr_from \in Peers
    /\ \A t \in Threads : ep6[t] = "sendudp" => via \in Peers
    /\ \A t \in Threads : ep6[t] = "sendtcp" => sock_TCP_Client # None

\* TypeOK and the parts above, with the three safety invariants that need no
\* further help.
IInv ==
    /\ TypeOK /\ OneStreamer /\ Flags /\ ClientUsable /\ Destinations
    /\ QuietWhenStopped
    /\ ~SpawnMayFail => ActiveMeansStreaming

\* What the handshake as a whole promises, see StreamService: one client at a
\* time, samples only from a client that is being served.
Served == IF netpc = "spawn" \/ \E t \in Threads : Streaming(t) THEN via ELSE None
Service == INSTANCE StreamService
             WITH Clients <- Peers \cup Conns, client <- Served, samples <- ~silent
ServiceSpec == Service!Spec

\* What the comment at last_seqnum, seqnum says: "sequence number of received
\* packet", at the moment it is compared.
SeqnumIsReceived == netpc = "ep2check" => seqnum = buf_seq

\* What hpsdr_network_send does with a failed TCP send: it logs and goes on.
SendErrorIsSurvived == \A t \in Threads : ep6[t] # "sigpipe"
=============================================================================
