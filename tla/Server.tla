------------------------------- MODULE Server -------------------------------
(***************************************************************************)
(* The sockets of the protocol server and its answers: hpsdr_network_init, *)
(* each step of which may fail, the datagrams of several PCs, the byte     *)
(* stream of a TCP client, from which packets are put together piece by    *)
(* piece, and what hpsdr_network_process replies, to whom.  Of a session   *)
(* only whether one runs is kept; Session has the rest.                    *)
(***************************************************************************)
EXTENDS Integers, Sequences

CONSTANTS
    Peers,          \* UDP addresses of PCs
    Conns,          \* TCP connections of PCs
    None,           \* no connection, no address yet, no reply
    Frame,          \* pieces of a packet over TCP (1032 bytes)
    Datagrams,      \* what PCs send by UDP: pairs of a code and a length
    Messages,       \* what PCs send by TCP: codes
    RetryLimit,     \* empty UDP receives before accept() is tried (10)
    SetupMayFail,   \* may a call of hpsdr_network_init fail?
    Emulation       \* config.global.emulation

ASSUME EndpointAssumption ==
    /\ Peers \cap Conns = {}
    /\ None \notin Peers \cup Conns
ASSUME BoundAssumption == Frame \in Nat \ {0} /\ RetryLimit \in Nat
ASSUME SetupAssumption == SetupMayFail \in BOOLEAN /\ Emulation \in Nat

VARIABLES
    pc,                 \* where the network thread is
    up,                 \* calls of hpsdr_network_init that succeeded, see Calls
    sock_TCP_Client,
    conn,               \* what the kernel knows of each connection
    stream,             \* pieces the server has not read yet
    inbox,              \* the datagram that waits at the UDP socket
    udp_retries,
    addr_from,          \* sender of the last datagram
    buffer,             \* pieces of the packet read so far
    packet,             \* what the switch looks at: code and bytes_read
    running,            \* active_thread
    asker,              \* history: who sent the packet
    reply               \* what was answered to it: to whom, as which device

netVars == <<sock_TCP_Client, conn, stream>>
udpVars == <<inbox, udp_retries, addr_from>>
request == <<packet, asker>>
vars == <<pc, up, netVars, udpVars, buffer, request, running, reply>>

(***************************************************************************)
(* Packets.  The four codes with third byte 3 are told apart by the fourth *)
(* and by the length; start_2 stands for 0x0204feef and 0x0304feef,        *)
(* start_11 for 0x1104feef; no packet has been received yet of length 0.   *)
(***************************************************************************)
Codes == {"ep2", "discovery", "stop", "start", "start_2", "start_11",
          "program", "erase", "set_ip", "unknown"}
Lengths == {0, 63, 64, 264, 1032}

ASSUME PacketAssumption ==
    /\ Datagrams \subseteq Codes \X (Lengths \ {0})
    /\ Messages \subseteq Codes

\* Which packets the cases of the switch accept, and what for.
Control == {<<"stop", 64, "stop">>, <<"start", 64, "start">>, <<"start_2", 64, "start">>}
Maintenance ==
    {<<"program", 264, "program">>, <<"erase", 64, "erase">>}
        \cup {<<code, 63, "set_ip">> : code \in {"program", "erase", "set_ip"}}
\* Mutant of Cases: a discovery packet is as long as its answer.
Cases_Reply ==
    {<<"ep2", 1032, "ep2">>, <<"discovery", 60, "discovery">>} \cup Control \cup Maintenance
Cases ==
    {<<"ep2", 1032, "ep2">>, <<"discovery", 63, "discovery">>} \cup Control \cup Maintenance
Asks(what) == <<packet.code, packet.bytes_read, what>> \in Cases
AsksNothing == \A case \in Cases : <<packet.code, packet.bytes_read>> # <<case[1], case[2]>>

\* All packets over TCP have one length; four codes get the one of UDP back.
\* Mutant of TcpLength: every code does.
TcpLength_All(code) ==
    CASE code \in {"discovery", "set_ip"} -> 63
      [] code \in {"stop", "start", "start_2", "start_11", "erase"} -> 64
      [] code = "program" -> 264
      [] OTHER -> 1032
TcpLength(code) ==
    CASE code = "discovery" -> 63
      [] code \in {"stop", "start", "start_11"} -> 64
      [] OTHER -> 1032

Pieces(code) == [i \in 1 .. Frame |-> <<code, i>>]
NoPacket == [code |-> "unknown", bytes_read |-> 0]

Init ==
    /\ pc = "init" /\ up = 0
    /\ sock_TCP_Client = None
    /\ conn = [c \in Conns |-> "idle"]
    /\ stream = [c \in Conns |-> <<>>]
    /\ inbox = None
    /\ udp_retries = 0 /\ addr_from = None
    /\ buffer = <<>> /\ packet = NoPacket
    /\ running = FALSE
    /\ asker = None /\ reply = None

-----------------------------------------------------------------------------
(* hpsdr_network_init and hpsdr_network_deinit.                            *)

\* In this order: both sockets are made and bound, the second one listens.
Calls == <<"socket udp", "bind udp", "socket tcp", "bind tcp">>
HasUdp == up >= 1
Bound == up >= 2
Listening == up = Len(Calls)

Setup ==
    /\ pc = "init"
    /\ up' = up + 1
    /\ pc' = IF up + 1 = Len(Calls) THEN "recv" ELSE "init"
    /\ UNCHANGED <<netVars, udpVars, buffer, request, running, reply>>

\* EXIT_FAILURE, which main does not look at: the rest is never made up for.
SetupFails ==
    /\ pc = "init" /\ SetupMayFail
    /\ pc' = "recv"
    /\ UNCHANGED <<up, netVars, udpVars, buffer, request, running, reply>>

Deinit ==
    /\ pc = "deinit"
    /\ pc' = "gone"
    /\ up' = 0
    /\ conn' = [c \in Conns |-> IF c = sock_TCP_Client THEN "idle" ELSE conn[c]]
    /\ stream' = [c \in Conns |-> <<>>]
    /\ UNCHANGED <<sock_TCP_Client, udpVars, buffer, request, running, reply>>

-----------------------------------------------------------------------------
(* hpsdr_network_process: receiving.                                       *)

\* There is no UDP socket: an error that is not EAGAIN.
RecvFails ==
    /\ pc = "recv" /\ sock_TCP_Client = None
    /\ ~HasUdp
    /\ pc' = "deinit"
    /\ UNCHANGED <<up, netVars, udpVars, buffer, request, running, reply>>

Received(code, bytes_read, from) ==
    /\ packet' = [code |-> code, bytes_read |-> bytes_read]
    /\ asker' = from
    /\ reply' = None
    /\ pc' = "switch"

RecvUdp ==
    /\ pc = "recv" /\ sock_TCP_Client = None
    /\ Bound /\ inbox # None
    /\ Received(inbox.code, inbox.bytes_read, inbox.from)
    /\ addr_from' = inbox.from
    /\ udp_retries' = 0
    /\ inbox' = None
    /\ UNCHANGED <<up, netVars, buffer, running>>

\* Mutant of NextRetries: the counter is reset before accept() is tried.
NextRetries_Early == IF udp_retries + 1 > RetryLimit THEN 0 ELSE udp_retries + 1
NextRetries == udp_retries + 1

\* Nothing in time.  Again and again, and then a waiting client is accepted.
RecvTimeout ==
    /\ pc = "recv" /\ sock_TCP_Client = None
    /\ HasUdp /\ (Bound => inbox = None)
    /\ \/ /\ NextRetries <= RetryLimit
          /\ udp_retries' = NextRetries
          /\ UNCHANGED <<sock_TCP_Client, conn>>
       \/ /\ NextRetries > RetryLimit
          /\ udp_retries' = 0
          /\ \/ \E c \in Conns : /\ Listening /\ conn[c] = "pending"
                                 /\ sock_TCP_Client' = c
                                 /\ conn' = [conn EXCEPT ![c] = "open"]
             \/ /\ ~Listening \/ \A c \in Conns : conn[c] # "pending"
                /\ UNCHANGED <<sock_TCP_Client, conn>>
    /\ UNCHANGED <<pc, up, stream, inbox, addr_from, buffer, request, running, reply>>

\* Mutant of Missing: a whole packet is asked for every time.
Missing_Whole == Frame
Missing == Frame - Len(buffer)

\* Mutant of Complete: one recvfrom is enough.
Complete_Any(pieces) == pieces # <<>>
Complete(pieces) == Len(pieces) >= Frame

\* The loop over recvfrom: what is there, never more than what is missing.
ReadPieces ==
    /\ pc \in {"recv", "read"} /\ sock_TCP_Client # None
    /\ LET waiting == stream[sock_TCP_Client]
       IN  \E size \in 1 .. Len(waiting) :
             /\ size <= Missing
             /\ buffer' = buffer \o SubSeq(waiting, 1, size)
             /\ stream' = [stream EXCEPT ![sock_TCP_Client] =
                               SubSeq(waiting, size + 1, Len(waiting))]
    /\ pc' = IF Complete(buffer') THEN "frame" ELSE "read"
    /\ UNCHANGED <<up, sock_TCP_Client, conn, udpVars, request, running, reply>>

\* 1032 bytes have been read; the next packet begins at their start again.
FrameRead ==
    /\ pc = "frame"
    /\ Received(buffer[1][1], TcpLength(buffer[1][1]), sock_TCP_Client)
    /\ buffer' = <<>>
    /\ UNCHANGED <<up, netVars, udpVars, running>>

\* EAGAIN, or size 0 because the client has left: the loop tries again, and
\* nothing else is received as long as the client does not send.
ReadAgain ==
    /\ pc \in {"recv", "read"} /\ sock_TCP_Client # None
    /\ conn[sock_TCP_Client] \in {"open", "eof"}
    /\ stream[sock_TCP_Client] = <<>>
    /\ UNCHANGED vars

ReadFails ==
    /\ pc \in {"recv", "read"} /\ sock_TCP_Client # None
    /\ conn[sock_TCP_Client] = "reset"
    /\ pc' = "deinit"
    /\ UNCHANGED <<up, netVars, udpVars, buffer, request, running, reply>>

-----------------------------------------------------------------------------
(* hpsdr_network_process: the cases of the switch.                         *)

Close ==
    /\ sock_TCP_Client' = None
    /\ conn' = [c \in Conns |-> IF c = sock_TCP_Client THEN "idle" ELSE conn[c]]
    /\ stream' = [c \in Conns |-> IF c = sock_TCP_Client THEN <<>> ELSE stream[c]]

\* Wrong lengths and unknown codes are passed over; an EP2 packet changes
\* settings and the ring, see Settings and Radio.
Pass ==
    /\ pc = "switch" /\ (AsksNothing \/ Asks("ep2"))
    /\ pc' = "recv"
    /\ UNCHANGED <<up, netVars, udpVars, buffer, request, running, reply>>

\* device_emulation, which is never assigned, and what a Hermes Lite 2 says.
device_emulation == 0
Device == IF device_emulation = 1006 THEN 6 ELSE device_emulation

\* Over UDP the answer goes to addr_from; over TCP to the client, which is
\* then closed, or nowhere if a session runs.
Discovery ==
    /\ pc = "switch" /\ Asks("discovery")
    /\ \/ /\ sock_TCP_Client = None
          /\ reply' = [to |-> addr_from, device |-> Device]
          /\ UNCHANGED netVars
       \/ /\ sock_TCP_Client # None /\ ~running
          /\ reply' = [to |-> sock_TCP_Client, device |-> Device]
          /\ Close
       \/ /\ sock_TCP_Client # None /\ running
          /\ UNCHANGED <<netVars, reply>>
    /\ pc' = "recv"
    /\ UNCHANGED <<up, udpVars, buffer, request, running>>

Stop ==
    /\ pc = "switch" /\ Asks("stop")
    /\ running' = FALSE
    /\ Close
    /\ pc' = "recv"
    /\ UNCHANGED <<up, udpVars, buffer, request, reply>>

Start ==
    /\ pc = "switch" /\ Asks("start")
    /\ running' = TRUE
    /\ pc' = "recv"
    /\ UNCHANGED <<up, netVars, udpVars, buffer, request, reply>>

\* hpsdr_program, hpsdr_erase_packet and hpsdr_set_ip make the answer in the
\* buffer; it always goes to addr_from, whatever the packet came by.
Maintain ==
    /\ pc = "switch" /\ \E what \in {"program", "erase", "set_ip"} : Asks(what)
    /\ reply' = [to |-> addr_from, device |-> None]
    /\ pc' = "recv"
    /\ UNCHANGED <<up, netVars, udpVars, buffer, request, running>>

-----------------------------------------------------------------------------
(* The PCs and the kernel.                                                 *)

\* One datagram waits; the kernel drops more.
SendUdp(p, code, bytes_read) ==
    /\ pc # "gone" /\ Bound /\ inbox = None
    /\ inbox' = [from |-> p, code |-> code, bytes_read |-> bytes_read]
    /\ UNCHANGED <<pc, up, netVars, udp_retries, addr_from, buffer, request, running,
                   reply>>

Connect(c) ==
    /\ pc # "gone" /\ Listening /\ conn[c] = "idle"
    /\ conn' = [conn EXCEPT ![c] = "pending"]
    /\ UNCHANGED <<pc, up, sock_TCP_Client, stream, udpVars, buffer, request,
                   running, reply>>

\* A PC sends whole packets; the bound lets the second follow the first.
SendTcp(c, code) ==
    /\ conn[c] \in {"pending", "open"} /\ Len(stream[c]) < Frame
    /\ stream' = [stream EXCEPT ![c] = stream[c] \o Pieces(code)]
    /\ UNCHANGED <<pc, up, sock_TCP_Client, conn, udpVars, buffer, request, running,
                   reply>>

\* A PC leaves: what it sent can still be read, or is lost with the connection.
Leave(c) ==
    /\ conn[c] = "open"
    /\ \/ conn' = [conn EXCEPT ![c] = "eof"] /\ UNCHANGED stream
       \/ /\ conn' = [conn EXCEPT ![c] = "reset"]
          /\ stream' = [stream EXCEPT ![c] = <<>>]
    /\ UNCHANGED <<pc, up, sock_TCP_Client, udpVars, buffer, request, running, reply>>

-----------------------------------------------------------------------------
Receive == RecvFails \/ RecvUdp \/ RecvTimeout \/ ReadPieces \/ ReadAgain
           \/ FrameRead \/ ReadFails
Answer == Pass \/ Discovery \/ Stop \/ Start \/ Maintain
NetStep == Setup \/ Deinit \/ Receive \/ Answer

Environment ==
    \/ \E p \in Peers, d \in Datagrams : SendUdp(p, d[1], d[2])
    \/ \E c \in Conns : \/ Connect(c) \/ Leave(c)
                        \/ \E code \in Messages : SendTcp(c, code)

Finished == pc = "gone" /\ UNCHANGED vars

Next == NetStep \/ SetupFails \/ Environment \/ Finished

Spec == Init /\ [][Next]_vars

\* The network thread runs; nothing is asked of the PCs.
FairSpec == Spec /\ WF_vars(NetStep)

-----------------------------------------------------------------------------
TypeOK ==
    /\ pc \in {"init", "recv", "read", "frame", "switch", "deinit", "gone"}
    /\ up \in 0 .. Len(Calls)
    /\ sock_TCP_Client \in Conns \cup {None}
    /\ conn \in [Conns -> {"idle", "pending", "open", "eof", "reset"}]
    /\ \A c \in Conns : Len(stream[c]) < 2 * Frame
    /\ udp_retries \in 0 .. RetryLimit
    /\ addr_from \in Peers \cup {None} /\ asker \in Peers \cup Conns \cup {None}
    /\ Len(buffer) <= Frame
    /\ packet.code \in Codes /\ packet.bytes_read \in Lengths
    /\ running \in BOOLEAN

\* What is taken for a packet over TCP is one: all bytes of one packet of one
\* client from the first to the last, however the stream was cut, over any
\* number of packets and clients.
FrameAligned == pc = "frame" => buffer = Pieces(buffer[1][1])

\* Who is answered is who asked: the answers that always go to addr_from are
\* never given to a packet that came by TCP, where addr_from is the sender of
\* some older datagram.
ReplyToAsker == reply # None => reply.to = asker

\* A PC that waits with a discovery datagram is answered, unless a TCP client
\* holds the server, which then reads nothing else, or the server ends.
UdpAnswered ==
    \A p \in Peers :
        inbox = [from |-> p, code |-> "discovery", bytes_read |-> 63]
            ~> \/ reply # None /\ reply.to = p
               \/ sock_TCP_Client # None \/ pc = "gone"

\* A PC that connects is accepted, unless datagrams keep coming or other
\* clients do, or the server ends.
ClientAccepted ==
    \A c \in Conns :
        conn[c] = "pending" ~> \/ conn[c] # "pending"
                               \/ sock_TCP_Client # None \/ inbox # None
                               \/ pc = "gone"

(***************************************************************************)
(* The inductive invariant behind the safety properties: what is taken and *)
(* not taken of a stream, and where answers would go.                      *)
(***************************************************************************)
Datagram == [from : Peers, code : Codes, bytes_read : Lengths]
Piece == Codes \X (1 .. Frame)

Shapes ==
    /\ TypeOK
    /\ pc = "init" => up < Len(Calls)
    /\ stream \in [Conns -> Seq(Piece)] /\ buffer \in Seq(Piece)
    /\ inbox \in Datagram \cup {None}

\* A client is connected until it is closed; what is read is empty between
\* packets, incomplete while pieces are read, and then complete.
Connected ==
    /\ sock_TCP_Client # None /\ pc # "gone"
          => conn[sock_TCP_Client] \in {"open", "eof", "reset"}
    /\ \A c \in Conns : /\ conn[c] = "idle" => stream[c] = <<>>
                        /\ conn[c] = "open" => c = sock_TCP_Client
    /\ pc \in {"init", "recv", "switch"} => buffer = <<>>
    /\ pc \in {"read", "frame"} => sock_TCP_Client # None
    /\ pc = "read" => Len(buffer) < Frame
    /\ pc = "frame" => Len(buffer) = Frame

\* Piece i of two packets that follow each other, and how many of c's have
\* been taken.
Sent(first, second, i) == IF i <= Frame THEN <<first, i>> ELSE <<second, i - Frame>>
Taken(c) == IF c = sock_TCP_Client THEN Len(buffer) ELSE 0

\* What was taken of a stream and what was not yet are the pieces of at most
\* two packets, from the first piece on; of packets of which none was cut off
\* by a reset as long as the client may send.
InOrder(c, first, second) ==
    /\ \A i \in 1 .. Len(stream[c]) : stream[c][i] = Sent(first, second, Taken(c) + i)
    /\ c = sock_TCP_Client
          => \A i \in 1 .. Len(buffer) : buffer[i] = Sent(first, second, i)
Uncut(c) ==
    conn[c] \in {"pending", "open"}
        => Taken(c) + Len(stream[c]) \in {0, Frame, 2 * Frame}
Framed(c) == (\E first, second \in Codes : InOrder(c, first, second)) /\ Uncut(c)

\* The packet in the switch came from the client that is connected, with the
\* length of its code, or from addr_from.
Asked ==
    pc = "switch" =>
        /\ asker = IF sock_TCP_Client = None THEN addr_from ELSE sock_TCP_Client
        /\ sock_TCP_Client # None => packet.bytes_read = TcpLength(packet.code)

ServerInv ==
    Shapes /\ Connected /\ (\A c \in Conns : Framed(c)) /\ Asked /\ ReplyToAsker

\* The radio presents itself as the device that main announces after reading
\* the configuration.
AnswersAsConfigured == reply # None /\ reply.device # None => reply.device = Emulation
=============================================================================
