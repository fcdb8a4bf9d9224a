---------------------------- MODULE ServerProofs ----------------------------
(***************************************************************************)
(* Proofs about Server for any number of PCs and connections, every size   *)
(* of a packet and every choice of what PCs send: packets over TCP are put *)
(* together whole, and who is answered is who asked.                       *)
(***************************************************************************)
EXTENDS Server, SequenceTheorems, TLAPS

-----------------------------------------------------------------------------
(* Sequences: taking a few elements off one and adding them to another.    *)

\* The elements that are taken come behind those that are there.
LEMMA TakenPart ==
  ASSUME NEW S, NEW s \in Seq(S), NEW t \in Seq(S), NEW size \in 1 .. Len(t)
  PROVE  LET u == s \o SubSeq(t, 1, size)
         IN  /\ u \in Seq(S)
             /\ Len(u) = Len(s) + size
             /\ \A i \in 1 .. Len(u) :
                   u[i] = IF i <= Len(s) THEN s[i] ELSE t[i - Len(s)]
<1>1. /\ SubSeq(t, 1, size) \in Seq(S) /\ Len(SubSeq(t, 1, size)) = size
      /\ \A i \in 1 .. size : SubSeq(t, 1, size)[i] = t[i]
  BY SubSeqProperties
<1> QED
  BY <1>1, ConcatProperties

\* What is left are the others, moved to the front.
LEMMA LeftPart ==
  ASSUME NEW S, NEW t \in Seq(S), NEW size \in 1 .. Len(t)
  PROVE  LET u == SubSeq(t, size + 1, Len(t))
         IN  /\ u \in Seq(S)
             /\ Len(u) = Len(t) - size
             /\ \A i \in 1 .. Len(u) : u[i] = t[size + i]
  BY SubSeqProperties

\* A packet that is sent has as many pieces as any.
LEMMA PiecesType ==
  ASSUME NEW code \in Codes
  PROVE  /\ Pieces(code) \in Seq(Piece)
         /\ Len(Pieces(code)) = Frame
         /\ \A i \in 1 .. Frame : Pieces(code)[i] = <<code, i>>
<1>1. Pieces(code) \in [1 .. Frame -> Piece]
  BY DEF Pieces, Piece
<1> QED
  BY <1>1, IsASeq, BoundAssumption DEF Pieces

\* Sequences of pieces only grow by pieces.
LEMMA SentPart ==
  ASSUME NEW s \in Seq(Piece), NEW code \in Codes
  PROVE  LET u == s \o Pieces(code)
         IN  /\ u \in Seq(Piece)
             /\ Len(u) = Len(s) + Frame
             /\ \A i \in 1 .. Len(u) :
                   u[i] = IF i <= Len(s) THEN s[i] ELSE <<code, i - Len(s)>>
<1> DEFINE t == Pieces(code)
<1>1. /\ t \in Seq(Piece) /\ Len(t) = Frame
      /\ \A i \in 1 .. Frame : t[i] = <<code, i>>
  BY PiecesType
<1>2. Len(s) \in Nat /\ Frame \in Nat
  BY BoundAssumption, LenProperties
<1> HIDE DEF t
<1>3. /\ s \o t \in Seq(Piece)
      /\ Len(s \o t) = Len(s) + Frame
      /\ \A i \in 1 .. Len(s) + Frame :
            (s \o t)[i] = IF i <= Len(s) THEN s[i] ELSE t[i - Len(s)]
  BY <1>1, ConcatProperties
<1>4. \A i \in 1 .. Len(s) + Frame :
          (s \o t)[i] = IF i <= Len(s) THEN s[i] ELSE <<code, i - Len(s)>>
  <2> SUFFICES ASSUME NEW i \in 1 .. Len(s) + Frame, ~(i <= Len(s))
               PROVE  t[i - Len(s)] = <<code, i - Len(s)>>
    BY <1>3
  <2>1. i - Len(s) \in 1 .. Frame
    BY <1>2
  <2> QED
    BY <1>1, <2>1
<1> QED
  BY <1>3, <1>4 DEF t

\* Nothing sent is a sequence of no pieces.
LEMMA NoPieces == <<>> \in Seq(Piece) /\ Len(<<>>) = 0
  BY EmptySeq

\* No longer stream results when some are emptied.
LEMMA EmptiedStreams ==
  ASSUME NEW S \in SUBSET Conns, Shapes,
         stream' = [c \in Conns |-> IF c \in S THEN <<>> ELSE stream[c]]
  PROVE  /\ stream' \in [Conns -> Seq(Piece)]
         /\ \A c \in Conns : Len(stream'[c]) < 2 * Frame
<1>1. /\ stream \in [Conns -> Seq(Piece)]
      /\ \A c \in Conns : Len(stream[c]) < 2 * Frame
  BY DEF Shapes, TypeOK
<1>2. 0 < 2 * Frame
  BY BoundAssumption
<1>3. \A c \in Conns : /\ stream'[c] \in Seq(Piece)
                       /\ Len(stream'[c]) < 2 * Frame
  BY <1>1, <1>2, NoPieces
<1> QED
  BY <1>3

-----------------------------------------------------------------------------
(* Types.                                                                  *)

\* The lengths that packets over TCP are given are lengths.
LEMMA TcpLengthType == ASSUME NEW code \in Codes PROVE TcpLength(code) \in Lengths
  BY DEF TcpLength, Lengths, Codes

\* There are four calls, the last of which lets clients connect.
LEMMA CallsLen == Len(Calls) = 4
  BY DEF Calls

\* No step disturbs the shapes.
LEMMA ShapesStep == ASSUME ServerInv, [Next]_vars PROVE Shapes'
<1> USE BoundAssumption, SetupAssumption, CallsLen
<1> USE DEF Shapes, TypeOK, netVars, udpVars, request
<1>0. Shapes /\ Connected
  BY DEF ServerInv
<1> HIDE DEF Piece
<1>1. CASE Setup
  BY <1>0, <1>1 DEF Setup
<1>2. CASE SetupFails
  BY <1>0, <1>2 DEF SetupFails
<1>3. CASE Deinit
  BY <1>0, <1>3 DEF Deinit
<1>4. CASE RecvFails
  BY <1>0, <1>4 DEF RecvFails
<1>5. CASE RecvUdp
  BY <1>0, <1>5 DEF RecvUdp, Received, Datagram
<1>6. CASE RecvTimeout
  <2>1. udp_retries' \in 0 .. RetryLimit
    BY <1>0, <1>6 DEF RecvTimeout, NextRetries
  <2>2. /\ sock_TCP_Client' \in Conns \cup {None}
        /\ conn' \in [Conns -> {"idle", "pending", "open", "eof", "reset"}]
    BY <1>0, <1>6 DEF RecvTimeout
  <2> QED
    BY <1>0, <1>6, <2>1, <2>2 DEF RecvTimeout
<1>7. CASE ReadPieces
  <2> DEFINE waiting == stream[sock_TCP_Client]
  <2>1. sock_TCP_Client \in Conns /\ waiting \in Seq(Piece)
    BY <1>0, <1>7 DEF ReadPieces
  <2>2. PICK size \in 1 .. Len(waiting) :
            /\ size <= Missing
            /\ buffer' = buffer \o SubSeq(waiting, 1, size)
            /\ stream' = [stream EXCEPT ![sock_TCP_Client] =
                             SubSeq(waiting, size + 1, Len(waiting))]
    BY <1>7 DEF ReadPieces
  <2>3. buffer' \in Seq(Piece) /\ Len(buffer') = Len(buffer) + size
    BY <1>0, <2>1, <2>2, TakenPart
  <2>4. Len(buffer') <= Frame
    <3>1. Len(buffer) \in Nat /\ Frame \in Nat /\ size \in Nat
      BY <1>0, <2>1, LenProperties
    <3> QED
      BY <2>2, <2>3, <3>1 DEF Missing
  <2> DEFINE left == SubSeq(waiting, size + 1, Len(waiting))
  <2>5. left \in Seq(Piece) /\ Len(left) = Len(waiting) - size
    BY <2>1, LeftPart
  <2>6. Len(left) < 2 * Frame
    <3>1. Len(waiting) < 2 * Frame
      BY <1>0, <2>1
    <3>2. Len(waiting) \in Nat /\ size \in Nat /\ 2 * Frame \in Nat
      BY <2>1, LenProperties
    <3> QED
      BY <2>5, <3>1, <3>2
  <2> HIDE DEF left
  <2>7. /\ stream' \in [Conns -> Seq(Piece)]
        /\ \A c \in Conns : Len(stream'[c]) < 2 * Frame
    BY <1>0, <2>2, <2>5, <2>6 DEF left
  <2>8. pc' \in {"read", "frame"}
    BY <1>7 DEF ReadPieces
  <2> QED
    BY <1>0, <1>7, <2>3, <2>4, <2>7, <2>8 DEF ReadPieces
<1>8. CASE FrameRead
  BY <1>0, <1>8, TcpLengthType DEF FrameRead, Received, Piece, Connected
<1>9. CASE ReadAgain
  BY <1>0, <1>9 DEF ReadAgain, vars
<1>10. CASE ReadFails
  BY <1>0, <1>10 DEF ReadFails
<1>11. CASE Answer
  <2>1. CASE Close
    <3>1. stream' = [c \in Conns |-> IF c \in {sock_TCP_Client} \cap Conns
                                       THEN <<>> ELSE stream[c]]
      BY <2>1 DEF Close
    <3>2. /\ stream' \in [Conns -> Seq(Piece)]
          /\ \A c \in Conns : Len(stream'[c]) < 2 * Frame
      BY <1>0, <3>1, EmptiedStreams
    <3> QED
      BY <1>0, <1>11, <2>1, <3>2 DEF Answer, Pass, Discovery, Stop, Start, Maintain, Close
  <2>2. CASE UNCHANGED netVars
    BY <1>0, <1>11, <2>2 DEF Answer, Pass, Discovery, Stop, Start, Maintain
  <2> QED
    BY <1>11, <2>1, <2>2 DEF Answer, Pass, Discovery, Stop, Start, Maintain
<1>12. ASSUME NEW p \in Peers, NEW d \in Datagrams, SendUdp(p, d[1], d[2]) PROVE Shapes'
  BY <1>0, <1>12, PacketAssumption DEF SendUdp, Datagram
<1>13. ASSUME NEW c \in Conns, Connect(c) \/ Leave(c) PROVE Shapes'
  <2>1. conn' \in [Conns -> {"idle", "pending", "open", "eof", "reset"}]
    BY <1>0, <1>13 DEF Connect, Leave
  <2>2. \/ stream' = stream
        \/ stream' = [d \in Conns |-> IF d \in {c} THEN <<>> ELSE stream[d]]
    BY <1>0, <1>13 DEF Connect, Leave
  <2>3. /\ stream' \in [Conns -> Seq(Piece)]
        /\ \A d \in Conns : Len(stream'[d]) < 2 * Frame
    BY <1>0, <2>2, EmptiedStreams
  <2> QED
    BY <1>0, <1>13, <2>1, <2>3 DEF Connect, Leave
<1>14. ASSUME NEW c \in Conns, NEW code \in Messages, SendTcp(c, code) PROVE Shapes'
  <2>1. code \in Codes /\ stream[c] \in Seq(Piece) /\ Len(stream[c]) < Frame
    BY <1>0, <1>14, PacketAssumption DEF SendTcp
  <2> DEFINE longer == stream[c] \o Pieces(code)
  <2>2. longer \in Seq(Piece) /\ Len(longer) = Len(stream[c]) + Frame
    BY <2>1, SentPart
  <2>3. Len(longer) < 2 * Frame
    <3>1. Len(stream[c]) \in Nat
      BY <2>1, LenProperties
    <3> QED
      BY <2>1, <2>2, <3>1
  <2>4. stream' = [stream EXCEPT ![c] = longer]
    BY <1>14 DEF SendTcp
  <2> HIDE DEF longer
  <2>5. /\ stream' \in [Conns -> Seq(Piece)]
        /\ \A d \in Conns : Len(stream'[d]) < 2 * Frame
    BY <1>0, <2>2, <2>3, <2>4
  <2> QED
    BY <1>0, <1>14, <2>5 DEF SendTcp
<1>15. CASE UNCHANGED vars
  BY <1>0, <1>15 DEF vars
<1> QED
  BY <1>1, <1>2, <1>3, <1>4, <1>5, <1>6, <1>7, <1>8, <1>9, <1>10, <1>11, <1>12,
     <1>13, <1>14, <1>15 DEF Next, NetStep, Receive, Environment, Finished

-----------------------------------------------------------------------------
(* Connections.                                                            *)

\* No step disturbs what the states of a connection mean.
LEMMA ConnectedStep == ASSUME ServerInv, [Next]_vars PROVE Connected'
<1> USE EndpointAssumption, BoundAssumption, NoPieces
<1> USE DEF Connected, netVars, udpVars, request
<1>0. Shapes /\ Connected
  BY DEF ServerInv
<1>t. /\ sock_TCP_Client \in Conns \cup {None}
      /\ conn \in [Conns -> {"idle", "pending", "open", "eof", "reset"}]
      /\ stream \in [Conns -> Seq(Piece)] /\ buffer \in Seq(Piece)
      /\ Len(buffer) <= Frame
  BY <1>0 DEF Shapes, TypeOK
<1> HIDE DEF Piece
<1>1. CASE Setup \/ SetupFails
  BY <1>0, <1>1 DEF Setup, SetupFails
<1>2. CASE Deinit
  BY <1>0, <1>t, <1>2 DEF Deinit
<1>3. CASE RecvFails \/ ReadFails \/ ReadAgain
  BY <1>0, <1>3 DEF RecvFails, ReadFails, ReadAgain, vars
<1>4. CASE RecvUdp
  BY <1>0, <1>4 DEF RecvUdp, Received
<1>5. CASE RecvTimeout
  BY <1>0, <1>t, <1>5 DEF RecvTimeout
<1>6. CASE ReadPieces
  <2> DEFINE waiting == stream[sock_TCP_Client]
  <2>1. sock_TCP_Client \in Conns /\ waiting \in Seq(Piece) /\ pc # "gone"
    BY <1>6, <1>t DEF ReadPieces
  <2>2. PICK size \in 1 .. Len(waiting) :
            /\ size <= Missing
            /\ buffer' = buffer \o SubSeq(waiting, 1, size)
            /\ stream' = [stream EXCEPT ![sock_TCP_Client] =
                             SubSeq(waiting, size + 1, Len(waiting))]
    BY <1>6 DEF ReadPieces
  <2>3. Len(buffer') = Len(buffer) + size
    BY <1>t, <2>1, <2>2, TakenPart
  <2>4. Len(buffer) \in Nat /\ size \in Nat \ {0} /\ size <= Frame - Len(buffer)
    BY <1>t, <2>1, <2>2, LenProperties DEF Missing
  <2>5. pc' = IF Len(buffer') >= Frame THEN "frame" ELSE "read"
    BY <1>6 DEF ReadPieces, Complete
  <2>6. /\ pc' \in {"read", "frame"}
        /\ pc' = "read" => Len(buffer') < Frame
        /\ pc' = "frame" => Len(buffer') = Frame
    BY <2>3, <2>4, <2>5
  <2>7. conn' = conn /\ sock_TCP_Client' = sock_TCP_Client
    BY <1>6 DEF ReadPieces
  <2>8. conn[sock_TCP_Client] \in {"open", "eof", "reset"}
    BY <1>0, <2>1, EndpointAssumption
  <2>9. \A c \in Conns : conn[c] = "idle" => stream'[c] = <<>>
    BY <1>0, <1>t, <2>2, <2>8
  <2> QED
    BY <1>0, <2>1, <2>6, <2>7, <2>8, <2>9
<1>7. CASE FrameRead
  BY <1>0, <1>7 DEF FrameRead, Received
<1>8. CASE Answer
  <2>1. CASE Close
    BY <1>0, <1>t, <1>8, <2>1 DEF Close, Answer, Pass, Discovery, Stop, Start, Maintain
  <2>2. CASE UNCHANGED netVars
    BY <1>0, <1>8, <2>2 DEF Answer, Pass, Discovery, Stop, Start, Maintain
  <2> QED
    BY <1>8, <2>1, <2>2 DEF Answer, Pass, Discovery, Stop, Start, Maintain
<1>9. ASSUME NEW p \in Peers, NEW d \in Datagrams, SendUdp(p, d[1], d[2]) PROVE Connected'
  BY <1>0, <1>9 DEF SendUdp
<1>10. ASSUME NEW c \in Conns, Connect(c) PROVE Connected'
  BY <1>0, <1>t, <1>10 DEF Connect
<1>11. ASSUME NEW c \in Conns, Leave(c) PROVE Connected'
  BY <1>0, <1>t, <1>11 DEF Leave
<1>12. ASSUME NEW c \in Conns, NEW code \in Messages, SendTcp(c, code) PROVE Connected'
  BY <1>0, <1>t, <1>12 DEF SendTcp
<1>13. CASE UNCHANGED vars
  BY <1>0, <1>13 DEF vars
<1> QED
  BY <1>1, <1>2, <1>3, <1>4, <1>5, <1>6, <1>7, <1>8, <1>9, <1>10, <1>11, <1>12,
     <1>13 DEF Next, NetStep, Receive, Environment, Finished

-----------------------------------------------------------------------------
(* Who asked.                                                              *)

\* A packet that needs an answer of its own kind did not come over TCP: there
\* it has another length.
LEMMA MaintenanceByUdp ==
  ASSUME Shapes, Asked, pc = "switch",
         \E what \in {"program", "erase", "set_ip"} : Asks(what)
  PROVE  sock_TCP_Client = None
<1> SUFFICES ASSUME packet.bytes_read = TcpLength(packet.code) PROVE FALSE
  BY DEF Asked
<1>1. packet.code \in {"program", "erase", "set_ip"}
  BY DEF Asks, Cases, Control, Maintenance
<1>2. TcpLength(packet.code) = 1032
  BY <1>1 DEF TcpLength
<1>3. packet.bytes_read \in {63, 64, 264}
  BY DEF Asks, Cases, Control, Maintenance
<1> QED
  BY <1>2, <1>3

\* No step disturbs where the packet in the switch came from.
LEMMA AskedStep == ASSUME ServerInv, [Next]_vars PROVE Asked'
<1> USE DEF Asked, netVars, udpVars, request
<1>0. Shapes /\ Connected /\ Asked
  BY DEF ServerInv
<1>1. CASE Setup \/ SetupFails \/ Deinit \/ RecvFails \/ RecvTimeout \/ ReadPieces
           \/ ReadFails
  BY <1>1 DEF Setup, SetupFails, Deinit, RecvFails, RecvTimeout, ReadPieces, ReadFails
<1>2. CASE RecvUdp
  BY <1>2 DEF RecvUdp, Received
<1>3. CASE FrameRead
  <2>1. sock_TCP_Client # None
    BY <1>0, <1>3 DEF FrameRead, Connected
  <2> QED
    BY <1>3, <2>1 DEF FrameRead, Received
<1>4. CASE Answer
  BY <1>4 DEF Answer, Pass, Discovery, Stop, Start, Maintain
<1>5. CASE Environment
  BY <1>0, <1>5 DEF Environment, SendUdp, Connect, Leave, SendTcp
<1>6. CASE UNCHANGED vars
  BY <1>0, <1>6 DEF vars
<1> QED
  BY <1>1, <1>2, <1>3, <1>4, <1>5, <1>6 DEF Next, NetStep, Receive, Finished, ReadAgain

\* Every answer goes to who asked.
LEMMA ReplyStep == ASSUME ServerInv, [Next]_vars PROVE ReplyToAsker'
<1> USE DEF ReplyToAsker, netVars, udpVars, request
<1>0. Shapes /\ Asked /\ ReplyToAsker
  BY DEF ServerInv
<1>1. CASE Setup \/ SetupFails \/ Deinit \/ RecvFails \/ RecvTimeout \/ ReadPieces
           \/ ReadFails
  BY <1>0, <1>1
  DEF Setup, SetupFails, Deinit, RecvFails, RecvTimeout, ReadPieces, ReadFails
<1>2. CASE RecvUdp \/ FrameRead
  BY <1>2 DEF RecvUdp, FrameRead, Received
<1>3. CASE Discovery
  BY <1>0, <1>3 DEF Discovery, Asked
<1>4. CASE Maintain
  BY <1>0, <1>4, MaintenanceByUdp DEF Maintain, Asked
<1>5. CASE Pass \/ Stop \/ Start
  BY <1>0, <1>5 DEF Pass, Stop, Start
<1>6. CASE Environment
  BY <1>0, <1>6 DEF Environment, SendUdp, Connect, Leave, SendTcp
<1>7. CASE UNCHANGED vars
  BY <1>0, <1>7 DEF vars
<1> QED
  BY <1>1, <1>2, <1>3, <1>4, <1>5, <1>6, <1>7
  DEF Next, NetStep, Receive, Answer, Finished, ReadAgain

-----------------------------------------------------------------------------
(* Packets over TCP.                                                       *)

\* What a connection's bytes say of the variables they are told by.
LEMMA FramedTypes ==
  ASSUME Shapes, NEW c \in Conns
  PROVE  /\ stream[c] \in Seq(Piece) /\ Len(stream[c]) \in Nat
         /\ buffer \in Seq(Piece) /\ Len(buffer) \in 0 .. Frame
         /\ Taken(c) \in 0 .. Frame
  BY BoundAssumption, LenProperties DEF Shapes, TypeOK, Taken

\* A piece behind the first packet is one of the second.
LEMMA SentSecond ==
  ASSUME NEW first, NEW second, NEW i \in Nat \ {0}
  PROVE  Sent(first, second, Frame + i) = <<second, i>>
<1>1. Frame \in Nat
  BY BoundAssumption
<1>2. ~(Frame + i <= Frame)
  BY <1>1
<1>3. (Frame + i) - Frame = i
  BY <1>1
<1>4. Sent(first, second, Frame + i) = <<second, (Frame + i) - Frame>>
  BY <1>2, Zenon DEF Sent
<1> QED
  BY <1>3, <1>4, Zenon

\* Reading moves pieces from the stream to the buffer.
LEMMA ReadFramed ==
  ASSUME Shapes, ReadPieces, NEW c \in Conns, Framed(c) PROVE Framed(c)'
<1> DEFINE waiting == stream[sock_TCP_Client]
<1>1. sock_TCP_Client \in Conns /\ sock_TCP_Client' = sock_TCP_Client /\ conn' = conn
  BY DEF ReadPieces, Shapes, TypeOK
<1>2. PICK size \in 1 .. Len(waiting) :
          /\ size <= Missing
          /\ buffer' = buffer \o SubSeq(waiting, 1, size)
          /\ stream' = [stream EXCEPT ![sock_TCP_Client] =
                           SubSeq(waiting, size + 1, Len(waiting))]
  BY DEF ReadPieces
<1>3. CASE c # sock_TCP_Client
  <2>1. stream'[c] = stream[c] /\ Taken(c)' = Taken(c)
    BY <1>1, <1>2, <1>3 DEF Shapes, Taken
  <2> QED
    BY <1>1, <1>3, <2>1 DEF Framed, InOrder, Uncut
<1>4. CASE c = sock_TCP_Client
  <2>1. waiting \in Seq(Piece) /\ buffer \in Seq(Piece)
    BY <1>1, FramedTypes
  <2>2. /\ Len(buffer') = Len(buffer) + size
        /\ \A i \in 1 .. Len(buffer') :
              buffer'[i] = IF i <= Len(buffer) THEN buffer[i] ELSE waiting[i - Len(buffer)]
    BY <1>2, <2>1, TakenPart
  <2>3. stream'[c] = SubSeq(waiting, size + 1, Len(waiting))
    BY <1>1, <1>2, <1>4 DEF Shapes
  <2>4. /\ Len(stream'[c]) = Len(waiting) - size
        /\ \A i \in 1 .. Len(stream'[c]) : stream'[c][i] = waiting[size + i]
    BY <2>1, <2>3, LeftPart
  <2>5. PICK first \in Codes, second \in Codes :
            /\ \A i \in 1 .. Len(waiting) : waiting[i] = Sent(first, second, Len(buffer) + i)
            /\ \A i \in 1 .. Len(buffer) : buffer[i] = Sent(first, second, i)
    BY <1>4 DEF Framed, InOrder, Taken
  <2>6. Len(buffer) \in Nat /\ Len(waiting) \in Nat /\ size \in 1 .. Len(waiting)
    BY <2>1, LenProperties
  <2>7. \A i \in 1 .. Len(buffer') : buffer'[i] = Sent(first, second, i)
    <3> SUFFICES ASSUME NEW i \in 1 .. Len(buffer')
                 PROVE  buffer'[i] = Sent(first, second, i)
      OBVIOUS
    <3>1. CASE i <= Len(buffer)
      BY <2>2, <2>5, <2>6, <3>1
    <3>2. CASE i > Len(buffer)
      <4>1. i - Len(buffer) \in 1 .. Len(waiting) /\ Len(buffer) + (i - Len(buffer)) = i
        BY <2>2, <2>6, <3>2
      <4>2. ~(i <= Len(buffer))
        BY <2>2, <2>6, <3>2
      <4>3. buffer'[i] = waiting[i - Len(buffer)]
        BY <2>2, <4>2
      <4>4. waiting[i - Len(buffer)] = Sent(first, second, Len(buffer) + (i - Len(buffer)))
        BY <2>5, <4>1
      <4> QED
        BY <4>1, <4>3, <4>4
    <3> QED
      BY <2>2, <2>6, <3>1, <3>2
  <2>8. \A i \in 1 .. Len(stream'[c]) : stream'[c][i] = Sent(first, second, Len(buffer') + i)
    <3> SUFFICES ASSUME NEW i \in 1 .. Len(stream'[c])
                 PROVE  stream'[c][i] = Sent(first, second, Len(buffer') + i)
      OBVIOUS
    <3>1. size + i \in 1 .. Len(waiting) /\ Len(buffer') + i = Len(buffer) + (size + i)
      BY <2>2, <2>4, <2>6
    <3> QED
      BY <2>4, <2>5, <3>1
  <2>9. Taken(c)' = Len(buffer') /\ Taken(c) = Len(buffer)
    BY <1>1, <1>4 DEF Taken
  <2>10. Len(buffer') + Len(stream'[c]) = Len(buffer) + Len(waiting)
    <3>1. Len(buffer') = Len(buffer) + size /\ Len(stream'[c]) = Len(waiting) - size
      BY <2>2, <2>4
    <3>2. ASSUME NEW a \in Nat, NEW b \in Nat PROVE (a + size) + (b - size) = a + b
      OBVIOUS
    <3> QED
      BY <2>6, <3>1, <3>2
  <2>11. Uncut(c)'
    BY <1>1, <1>4, <2>9, <2>10 DEF Framed, Uncut
  <2>12. InOrder(c, first, second)'
    BY <1>1, <1>4, <2>7, <2>8, <2>9 DEF InOrder, Sent
  <2> QED
    BY <2>11, <2>12 DEF Framed
<1> QED
  BY <1>3, <1>4

\* When the first of two packets has been taken the second is the first.
LEMMA FrameReadFramed ==
  ASSUME Shapes, Connected, FrameRead, NEW c \in Conns, Framed(c) PROVE Framed(c)'
<1>1. sock_TCP_Client' = sock_TCP_Client /\ conn' = conn /\ stream' = stream
  BY DEF FrameRead, netVars
<1>2. buffer' = <<>> /\ Len(buffer') = 0 /\ Len(buffer) = Frame
  BY NoPieces DEF FrameRead, Connected
<1>3. CASE c # sock_TCP_Client
  <2>1. Taken(c)' = Taken(c)
    BY <1>1, <1>3 DEF Taken
  <2> QED
    BY <1>1, <1>3, <2>1 DEF Framed, InOrder, Uncut
<1>4. CASE c = sock_TCP_Client
  <2>1. PICK first \in Codes, second \in Codes : InOrder(c, first, second)
    BY DEF Framed
  <2>2. Taken(c) = Frame /\ Taken(c)' = 0
    BY <1>1, <1>2, <1>4 DEF Taken
  <2>3. stream[c] \in Seq(Piece) /\ Len(stream[c]) \in Nat /\ Frame \in Nat \ {0}
    BY FramedTypes, BoundAssumption
  <2>4. \A i \in 1 .. Len(stream[c]) : stream[c][i] = <<second, i>>
    <3> SUFFICES ASSUME NEW i \in 1 .. Len(stream[c]) PROVE stream[c][i] = <<second, i>>
      OBVIOUS
    <3>1. stream[c][i] = Sent(first, second, Frame + i)
      BY <2>1, <2>2 DEF InOrder
    <3>2. i \in Nat \ {0}
      BY <2>3
    <3>3. Sent(first, second, Frame + i) = <<second, i>>
      BY <3>2, SentSecond
    <3> QED
      BY <3>1, <3>3
  <2>5. \A i \in 1 .. Len(stream[c]) : stream[c][i] \in Piece
    BY <2>3
  <2>6. \A i \in 1 .. Len(stream[c]) : i <= Frame
    <3> SUFFICES ASSUME NEW i \in 1 .. Len(stream[c]) PROVE i <= Frame
      OBVIOUS
    <3>1. <<second, i>> \in Codes \X (1 .. Frame)
      BY <2>4, <2>5 DEF Piece
    <3>2. i \in 1 .. Frame
      BY <3>1
    <3> QED
      BY <2>3, <3>2
  <2>7. InOrder(c, second, second)'
    <3>1. ASSUME NEW i \in 1 .. Len(stream[c])
          PROVE  stream[c][i] = Sent(second, second, 0 + i)
      <4>1. 0 + i = i /\ i <= Frame
        BY <2>3, <2>6
      <4> QED
        BY <2>4, <4>1 DEF Sent
    <3>2. 1 .. Len(buffer') = {}
      BY <1>2
    <3> QED
      BY <1>1, <2>2, <3>1, <3>2 DEF InOrder
  <2>8. Uncut(c)'
    BY <1>1, <2>2, <2>3 DEF Framed, Uncut
  <2> QED
    BY <2>7, <2>8 DEF Framed
<1> QED
  BY <1>3, <1>4

\* A PC that sends appends one packet to at most one.
LEMMA SendFramed ==
  ASSUME Shapes, Connected, NEW c \in Conns, Framed(c),
         NEW sender \in Conns, NEW code \in Codes, SendTcp(sender, code)
  PROVE  Framed(c)'
<1>1. sock_TCP_Client' = sock_TCP_Client /\ conn' = conn /\ buffer' = buffer
  BY DEF SendTcp
<1>2. Taken(c)' = Taken(c)
  BY <1>1 DEF Taken
<1>3. CASE c # sender
  <2>1. stream'[c] = stream[c]
    BY <1>3 DEF SendTcp, Shapes
  <2>2. Uncut(c)'
    BY <1>1, <1>2, <2>1 DEF Framed, Uncut
  <2>3. PICK first \in Codes, second \in Codes : InOrder(c, first, second)
    BY DEF Framed
  <2>4. InOrder(c, first, second)'
    BY <1>1, <1>2, <2>1, <2>3 DEF InOrder
  <2> QED
    BY <2>2, <2>4 DEF Framed
<1>4. CASE c = sender
  <2> DEFINE len == Len(stream[c])
  <2>1. stream[c] \in Seq(Piece) /\ len \in Nat /\ Frame \in Nat \ {0} /\ Taken(c) \in 0 .. Frame
    BY FramedTypes, BoundAssumption
  <2>2. stream'[c] = stream[c] \o Pieces(code) /\ len < Frame
    BY <1>4 DEF SendTcp, Shapes
  <2>3. /\ Len(stream'[c]) = len + Frame
        /\ \A i \in 1 .. Len(stream'[c]) :
              stream'[c][i] = IF i <= len THEN stream[c][i] ELSE <<code, i - len>>
    BY <2>1, <2>2, SentPart
  <2>4. Taken(c) + len \in {0, Frame}
    <3>1. Taken(c) + len \in {0, Frame, 2 * Frame}
      BY <1>4 DEF Framed, Uncut, SendTcp
    <3> QED
      BY <2>1, <2>2, <3>1
  <2>5. Uncut(c)'
    <3>1. Len(stream'[c]) = len + Frame
      BY <2>3
    <3>2. Taken(c) + (len + Frame) \in {0, Frame, 2 * Frame}
      BY <2>1, <2>4
    <3> QED
      BY <1>2, <3>1, <3>2 DEF Uncut
  <2>6. PICK first \in Codes, second \in Codes : InOrder(c, first, second)
    BY DEF Framed
  <2>7. c = sock_TCP_Client => Len(buffer) = Taken(c)
    BY DEF Taken
  \* The new packet is the first one.
  <2>8. CASE Taken(c) + len = 0
    <3>1. Taken(c) = 0 /\ len = 0
      BY <2>1, <2>8
    <3>2. ASSUME NEW i \in 1 .. Len(stream'[c])
          PROVE  stream'[c][i] = Sent(code, code, 0 + i)
      <4>1. Len(stream'[c]) = Frame
        BY <2>1, <2>3, <3>1
      <4>2. i \in Nat \ {0} /\ i <= Frame
        BY <2>1, <4>1
      <4>3. stream'[c][i] = IF i <= len THEN stream[c][i] ELSE <<code, i - len>>
        BY <2>3
      <4> QED
        BY <3>1, <4>2, <4>3 DEF Sent
    <3>3. c = sock_TCP_Client => Len(buffer) = 0
      BY <2>7, <3>1
    <3>4. InOrder(c, code, code)'
      BY <1>1, <1>2, <3>1, <3>2, <3>3 DEF InOrder
    <3> QED
      BY <2>5, <3>4 DEF Framed
  \* The new packet is the second one.
  <2>9. CASE Taken(c) + len = Frame
    <3>1. ASSUME NEW i \in 1 .. len
          PROVE  stream[c][i] = <<first, Taken(c) + i>> /\ Taken(c) + i <= Frame
      <4>1. Taken(c) + i <= Frame
        BY <2>1, <2>9
      <4> QED
        BY <2>6, <4>1 DEF InOrder, Sent
    <3>2. ASSUME NEW i \in 1 .. Len(stream'[c])
          PROVE  stream'[c][i] = Sent(first, code, Taken(c) + i)
      <4>1. stream'[c][i] = IF i <= len THEN stream[c][i] ELSE <<code, i - len>>
        BY <2>3
      <4>2. CASE i <= len
        <5>1. i \in 1 .. len
          BY <2>1, <4>2
        <5> QED
          BY <3>1, <4>1, <4>2, <5>1 DEF Sent
      <4>3. CASE ~(i <= len)
        <5>1. i - len \in Nat \ {0} /\ Frame + (i - len) = Taken(c) + i
          <6>1. i \in Int /\ len \in Int /\ Taken(c) \in Int
            BY <2>1
          <6>2. ASSUME NEW a \in Int, NEW b \in Int, NEW d \in Int, ~(d <= b), a + b = Frame
                PROVE  d - b \in Nat \ {0} /\ Frame + (d - b) = a + d
            BY <6>2
          <6> QED
            BY <2>9, <4>3, <6>1, <6>2
        <5>2. Sent(first, code, Frame + (i - len)) = <<code, i - len>>
          BY <5>1, SentSecond
        <5> QED
          BY <4>1, <4>3, <5>1, <5>2
      <4> QED
        BY <4>2, <4>3
    <3>3. ASSUME c = sock_TCP_Client, NEW i \in 1 .. Len(buffer)
          PROVE  buffer[i] = Sent(first, code, i)
      <4>1. i <= Frame
        BY <2>1, <2>7, <3>3
      <4> QED
        BY <2>6, <3>3, <4>1 DEF InOrder, Sent
    <3>4. InOrder(c, first, code)'
      BY <1>1, <1>2, <3>2, <3>3 DEF InOrder
    <3> QED
      BY <2>5, <2>6, <3>4 DEF Framed
  <2> QED
    BY <2>4, <2>8, <2>9
<1> QED
  BY <1>3, <1>4

\* A connection of which nothing is left unread or half read is in order.
LEMMA EmptyFramed ==
  ASSUME NEW c \in Conns, Len(stream'[c]) = 0, Taken(c)' = 0,
         c = sock_TCP_Client' => Len(buffer') = 0
  PROVE  Framed(c)'
<1>1. "ep2" \in Codes
  BY DEF Codes
<1>2. InOrder(c, "ep2", "ep2")'
  BY DEF InOrder
<1>3. Uncut(c)'
  BY DEF Uncut
<1> QED
  BY <1>1, <1>2, <1>3 DEF Framed

\* No step disturbs what was taken and not taken of any stream.
LEMMA FramedStep ==
  ASSUME ServerInv, [Next]_vars, NEW c \in Conns PROVE Framed(c)'
<1> USE EndpointAssumption
<1>0. Shapes /\ Connected /\ Framed(c)
  BY DEF ServerInv
<1>t. /\ sock_TCP_Client \in Conns \cup {None}
      /\ stream \in [Conns -> Seq(Piece)]
      /\ conn \in [Conns -> {"idle", "pending", "open", "eof", "reset"}]
  BY <1>0 DEF Shapes, TypeOK
<1>1. CASE UNCHANGED <<netVars, buffer>>
  <2>1. /\ sock_TCP_Client' = sock_TCP_Client /\ conn' = conn /\ stream' = stream
        /\ buffer' = buffer /\ Taken(c)' = Taken(c)
    BY <1>1 DEF netVars, Taken
  <2>2. PICK first \in Codes, second \in Codes : InOrder(c, first, second)
    BY <1>0 DEF Framed
  <2>3. InOrder(c, first, second)' /\ Uncut(c)'
    BY <1>0, <2>1, <2>2 DEF Framed, InOrder, Uncut
  <2> QED
    BY <2>3 DEF Framed
<1>2. CASE Deinit
  <2>1. stream'[c] = <<>> /\ sock_TCP_Client' = sock_TCP_Client /\ buffer' = buffer
    BY <1>2 DEF Deinit
  <2>2. conn'[c] \in {"pending", "open"} => Taken(c)' = 0
    BY <1>0, <1>2, <1>t, <2>1 DEF Deinit, Connected, Taken
  <2>3. Uncut(c)'
    BY <2>1, <2>2, NoPieces DEF Uncut
  <2>4. PICK first \in Codes, second \in Codes : InOrder(c, first, second)
    BY <1>0 DEF Framed
  <2>5. InOrder(c, first, second)'
    BY <2>1, <2>4, NoPieces DEF InOrder
  <2> QED
    BY <2>3, <2>5 DEF Framed
<1>3. CASE RecvTimeout
  <2>1. stream' = stream /\ buffer' = buffer /\ buffer = <<>> /\ sock_TCP_Client = None
    BY <1>0, <1>3 DEF RecvTimeout, Connected
  <2>2. Taken(c) = 0 /\ Taken(c)' = 0
    BY <2>1, NoPieces DEF Taken
  <2>3. conn'[c] \in {"pending", "open"} => conn[c] \in {"pending", "open"}
    BY <1>3, <1>t DEF RecvTimeout
  <2>4. Uncut(c)'
    BY <1>0, <2>1, <2>2, <2>3 DEF Framed, Uncut
  <2>5. PICK first \in Codes, second \in Codes : InOrder(c, first, second)
    BY <1>0 DEF Framed
  <2>6. InOrder(c, first, second)'
    BY <2>1, <2>2, <2>5, NoPieces DEF InOrder
  <2> QED
    BY <2>4, <2>6 DEF Framed
<1>4. CASE ReadPieces
  BY <1>0, <1>4, ReadFramed
<1>5. CASE FrameRead
  BY <1>0, <1>5, FrameReadFramed
<1>6. CASE Answer /\ Close
  <2>1. buffer' = buffer /\ buffer = <<>> /\ sock_TCP_Client' = None
    BY <1>0, <1>6 DEF Answer, Pass, Discovery, Stop, Start, Maintain, Close, Connected
  <2>2. Taken(c) = 0 /\ Taken(c)' = 0
    BY <2>1, NoPieces DEF Taken
  <2>3. CASE c = sock_TCP_Client
    <3>1. stream'[c] = <<>>
      BY <1>6, <2>3 DEF Close
    <3> QED
      BY <2>1, <2>2, <3>1, NoPieces, EmptyFramed
  <2>4. CASE c # sock_TCP_Client
    <3>1. stream'[c] = stream[c] /\ conn'[c] = conn[c]
      BY <1>6, <2>4 DEF Close
    <3>2. PICK first \in Codes, second \in Codes : InOrder(c, first, second)
      BY <1>0 DEF Framed
    <3>3. InOrder(c, first, second)' /\ Uncut(c)'
      BY <1>0, <2>1, <2>2, <3>1, <3>2 DEF Framed, InOrder, Uncut
    <3> QED
      BY <3>3 DEF Framed
  <2> QED
    BY <2>3, <2>4
<1>7. ASSUME NEW d \in Conns, Connect(d) PROVE Framed(c)'
  <2>1. stream' = stream /\ buffer' = buffer /\ sock_TCP_Client' = sock_TCP_Client
    BY <1>7 DEF Connect
  <2>2. CASE c = d
    <3>1. stream[c] = <<>> /\ c # sock_TCP_Client
      BY <1>0, <1>7, <2>2 DEF Connect, Connected
    <3>2. Taken(c)' = 0
      BY <2>1, <3>1 DEF Taken
    <3> QED
      BY <2>1, <3>1, <3>2, NoPieces, EmptyFramed
  <2>3. CASE c # d
    <3>1. conn'[c] = conn[c] /\ Taken(c)' = Taken(c)
      BY <1>7, <1>t, <2>1, <2>3 DEF Connect, Taken
    <3> QED
      BY <1>0, <2>1, <3>1 DEF Framed, InOrder, Uncut, Sent
  <2> QED
    BY <2>2, <2>3
<1>8. ASSUME NEW d \in Conns, Leave(d) PROVE Framed(c)'
  <2>1. buffer' = buffer /\ sock_TCP_Client' = sock_TCP_Client /\ Taken(c)' = Taken(c)
    BY <1>8 DEF Leave, Taken
  <2>2. conn'[c] \in {"pending", "open"} => conn'[c] = conn[c] /\ stream'[c] = stream[c]
    BY <1>8, <1>t DEF Leave
  <2>3. Uncut(c)'
    BY <1>0, <2>1, <2>2 DEF Framed, Uncut
  <2>4. PICK first \in Codes, second \in Codes : InOrder(c, first, second)
    BY <1>0 DEF Framed
  <2>5. stream'[c] = stream[c] \/ stream'[c] = <<>>
    BY <1>8, <1>t DEF Leave
  <2>6. InOrder(c, first, second)'
    BY <2>1, <2>4, <2>5, NoPieces DEF InOrder
  <2> QED
    BY <2>3, <2>6 DEF Framed
<1>9. ASSUME NEW d \in Conns, NEW code \in Messages, SendTcp(d, code) PROVE Framed(c)'
  BY <1>0, <1>9, PacketAssumption, SendFramed
<1>10. CASE Setup \/ SetupFails \/ RecvFails \/ RecvUdp \/ ReadAgain \/ ReadFails
  BY <1>1, <1>10 DEF Setup, SetupFails, RecvFails, RecvUdp, ReadAgain, ReadFails, vars
<1>11. CASE Answer /\ UNCHANGED netVars
  BY <1>1, <1>11 DEF Answer, Pass, Discovery, Stop, Start, Maintain
<1>12. Answer => Close \/ UNCHANGED netVars
  BY DEF Answer, Pass, Discovery, Stop, Start, Maintain
<1>13. ASSUME NEW p \in Peers, NEW d \in Datagrams, SendUdp(p, d[1], d[2]) PROVE Framed(c)'
  BY <1>1, <1>13 DEF SendUdp
<1>14. CASE UNCHANGED vars
  BY <1>1, <1>14 DEF vars
<1> QED
  BY <1>2, <1>3, <1>4, <1>5, <1>6, <1>7, <1>8, <1>9, <1>10, <1>11, <1>12, <1>13, <1>14
  DEF Next, NetStep, Receive, Environment, Finished

-----------------------------------------------------------------------------
(* The theorems.                                                           *)

\* The server starts with nothing connected, received or answered.
LEMMA InitInv == Init => ServerInv
<1> SUFFICES ASSUME Init PROVE ServerInv
  OBVIOUS
<1> USE EndpointAssumption, BoundAssumption, SetupAssumption, NoPieces DEF Init
<1>1. Shapes
  <2>1. /\ pc \in {"init", "recv", "read", "frame", "switch", "deinit", "gone"}
        /\ up \in 0 .. Len(Calls) /\ up < Len(Calls)
        /\ sock_TCP_Client \in Conns \cup {None}
        /\ conn \in [Conns -> {"idle", "pending", "open", "eof", "reset"}]
    BY CallsLen
  <2>2. /\ stream \in [Conns -> Seq(Piece)] /\ buffer \in Seq(Piece)
        /\ \A c \in Conns : Len(stream[c]) < 2 * Frame
        /\ Len(buffer) <= Frame
    OBVIOUS
  <2>3. udp_retries \in 0 .. RetryLimit
    <3>1. udp_retries = 0 /\ RetryLimit \in Nat
      OBVIOUS
    <3> QED
      BY <3>1
  <2>7. running \in BOOLEAN
    OBVIOUS
  <2>5. addr_from \in Peers \cup {None} /\ asker \in Peers \cup Conns \cup {None}
    OBVIOUS
  <2>6. inbox \in Datagram \cup {None}
    OBVIOUS
  <2>4. packet.code \in Codes /\ packet.bytes_read \in Lengths
    BY DEF NoPacket, Codes, Lengths
  <2> QED
    BY <2>1, <2>2, <2>3, <2>4, <2>5, <2>6, <2>7 DEF Shapes, TypeOK
<1>2. Connected
  BY DEF Connected
<1>3. ASSUME NEW c \in Conns PROVE Framed(c)
  <2>1. "ep2" \in Codes
    BY DEF Codes
  <2>2. stream[c] = <<>> /\ Taken(c) = 0
    BY DEF Taken
  <2>3. InOrder(c, "ep2", "ep2")
    BY <2>2 DEF InOrder
  <2>4. Uncut(c)
    BY <2>2 DEF Uncut
  <2> QED
    BY <2>1, <2>3, <2>4 DEF Framed
<1>4. Asked /\ ReplyToAsker
  BY DEF Asked, ReplyToAsker
<1> QED
  BY <1>1, <1>2, <1>3, <1>4 DEF ServerInv

\* The inductive invariant.
THEOREM ServerInvariance == Spec => []ServerInv
<1>1. ServerInv /\ [Next]_vars => ServerInv'
  BY ShapesStep, ConnectedStep, FramedStep, AskedStep, ReplyStep DEF ServerInv
<1> QED
  BY InitInv, <1>1, PTL DEF Spec

\* The variables keep their types, no more is read than a packet, and no stream
\* grows beyond two.
THEOREM ServerTypeCorrect == Spec => []TypeOK
<1>1. ServerInv => TypeOK
  BY DEF ServerInv, Shapes
<1> QED
  BY ServerInvariance, <1>1, PTL

\* A complete buffer holds the pieces of one packet, whatever sizes the reads
\* had and whatever packets came before and follow.
LEMMA FramedAligned == ServerInv => FrameAligned
<1> SUFFICES ASSUME ServerInv, pc = "frame" PROVE buffer = Pieces(buffer[1][1])
  BY DEF FrameAligned
<1>1. /\ sock_TCP_Client \in Conns /\ Len(buffer) = Frame /\ buffer \in Seq(Piece)
      /\ Frame \in Nat \ {0}
  BY BoundAssumption DEF ServerInv, Shapes, TypeOK, Connected
<1>2. PICK first \in Codes, second \in Codes :
          \A i \in 1 .. Len(buffer) : buffer[i] = Sent(first, second, i)
  BY <1>1 DEF ServerInv, Framed, InOrder
<1>3. \A i \in 1 .. Frame : buffer[i] = <<first, i>>
  BY <1>1, <1>2 DEF Sent
<1>4. buffer[1][1] = first
  BY <1>1, <1>3
<1>5. /\ Pieces(first) \in Seq(Piece) /\ Len(Pieces(first)) = Frame
      /\ \A i \in 1 .. Frame : Pieces(first)[i] = <<first, i>>
  BY PiecesType
<1> QED
  BY <1>1, <1>3, <1>4, <1>5, SeqEqual

THEOREM AlwaysFrameAligned == Spec => []FrameAligned
  BY ServerInvariance, FramedAligned, PTL

\* An answer is never given to anybody but the sender of the packet, by UDP or
\* TCP, whoever else has sent datagrams before.
THEOREM AlwaysReplyToAsker == Spec => []ReplyToAsker
<1>1. ServerInv => ReplyToAsker
  BY DEF ServerInv
<1> QED
  BY ServerInvariance, <1>1, PTL
=============================================================================
