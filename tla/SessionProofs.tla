--------------------------- MODULE SessionProofs ---------------------------
(***************************************************************************)
(* Proofs about Session, for every set of PCs, connections and threads,    *)
(* every retry limit and every width of the sequence number: the inductive *)
(* invariant IInv, the safety invariants that follow from it, and the      *)
(* refinement of StreamService.                                            *)
(***************************************************************************)
EXTENDS Session, TLAPS

\* The server starts in a state that satisfies the inductive invariant.
LEMMA InitIInv == Init => IInv
  BY EndpointAssumption, RetryAssumption, SeqAssumption, SpawnAssumption
  DEF Init, IInv, TypeOK, NetPcs, Ep6Pcs, ConnStates, Seq32, NoSeq,
      OneStreamer, Flags, ClientUsable, Destinations, QuietWhenStopped,
      ActiveMeansStreaming, Streaming, InTail, Running

\* Every step keeps it: one case per action.  STOP and START are the ones that
\* need the whole of Flags, Ep6Leave the one that needs OneStreamer.
LEMMA NextIInv == IInv /\ [Next]_vars => IInv'
<1> SUFFICES ASSUME IInv, [Next]_vars PROVE IInv'
  OBVIOUS
<1> USE EndpointAssumption, RetryAssumption, SeqAssumption
    DEF IInv, TypeOK, OneStreamer, Flags, ClientUsable, Destinations, QuietWhenStopped,
         ActiveMeansStreaming, Streaming, InTail, Running,
        NetPcs, Ep6Pcs, ConnStates, Seq32, NoSeq, netVars, envVars, rcvVars, seqVars
\* the network thread
<1>1. CASE RecvTimeout
  BY <1>1 DEF RecvTimeout, NextRetries
<1>2. CASE RecvEof
  BY <1>2 DEF RecvEof
<1>3. CASE EofSpin
  BY <1>3 DEF EofSpin, vars
<1>4. CASE RecvError
  BY <1>4 DEF RecvError
<1>5. CASE Ep2Check
  BY <1>5 DEF Ep2Check
<1>6. CASE Gate
  BY <1>6 DEF Gate, MayStore
<1>7. CASE Store
  <2>1. TypeOK' /\ ClientUsable' /\ Destinations' /\ OneStreamer'
    BY <1>7 DEF Store
  <2>2. Flags' /\ (~SpawnMayFail => ActiveMeansStreaming')
    BY <1>7 DEF Store
  <2>3. active_thread' = 1
    BY <1>7 DEF Store
  <2>4. QuietWhenStopped'
    BY <2>3
  <2> QED
    BY <2>1, <2>2, <2>4
<1>8. CASE DiscoveryStay
  BY <1>8 DEF DiscoveryStay, ClosesAfterReply
<1>9. CASE DiscoveryClose
  BY <1>9 DEF DiscoveryClose, ClosesAfterReply
<1>10. CASE DiscoveryPipe
  BY <1>10 DEF DiscoveryPipe, ClosesAfterReply
<1>11. CASE Disable
  BY <1>11 DEF Disable, Disabled
<1>12. CASE WaitActive
  BY <1>12 DEF WaitActive, Ended, vars
<1>13. CASE StopDone
  BY <1>13 DEF StopDone, Ended
<1>14. CASE StartArm
  BY <1>14 DEF StartArm, Ended, Destination
<1>15. ASSUME NEW s \in Threads, Spawn(s) PROVE IInv'
  BY <1>15 DEF Spawn
<1>16. CASE SpawnFail
  BY <1>16 DEF SpawnFail
<1>17. CASE Deinit
  BY <1>17 DEF Deinit
<1>18. ASSUME NEW kind \in DOMAIN Handler, RecvTcp(kind) PROVE IInv'
  BY <1>18 DEF RecvTcp, Dispatch, Handler
<1>19. ASSUME NEW p \in Peers, NEW kind \in DOMAIN Handler, RecvUdp(p, kind) PROVE IInv'
  BY <1>19 DEF RecvUdp, Dispatch, Handler
\* the ep6 threads
<1>20. ASSUME NEW s \in Threads, Ep6Set(s) PROVE IInv'
  BY <1>20 DEF Ep6Set, Goto
<1>21. ASSUME NEW s \in Threads, Ep6Loop(s) PROVE IInv'
  BY <1>21 DEF Ep6Loop, Goto
<1>22. ASSUME NEW s \in Threads, Ep6Choose(s) PROVE IInv'
  BY <1>22 DEF Ep6Choose, Goto
<1>23. ASSUME NEW s \in Threads, Ep6SendUdp(s) PROVE IInv'
  BY <1>23 DEF Ep6SendUdp, Goto
<1>24. ASSUME NEW s \in Threads, Ep6SendTcp(s) PROVE IInv'
  BY <1>24 DEF Ep6SendTcp, Goto
<1>25. ASSUME NEW s \in Threads, Ep6SendPipe(s) PROVE IInv'
  BY <1>25 DEF Ep6SendPipe, Goto
<1>26. ASSUME NEW s \in Threads, Ep6Leave(s) PROVE IInv'
  BY <1>26 DEF Ep6Leave, LeftActive, Goto
<1>27. ASSUME NEW s \in Threads, Ep6Reset(s) PROVE IInv'
  BY <1>27 DEF Ep6Reset, Goto
<1>28. ASSUME NEW s \in Threads, Ep6ResetLast(s) PROVE IInv'
  BY <1>28 DEF Ep6ResetLast, Goto
<1>29. ASSUME NEW s \in Threads, Ep6Clear(s) PROVE IInv'
  BY <1>29 DEF Ep6Clear, Cleared, Goto
\* the end of the process
<1>30. CASE Exit
  BY <1>30 DEF Exit
\* the PCs
<1>31. ASSUME NEW c \in Conns, Connect(c) PROVE IInv'
  BY <1>31 DEF Connect
<1>32. ASSUME NEW c \in Conns, PeerClose(c) PROVE IInv'
  BY <1>32 DEF PeerClose
<1>33. ASSUME NEW c \in Conns, PeerReset(c) PROVE IInv'
  BY <1>33 DEF PeerReset
<1>34. ASSUME NEW c \in Conns, Stall(c) PROVE IInv'
  BY <1>34 DEF Stall
<1>35. CASE UNCHANGED vars
  BY <1>35 DEF vars
<1> QED
  BY <1>1, <1>2, <1>3, <1>4, <1>5, <1>6, <1>7, <1>8, <1>9, <1>10, <1>11,
  <1>12, <1>13, <1>14, <1>15, <1>16, <1>17, <1>18, <1>19, <1>20, <1>21,
  <1>22, <1>23, <1>24, <1>25, <1>26, <1>27, <1>28, <1>29, <1>30, <1>31,
  <1>32, <1>33, <1>34, <1>35
  DEF Next, NetStep, Receive, Ep6Step, Environment, Finished

\* The inductive invariant holds throughout every behaviour.
THEOREM Invariance == Spec => []IInv
  BY InitIInv, NextIInv, PTL DEF Spec

\* Every variable keeps its type.
THEOREM TypeCorrect == Spec => []TypeOK
<1>1. IInv => TypeOK
  BY DEF IInv
<1> QED
  BY Invariance, <1>1, PTL

\* STOP, START and the end of ep6_handler never let two ep6 threads stream.
THEOREM OneStreamerAlways == Spec => []OneStreamer
<1>1. IInv => OneStreamer
  BY DEF IInv
<1> QED
  BY Invariance, <1>1, PTL

\* While the process runs, hpsdr_network_send never uses a closed connection.
THEOREM SendSocketAlwaysOpen == Spec => []SendSocketOpen
<1>1. IInv => SendSocketOpen
  BY DEF IInv, ClientUsable, Destinations, SendSocketOpen, Running
<1> QED
  BY Invariance, <1>1, PTL

\* The stream goes to the PC whose START was obeyed, or to a client accepted
\* since.
THEOREM StreamAlwaysGoesToStarter == Spec => []StreamGoesToStarter
<1>1. IInv => StreamGoesToStarter
  BY EndpointAssumption
  DEF IInv, TypeOK, Destinations, StreamGoesToStarter, Streaming, Running
<1> QED
  BY Invariance, <1>1, PTL

\* No samples are left in the ring once a session has ended and cleaned up.
THEOREM AlwaysQuietWhenStopped == Spec => []QuietWhenStopped
<1>1. IInv => QuietWhenStopped
  BY DEF IInv
<1> QED
  BY Invariance, <1>1, PTL

\* As long as pthread_create succeeds, active_thread tells the truth.
THEOREM ActiveAlwaysMeansStreaming ==
  ASSUME ~SpawnMayFail PROVE Spec => []ActiveMeansStreaming
<1>1. IInv => ActiveMeansStreaming
  BY ~SpawnMayFail DEF IInv
<1> QED
  BY Invariance, <1>1, PTL

-----------------------------------------------------------------------------
(* Session implements StreamService while pthread_create succeeds.         *)

\* Each step of the threads is a step of the service or leaves it as it is:
\* START begins to serve, the clearing of active_thread ends it.
LEMMA ServiceStep ==
  ASSUME ~SpawnMayFail, IInv, [Next]_vars
  PROVE  [Service!Next]_(Service!vars)
<1> DEFINE Stays == Served' = Served /\ silent' = silent
<1> USE EndpointAssumption
    DEF IInv, TypeOK, OneStreamer, Flags, Destinations, ActiveMeansStreaming,
        Running, Streaming, Served, netVars, envVars, rcvVars, seqVars
\* the steps the service sees
<1>1. ASSUME StartArm PROVE Service!Next
  <2>1. Served = None
    BY <1>1 DEF StartArm, Ended
  <2>2. Served' \in Peers \cup Conns /\ silent' = silent
    BY <1>1 DEF StartArm, Ended, Destination
  <2> QED
    BY <2>1, <2>2 DEF Service!Next, Service!Begin
<1>2. ASSUME Store PROVE Service!Next
  <2>1. Served # None /\ Served' = Served
    BY <1>2 DEF Store
  <2>2. ~silent' = TRUE
    BY <1>2 DEF Store
  <2> QED
    BY <2>1, <2>2 DEF Service!Next, Service!Fill
<1>3. ASSUME NEW s \in Threads, Ep6Leave(s) PROVE Service!Next
  <2>1. Served # None
    BY <1>3 DEF Ep6Leave
  <2>2. Served' = None /\ silent' = silent
    BY <1>3 DEF Ep6Leave, Goto
  <2> QED
    BY <2>1, <2>2 DEF Service!Next, Service!End
<1>4. ASSUME NEW s \in Threads, Ep6Clear(s) PROVE Service!Next
  <2>1. Served' = Served
    BY <1>4 DEF Ep6Clear, Goto
  <2>2. ~silent' = FALSE
    BY <1>4 DEF Ep6Clear, Cleared
  <2> QED
    BY <2>1, <2>2 DEF Service!Next, Service!Drain
<1>5. ASSUME Exit PROVE Service!Next \/ Stays
  <2>1. Served' = None /\ silent' = silent
    BY <1>5 DEF Exit
  <2>2. CASE Served = None
    BY <2>1, <2>2
  <2>3. CASE Served # None
    BY <2>1, <2>3 DEF Service!Next, Service!End
  <2> QED
    BY <2>2, <2>3
\* the steps it does not
<1>6. ASSUME RecvTimeout PROVE Stays
  BY <1>6 DEF RecvTimeout, NextRetries
<1>7. ASSUME RecvEof PROVE Stays
  BY <1>7 DEF RecvEof
<1>8. ASSUME EofSpin PROVE Stays
  BY <1>8 DEF EofSpin, vars
<1>9. ASSUME RecvError PROVE Stays
  BY <1>9 DEF RecvError
<1>10. ASSUME Ep2Check PROVE Stays
  BY <1>10 DEF Ep2Check
<1>11. ASSUME Gate PROVE Stays
  BY <1>11 DEF Gate, MayStore
<1>12. ASSUME DiscoveryStay PROVE Stays
  BY <1>12 DEF DiscoveryStay, ClosesAfterReply
<1>13. ASSUME DiscoveryClose PROVE Stays
  BY <1>13 DEF DiscoveryClose, ClosesAfterReply
<1>14. ASSUME DiscoveryPipe PROVE Stays
  BY <1>14 DEF DiscoveryPipe, ClosesAfterReply
<1>15. ASSUME Disable PROVE Stays
  BY <1>15 DEF Disable, Disabled
<1>16. ASSUME WaitActive PROVE Stays
  BY <1>16 DEF WaitActive, Ended, vars
<1>17. ASSUME StopDone PROVE Stays
  BY <1>17 DEF StopDone, Ended
<1>18. ASSUME NEW s \in Threads, Spawn(s) PROVE Stays
  BY <1>18 DEF Spawn
<1>19. ASSUME SpawnFail PROVE Stays
  BY <1>19 DEF SpawnFail
<1>20. ASSUME Deinit PROVE Stays
  BY <1>20 DEF Deinit
<1>21. ASSUME NEW kind \in DOMAIN Handler, RecvTcp(kind) PROVE Stays
  BY <1>21 DEF RecvTcp, Dispatch, Handler
<1>22. ASSUME NEW p \in Peers, NEW kind \in DOMAIN Handler, RecvUdp(p, kind) PROVE Stays
  BY <1>22 DEF RecvUdp, Dispatch, Handler
<1>23. ASSUME NEW s \in Threads, Ep6Set(s) PROVE Stays
  BY <1>23 DEF Ep6Set, Goto
<1>24. ASSUME NEW s \in Threads, Ep6Loop(s) PROVE Stays
  BY <1>24 DEF Ep6Loop, Goto
<1>25. ASSUME NEW s \in Threads, Ep6Choose(s) PROVE Stays
  BY <1>25 DEF Ep6Choose, Goto
<1>26. ASSUME NEW s \in Threads, Ep6SendUdp(s) PROVE Stays
  BY <1>26 DEF Ep6SendUdp, Goto
<1>27. ASSUME NEW s \in Threads, Ep6SendTcp(s) PROVE Stays
  BY <1>27 DEF Ep6SendTcp, Goto
<1>28. ASSUME NEW s \in Threads, Ep6SendPipe(s) PROVE Stays
  BY <1>28 DEF Ep6SendPipe, Goto
<1>29. ASSUME NEW s \in Threads, Ep6Reset(s) PROVE Stays
  BY <1>29 DEF Ep6Reset, Goto
<1>30. ASSUME NEW s \in Threads, Ep6ResetLast(s) PROVE Stays
  BY <1>30 DEF Ep6ResetLast, Goto
<1>31. ASSUME NEW c \in Conns, Connect(c) PROVE Stays
  BY <1>31 DEF Connect
<1>32. ASSUME NEW c \in Conns, PeerClose(c) PROVE Stays
  BY <1>32 DEF PeerClose
<1>33. ASSUME NEW c \in Conns, PeerReset(c) PROVE Stays
  BY <1>33 DEF PeerReset
<1>34. ASSUME NEW c \in Conns, Stall(c) PROVE Stays
  BY <1>34 DEF Stall
<1>35. ASSUME UNCHANGED vars PROVE Stays
  BY <1>35 DEF vars
<1>36. Service!Next \/ Stays
  BY <1>1, <1>2, <1>3, <1>4, <1>5, <1>6, <1>7, <1>8, <1>9, <1>10, <1>11,
  <1>12, <1>13, <1>14, <1>15, <1>16, <1>17, <1>18, <1>19, <1>20, <1>21,
  <1>22, <1>23, <1>24, <1>25, <1>26, <1>27, <1>28, <1>29, <1>30, <1>31,
  <1>32, <1>33, <1>34, <1>35
  DEF Next, NetStep, Receive, Ep6Step, Environment, Finished
<1> QED
  BY <1>36 DEF Service!vars

\* The threads and flags of Session keep what StreamService promises.
THEOREM Refinement ==
  ASSUME ~SpawnMayFail PROVE Spec => ServiceSpec
<1>1. Init => Service!Init
  BY DEF Init, Service!Init, Served, Streaming
<1>2. IInv /\ [Next]_vars => [Service!Next]_(Service!vars)
  BY ServiceStep, ~SpawnMayFail
<1> QED
  BY Invariance, <1>1, <1>2, PTL DEF Spec, ServiceSpec, Service!Spec
=============================================================================
