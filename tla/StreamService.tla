--------------------------- MODULE StreamService ---------------------------
(***************************************************************************)
(* What the start/stop handshake promises, without threads and flags: the  *)
(* radio serves at most one client, ends one client's stream before it     *)
(* starts the next, and lets samples into the transmit ring only while     *)
(* some client is served.  Session implements it, and so does Radio.       *)
(***************************************************************************)
CONSTANTS Clients, None

VARIABLES
    client,     \* whom the radio streams to, None when it is stopped
    samples     \* are there samples in the transmit ring?

vars == <<client, samples>>

Init == client = None /\ samples \in BOOLEAN

Begin(c) == client = None /\ client' = c /\ UNCHANGED samples
End      == client # None /\ client' = None /\ UNCHANGED samples
Fill     == client # None /\ samples' = TRUE /\ UNCHANGED client
Drain    == samples' = FALSE /\ UNCHANGED client

Next == (\E c \in Clients : Begin(c)) \/ End \/ Fill \/ Drain

Spec == Init /\ [][Next]_vars
=============================================================================
