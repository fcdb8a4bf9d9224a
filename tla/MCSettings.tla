----------------------------- MODULE MCSettings -----------------------------
(* Frames of every address for checking Settings with TLC.                 *)
EXTENDS Settings

\* Bytes 1 to 4: every bit both set and clear, both formats of address 20.
Bodies == {<<0, 0, 0, 0>>, <<85, 170, 51, 92>>, <<170, 85, 204, 26>>,
           <<255, 255, 255, 255>>}
Frame(c0, b) == [i \in 0 .. 4 |-> IF i = 0 THEN c0 ELSE b[i]]

\* The addresses of the protocol, and two that the switch does not have; one
\* body also comes with PTT.
C0s == {2 * i : i \in 0 .. 17}
MCFrames == {Frame(c0, b) : c0 \in C0s, b \in Bodies}
              \cup {Frame(c0 + 1, <<85, 170, 51, 92>>) : c0 \in C0s}
=============================================================================
