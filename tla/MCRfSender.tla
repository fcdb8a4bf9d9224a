---------------------------- MODULE MCRfSender ----------------------------
(* Frequencies around the limits, small, for checking RfSender with TLC.   *)
EXTENDS RfSender, TLC

CONSTANTS h1, h2, h3

\* Unset, below 1000 Hz, below the lower limit, two in range, above the upper
\* one; the limits are 1000 times smaller than the code's, the guard is not.
MCFreqs == {-1, 500, 1200, 2000, 3000, 9000}
MCSymmetry == Permutations(Handles)
=============================================================================
