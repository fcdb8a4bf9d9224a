------------------------------ MODULE MCConfig ------------------------------
(* Small files for checking Config with TLC.                               *)
EXTENDS Config

\* As many bands as allowed, one more, none by a negative number; a filter type
\* not understood, a band with a bad value, no number of bands at all.
Full == [i \in Slots |-> IF i = Total THEN MaxBands ELSE 2]
MCUserContents ==
    {Full,
     [Full EXCEPT ![Total] = MaxBands + 1],
     [Full EXCEPT ![Total] = -1, ![Total + 1] = Missing],
     [Full EXCEPT ![5] = Bad],
     [Full EXCEPT ![Total + MaxBands] = Bad],
     [Full EXCEPT ![Total] = Missing]}
=============================================================================
