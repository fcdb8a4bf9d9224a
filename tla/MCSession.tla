----------------------------- MODULE MCSession -----------------------------
(* Model values and symmetry for checking Session with TLC.                *)
EXTENDS Session, TLC

CONSTANTS p1, p2, c1, c2, t1, t2, t3

\* The PCs, their connections and the ep6 threads are interchangeable.  Only runs without
\* temporal properties use it.
Symmetry == Permutations(Peers) \cup Permutations(Conns) \cup Permutations(Threads)
=============================================================================
