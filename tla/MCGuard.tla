------------------------------ MODULE MCGuard ------------------------------
(* Instances of Guard for TLC.                                             *)
EXTENDS Guard, TLC

CONSTANTS c1, c2, t1, t2, t3

\* Cores, threads and epilogues are interchangeable: no definition of Guard
\* tells them apart.
Symmetry == Permutations(Cores) \cup Permutations(Threads)
=============================================================================
