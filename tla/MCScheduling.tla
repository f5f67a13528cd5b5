---------------------------- MODULE MCScheduling ----------------------------
(* Instances of Scheduling for TLC.                                        *)
EXTENDS Scheduling, TLC

CONSTANTS t1, t2, t3

\* Threads are interchangeable; cores are not: Ready pokes the first idle one
\* and core 0 owns the clock.
Symmetry == Permutations(Threads)
=============================================================================
