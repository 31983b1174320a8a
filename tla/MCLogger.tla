------------------------------ MODULE MCLogger ------------------------------
(* Logger with two threads, small files and one crash. *)
EXTENDS Logger, TLC

CONSTANTS t1, t2

\* Sound without the liveness property only.
Symmetry == Permutations(Thread)
=============================================================================
