------------------------------ MODULE MCServer ------------------------------
(* Server on small instances. *)
EXTENDS Server, TLC

CONSTANTS c1, c2, h1, h2

Symmetry == Permutations(Conn) \cup Permutations(Handle)
=============================================================================
