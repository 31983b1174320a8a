----------------------------- MODULE MCTrayHost -----------------------------
(* TrayHost on small instances: two topologies, and for safety two generations
   of one of them. *)
EXTENDS TrayHost, TLC

C11 == [topo |-> 1, gen |-> 1]
C12 == [topo |-> 1, gen |-> 2]
C21 == [topo |-> 2, gen |-> 1]

ThreeConfigs == {C11, C12, C21}
TwoConfigs == {C11, C21}
=============================================================================
