---------------------------- MODULE MCRepository ----------------------------
(* CompositeRepository on small instances. *)
EXTENDS CompositeRepository, TLC

CONSTANTS p1, p2, a1, a2, r0, r1, r2

V2Doc == [schema |-> "v2", app |-> a1, prof |-> r1, hand |-> FALSE]
HandDoc == [schema |-> "v3", app |-> a1, prof |-> r0, hand |-> TRUE]
BadDoc == [schema |-> "bad", app |-> a1, prof |-> r0, hand |-> TRUE]

MCUserDocs == {V2Doc, HandDoc, BadDoc}
MCUserDocsV2 == {V2Doc}
MCUserDocsV3 == {HandDoc}

Symmetry == Permutations(Proc)
=============================================================================
