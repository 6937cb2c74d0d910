-------------------------- MODULE MCSharedPointers --------------------------
(* SharedPointers on small instances: a node strictly inside a ring needs   *)
(* a ring of three, and a second block is the list that must not change.    *)
EXTENDS SharedPointers

CONSTANTS o1, o2, o3, o4, b1, b2

MCObject == {o1, o2, o3, o4}
MCBlock == {b1, b2}
=============================================================================
