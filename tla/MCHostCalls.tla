----------------------------- MODULE MCHostCalls -----------------------------
(* HostCalls with objects that are alike.                                  *)
EXTENDS HostCalls, TLC

Symmetric == Permutations(Object) \cup Permutations(Var)
=============================================================================
