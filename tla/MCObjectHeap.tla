---------------------------- MODULE MCObjectHeap ----------------------------
(* ObjectHeap on a small instance: three objects make the shortest list,    *)
(* tree and cycle that are not degenerate.                                  *)
EXTENDS ObjectHeap, TLC

CONSTANTS o1, o2, o3, f1, f2, v1

MCObject == {o1, o2, o3}
MCField == {f1}
MCFields == {f1, f2}
MCVariable == {v1}
MCSymmetric == Permutations(MCObject)
MCRules == {"swap", "advance", "return", "item", "saved"}
MCSwap == MCRules \ {"swap"}
=============================================================================
