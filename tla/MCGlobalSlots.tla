--------------------------- MODULE MCGlobalSlots ----------------------------
(* Small instances of GlobalSlots.                                         *)
EXTENDS GlobalSlots, TLC

AllRules == {"import", "link", "const", "save", "late", "override", "extend", "rerun", "body"}
VariableSymmetry == Permutations(Variables)
=============================================================================
