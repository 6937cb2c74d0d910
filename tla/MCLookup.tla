------------------------------ MODULE MCLookup ------------------------------
(* What a call finds: behaviours that declare classes and call members, and *)
(* behaviours that register natives and call them.                          *)
EXTENDS TypeMembers, NativeCalls

MCRules == {"extend", "clear"}
MCCallRules == {"same code", "disjoint", "float", "typed", "clear"}

OneParameter == {<<p>> : p \in {"element", "int*", "float*", "A"}}
MCSignatures == OneParameter \cup {<<"A", "bool*">>}
MCArgLists == {<<v>> : v \in {"int", "float", "null", "S", "B"}}
                \cup {<<"D", "bool">>}

Renamings == Permutations(ClassNames) \cup Permutations(NativeNames)

MCInit == Init /\ NativesInit

MCNext ==
  \/ NativesInit /\ Next /\ UNCHANGED nativeVars
  \/ Init /\ NativesNext /\ UNCHANGED vars

MCSpec == MCInit /\ [][MCNext]_<<vars, nativeVars>>
=============================================================================
