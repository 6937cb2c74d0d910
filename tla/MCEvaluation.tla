---------------------------- MODULE MCEvaluation ----------------------------
(* What a script computes with values.  Each behaviour is of one kind: it   *)
(* runs the code of an expression of operators, or of accesses and calls;   *)
(* moves, compares, prints and reads dates; or writes and reads Json.       *)
EXTENDS MCExpressions, MCAccesses, MCData

NoExpression ==
  /\ expr = <<>> /\ start = <<>> /\ code = <<>> /\ pc = 0
  /\ stack = <<>> /\ vars = <<>> /\ status = "none"

NoAccess ==
  /\ program = <<>> /\ frames = <<>> /\ operands = <<>> /\ heap = <<>> /\ progress = "none"

NoCode == NoExpression /\ NoAccess
NoData == NoDates /\ NoJson

MCInit ==
  \/ Init /\ NoAccess /\ NoData
  \/ AccessInit /\ NoExpression /\ NoData
  \/ DatesInit /\ NoJson /\ NoCode
  \/ JsonInit /\ NoDates /\ NoCode

MCNext ==
  \/ status = "running" /\ Next /\ UNCHANGED <<accessVars, dateVars, jsonVars>>
  \/ progress = "running" /\ AccessNext /\ UNCHANGED <<vars_, dateVars, jsonVars>>
  \/ DatesNext /\ UNCHANGED <<vars_, accessVars, jsonVars>>
  \/ JsonNext /\ UNCHANGED <<vars_, accessVars, dateVars>>

MCSpec == MCInit /\ [][MCNext]_<<vars_, accessVars, dateVars, jsonVars>>
=============================================================================
