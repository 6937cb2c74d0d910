---------------------------- MODULE MCCallFrames ----------------------------
(* Small instances of CallFrames.                                          *)
EXTENDS CallFrames

AllRules == {"setter", "operator", "throw", "retry"}
=============================================================================
