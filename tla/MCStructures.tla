----------------------------- MODULE MCStructures -----------------------------
(* Structures of control and of data.  Each behaviour is of one kind: it    *)
(* runs the code of a function, loops over a container that changes, or is  *)
(* a session with texts.                                                    *)
EXTENDS MCBlockCode, Containers, Texts

MCKeys == 1 .. 3
MCBodyRules == {"current", "shift", "index"}

MCLetters == {"a", "b", "\\"}

(* Nothing; a letter, and with another; an escape.                          *)
MCLiterals == {<<>>, <<"a">>, <<"b", "a">>, <<"\\", "\\">>}

NoCode ==
  /\ prog = <<>> /\ code = <<>> /\ pc = 0 /\ blocks = <<>> /\ height = 0 /\ here = Start

NoTexts ==
  /\ text = <<NoText, NoText>> /\ meant = <<<<>>, <<>>>>
  /\ told = <<"nothing", "nothing", "nothing">> /\ steps = MaxSteps

NoContainer ==
  /\ kind = "object"
  /\ fields = [items |-> <<>>, ring |-> EmptyRing(Nodes)]
  /\ array = [slots |-> [i \in 0 .. MaxNodes + 1 |-> None], count |-> 0]
  /\ made = <<>> /\ freed = {} /\ refs = EmptyRing(Iterators)
  /\ life = [state |-> "dead", next |-> None]
  /\ iterator = [c \in Iterators |-> Free] /\ fault = FALSE

MCInit ==
  \/ CodeInit /\ NoContainer /\ NoTexts
  \/ Init /\ NoCode /\ NoTexts
  \/ TextsInit /\ NoCode /\ NoContainer

MCNext ==
  \/ CodeNext /\ UNCHANGED <<vars, textVars>>
  \/ Next /\ UNCHANGED <<codeVars, textVars>>
  \/ TextsNext /\ UNCHANGED <<codeVars, vars>>

MCSpec == /\ MCInit /\ [][MCNext]_<<codeVars, vars, textVars>>
          /\ WF_vars(DetachNode /\ UNCHANGED <<codeVars, textVars>>)
===============================================================================
