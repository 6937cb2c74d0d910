----------------------------- MODULE MCBlockCode -----------------------------
(* BlockCode on every function of a bounded shape.  A nest is a statement   *)
(* of depth d; brk and cont say whether a break or continue may stand there. *)
EXTENDS BlockCode

Do == [kind |-> "do"]
Ret == [kind |-> "return"]
Leaf(brk, cont) == {Do, Ret}
                   \union (IF brk THEN {[kind |-> "break"]} ELSE {})
                   \union (IF cont THEN {[kind |-> "continue"]} ELSE {})

Case(body, breaks) == [body |-> body, breaks |-> breaks]
TopBreak(body) == \E i \in DOMAIN body : body[i].kind = "break"

(* Rules functions may break: "leave": no break or continue leaves a block  *)
(* with variables; "forever": a for with an init has a condition; "alone":  *)
(* a switch has a case; "match": a switch has a default.                    *)
MCRules == {"leave", "forever", "alone", "match"}

RECURSIVE Nest(_, _, _, _)
Bodies(d, brk, cont, rules) ==
  LET last == Nest(d, brk, cont, rules) IN
    {<<s>> : s \in last} \union {<<s, Do>> : s \in last \ Leaf(TRUE, TRUE)}

Nest(d, brk, cont, rules) ==
  IF d = 0 THEN Leaf(brk, cont) ELSE
  LET Inner(own) ==
        LET may == ~own \/ "leave" \notin rules
        IN Bodies(d - 1, brk /\ may, cont /\ may, rules)
      loop == Bodies(d - 1, TRUE, TRUE, rules)
      cases == {b \in Bodies(d - 1, TRUE, cont, rules) : ~TopBreak(b)}
      fors == {f \in [kind : {"for"}, init : BOOLEAN, cond : BOOLEAN, own : {TRUE}, body : loop] :
                 f.init /\ "forever" \in rules => f.cond}
      switches ==
        {s \in [kind : {"switch"}, default : 0 .. 2,
                cases : {<<Case(b, x), Case(<<Do>>, TRUE)>> : b \in cases, x \in BOOLEAN}
                        \union {<<Case(<<Do>>, x), Case(b, TRUE)>> : b \in cases, x \in BOOLEAN}
                        \union {<<Case(b, TRUE)>> : b \in cases}] :
           /\ s.default # 0 => s.default \in DOMAIN s.cases
           /\ s.default # 0 => s.cases[s.default].breaks
           /\ "alone" \in rules => Len(s.cases) > 1 \/ s.default = 0
           /\ "match" \in rules => s.default # 0}
  IN Leaf(brk, cont)
     \union [kind : {"while", "until"}, own : BOOLEAN, body : loop]
     \union fors \union switches
     \union UNION {[kind : {"block"}, own : {o}, body : Inner(o)]
                   \union [kind : {"if"}, own : {o}, body : Inner(o), other : {<<>>, <<Do>>}] :
                   o \in BOOLEAN}

Of(d, but) == {<<s, Ret>> : s \in Nest(d, FALSE, FALSE, MCRules \ but)}
MCShallow == Bodies(1, FALSE, FALSE, MCRules \ {"match"})
MCPrograms == MCShallow \union Of(2, {})
MCLeave == Of(2, {"leave"})
=============================================================================
