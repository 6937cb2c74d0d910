----------------------------- MODULE ScriptFlow -----------------------------
(***************************************************************************)
(* What the control statements of the language promise: which statement or *)
(* condition may run after which, and which blocks with variables are open *)
(* when it runs.  A body is a sequence of statements:                      *)
(*   [kind |-> "do"]                         any other statement           *)
(*   [kind |-> "block", own, body]           { }                           *)
(*   [kind |-> "if", own, body, other]       if-else                       *)
(*   [kind |-> "while", own, body]                                         *)
(*   [kind |-> "until", own, body]           do-while                      *)
(*   [kind |-> "for", init, cond, own, body] init: with var i, cond: with  *)
(*                                           a condition, always a post    *)
(*   [kind |-> "switch", cases, default]     cases: [body, breaks]; default *)
(*                                           is the place of it, or 0      *)
(*   [kind |-> "break"], "continue", "return"                              *)
(* own: the block declares variables.  A block is named by its place in    *)
(* the source, the function's own block by <<>>.                           *)
(***************************************************************************)
EXTENDS Naturals, Sequences

VARIABLES prog,  \* the body of the function
          here   \* what ran last: [at, part, open]

Start == [at |-> <<>>, part |-> "start", open |-> <<>>]
End == [at |-> <<>>, part |-> "end", open |-> <<>>]

Also(first, edges) == [first |-> first, edges |-> edges]

(* Control flow of body from its i-th statement on, at place p, when       *)
(* k.after follows it, k.break and k.continue follow these statements, and *)
(* the blocks k.open are open.                                             *)
RECURSIVE Flow(_, _, _, _)
Flow(body, i, p, k) ==
  IF i > Len(body) THEN Also(k.after, {}) ELSE
  LET s == body[i]
      q == Append(p, i)
      rest == Flow(body, i + 1, p, k)
      next == rest.first
      Mark(part, open) == [at |-> q, part |-> part, open |-> open]
      at == Mark("at", k.open)
      Opened(open, own, n) == IF own THEN Append(open, Append(q, n)) ELSE open
      Inner(own, b, n, after) ==
        Flow(b, 1, Append(q, n), [k EXCEPT !.after = after, !.open = Opened(@, own, n)])
      Loop(again, open) ==
        Flow(s.body, 1, Append(q, 1),
             [after |-> again, break |-> next, continue |-> again,
              open |-> Opened(open, s.own, 1)])
      one ==
        CASE s.kind = "do" -> Also(at, {<<at, next>>})
          [] s.kind = "return" -> Also(at, {<<at, End>>})
          [] s.kind = "break" -> Also(k.break, {})
          [] s.kind = "continue" -> Also(k.continue, {})
          [] s.kind = "block" -> Inner(s.own, s.body, 1, next)
          [] s.kind = "if" ->
               LET then == Inner(s.own, s.body, 1, next)
                   else == Inner(s.own, s.other, 2, next)
               IN Also(at, {<<at, then.first>>, <<at, else.first>>}
                           \union then.edges \union else.edges)
          [] s.kind = "while" ->
               LET loop == Loop(at, k.open)
               IN Also(at, {<<at, loop.first>>, <<at, next>>} \union loop.edges)
          [] s.kind = "until" ->
               LET loop == Loop(at, k.open)
               IN Also(loop.first, {<<at, loop.first>>, <<at, next>>} \union loop.edges)
          [] s.kind = "for" ->
               LET open == Opened(k.open, s.init, 0)
                   init == Mark("init", open)
                   cond == Mark("cond", open)
                   post == Mark("post", open)
                   loop == Loop(post, open)
                   start == IF s.cond THEN cond ELSE loop.first
               IN Also(IF s.init THEN init ELSE start,
                       {<<init, start>>, <<post, start>>, <<cond, loop.first>>,
                        <<cond, next>>} \union loop.edges)
          [] s.kind = "switch" ->
               LET n == Len(s.cases)
                   case[j \in 1 .. n] ==
                     Flow(s.cases[j].body, 1, Append(q, j),
                          [k EXCEPT !.break = next,
                                    !.after = IF s.cases[j].breaks \/ j = n THEN next
                                              ELSE case[j + 1].first])
                   taken == {case[j].first : j \in 1 .. n}
                            \union (IF s.default = 0 THEN {next} ELSE {})
               IN Also(at, ({at} \X taken) \union UNION {case[j].edges : j \in 1 .. n})
  IN Also(one.first, one.edges \union rest.edges)

Edges(body) ==
  LET flow == Flow(body, 1, <<>>, [after |-> End, break |-> End, continue |-> End,
                                   open |-> << <<>> >>])
  IN flow.edges \union {<<Start, flow.first>>}

Init == here = Start

Next == <<here, here'>> \in Edges(prog) /\ UNCHANGED prog

Spec == Init /\ [][Next]_<<prog, here>>
=============================================================================
