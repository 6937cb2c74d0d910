----------------------------- MODULE MCAccesses -----------------------------
(* Accesses on every pair of some twenty accesses and calls, put together  *)
(* as operands, items, fields, arguments, targets and right sides.         *)
EXTENDS Accesses

Const(v) == [k |-> "constant", v |-> v]
Chain(root, steps) == [k |-> "chain", root |-> root, steps |-> steps, op |-> ""]
Named(x) == [k |-> "variable", x |-> x]
Var(x) == Chain(Named(x), <<>>)
Field(f) == [s |-> "field", f |-> f]
Item(e) == [s |-> "item", e |-> e]
Args(args) == [s |-> "call", args |-> args]
This(steps) == Chain([k |-> "this"], steps)
Calls(f, args) == Chain(Named(f), <<Args(args)>>)
Plus2(a, b) == [k |-> "plus", a |-> a, b |-> b]
Set(left, o, right) == [k |-> "assign", left |-> left, o |-> o, right |-> right]
Array(items) == [k |-> "array", items |-> items]
Fields(fields) == [k |-> "object", fields |-> fields]
Num(n) == Const(Whole(n))

ByValue(x) == [x |-> x, by |-> "value", default |-> Const(Nothing)]
ByRef(x) == [x |-> x, by |-> "reference", default |-> Const(Nothing)]
Default(x, e) == [x |-> x, by |-> "value", default |-> e]
Collected(x) == [x |-> x, by |-> "rest", default |-> Const(Nothing)]
Function(params, body, result) == [params |-> params, body |-> body, result |-> result]

TheFunctions ==
  [id |-> Function(<<ByValue("p")>>, <<>>, <<Var("p")>>),
   bump |-> Function(<<>>, <<Set(Var("x"), "+=", Num(1))>>, <<Var("x")>>),
   increase |-> Function(<<ByRef("p")>>, <<Set(Var("p"), "+=", Num(1))>>, <<>>),
   twice |-> Function(<<ByRef("p"), ByValue("q")>>,
               <<Calls("increase", <<Var("p")>>), Set(Var("q"), "=", Var("p")),
                 Calls("increase", <<Var("p")>>), Calls("increase", <<Var("q")>>)>>, <<Var("q")>>),
   swap |-> Function(<<ByRef("p"), ByRef("q"), ByValue("t")>>,
              <<Set(Var("t"), "=", Var("p")), Set(Var("p"), "=", Var("q")), Set(Var("q"), "=", Var("t"))>>, <<>>),
   rest |-> Function(<<ByValue("p"), Collected("r")>>, <<>>, <<Var("r")>>),
   opt |-> Function(<<ByValue("p"), Default("q", Calls("bump", <<>>)), Default("r", Num(7))>>, <<>>,
             <<Array(<<Var("p"), Var("q"), Var("r")>>)>>),
   pick |-> Function(<<ByValue("p"), ByValue("q")>>, <<>>, <<Var("p")>>),
   apply |-> Function(<<ByValue("p"), ByValue("q")>>, <<Chain(Named("p"), <<Args(<<Num(4)>>)>>)>>,
               <<Chain(Named("p"), <<Args(<<Var("q")>>)>>)>>),
   made |-> Function(<<ByValue("p")>>, <<Set(This(<<Field("n")>>), "=", Var("p"))>>, <<>>),
   get |-> Function(<<>>, <<>>, <<This(<<Field("n")>>)>>),
   add |-> Function(<<ByValue("p")>>, <<Set(This(<<Field("n")>>), "+=", Var("p"))>>, <<Chain([k |-> "this"], <<>>)>>),
   both |-> Function(<<>>, <<>>,
              <<Plus2(This(<<Field("g"), Args(<<Num(2)>>)>>),
                      This(<<Field("add"), Args(<<Num(1)>>), Field("get"), Args(<<>>)>>))>>)]

TheClasses == [C |-> [get |-> "get", add |-> "add", both |-> "both"], D |-> [get |-> "get"]]
TheConstructors == [C |-> "made"]

(* The arrays count from 0.                                                *)
ZeroBased(items) == [i \in 0 .. Len(items) - 1 |-> items[i + 1]]

TheMemory ==
  [globals |-> [x |-> Whole(1), y |-> Whole(2), u |-> Nothing, f |-> Fun("id"), h |-> Method(3, "get"),
                a |-> Object(1), o |-> Object(2), c |-> Object(3)],
   heap |-> <<[kind |-> "array", slots |-> ZeroBased(<<Whole(10), Object(4)>>)],
              [kind |-> "object", slots |-> [n |-> Whole(3), a |-> Object(1)]],
              [kind |-> "C", slots |-> [n |-> Whole(7), g |-> Fun("id")]],
              [kind |-> "array", slots |-> ZeroBased(<<Whole(20), Fun("id"), Method(3, "get")>>)]>>]

Places ==
  {Var("x"),
   Chain(Named("o"), <<Field("n")>>), Chain(Named("o"), <<Field("k")>>),
   Chain(Named("o"), <<Item(Const(String("m")))>>),
   Chain(Named("a"), <<Item(Num(0))>>), Chain(Named("a"), <<Item(Num(2))>>),
   Chain(Named("o"), <<Field("a"), Item(Var("x")), Item(Num(0))>>),
   Chain(Named("c"), <<Field("add"), Args(<<Num(2)>>), Field("n")>>)}

Updatings == {[p EXCEPT !.op = op] : p \in Places, op \in {"x++", "++x"}}

CallsOf(e) ==
  {Calls("bump", <<>>), Calls("id", <<e>>), Calls("f", <<e>>), Calls("h", <<>>), Calls("apply", <<Var("f"), e>>),
   Calls("increase", <<Var("x")>>), Calls("increase", <<e>>), Calls("twice", <<Var("x"), e>>), Calls("swap", <<Var("x"), Var("y")>>),
   Calls("rest", <<e>>), Calls("rest", <<Var("x"), e, Num(5)>>), Calls("opt", <<e>>), Calls("opt", <<Num(1), e>>),
   Chain(Named("pick"), <<Args(<<Var("f"), e>>), Args(<<e>>)>>), Calls("pick", <<Var("x"), e>>),
   Chain(Named("a"), <<Item(Num(1)), Item(e), Args(<<Num(6)>>)>>),
   Chain(Named("c"), <<Field("get"), Args(<<>>)>>), Chain(Named("c"), <<Field("both"), Args(<<>>)>>),
   Chain(Named("c"), <<Field("add"), Args(<<e>>), Field("get"), Args(<<Num(1)>>)>>),
   Chain(Named("c"), <<Field("get")>>), Chain(Named("c"), <<Field("missing")>>),
   Chain(Named("c"), <<Field("g"), Args(<<e>>)>>)}

Literals(e) ==
  {Chain(Array(<<Num(5), e>>), <<Item(Num(1))>>), Chain(Fields(<<[f |-> "n", e |-> e]>>), <<Field("n")>>),
   Chain([k |-> "new", class |-> "C", args |-> <<e>>], <<Field("get"), Args(<<>>)>>),
   [k |-> "new", class |-> "D", args |-> <<e>>], Array(<<e, e>>),
   Fields(<<[f |-> "n", e |-> e], [f |-> "m", e |-> Num(1)]>>)}

Simple == Places \cup Updatings \cup {Num(2)}
Complex == UNION {CallsOf(e) \cup Literals(e) : e \in {Var("x"), Calls("bump", <<>>)}}

TheAccesses ==
  {Plus2(a, b) : a \in Simple \cup Complex, b \in Complex}
  \cup {Set(p, o, e) : p \in Places, o \in {"=", "+="}, e \in Simple \cup Complex}
  \cup UNION {CallsOf(e) \cup Literals(e) : e \in Simple \cup Complex}
=============================================================================
