---------------------------- MODULE MCExpressions ----------------------------
(* Expressions on small sets of programs: lists of up to three operands    *)
(* with every operator, Boolean lists of up to four, and groups and        *)
(* ternaries in every place of a list.                                     *)
EXTENDS Expressions

Constant(v) == [k |-> "constant", v |-> v]
Variable(x) == [k |-> "variable", x |-> x]
Incremented(x) == [k |-> "increment", x |-> x, first |-> FALSE]
IncrementedFirst(x) == [k |-> "increment", x |-> x, first |-> TRUE]
Group(e, sign) == [k |-> "group", e |-> e, sign |-> sign]
Plain(tokens) == [tokens |-> tokens, parts |-> <<>>, assign |-> <<>>]
Ternary(tokens, a, b) == [tokens |-> tokens, parts |-> <<a, b>>, assign |-> <<>>]
Assigned(e, assign) == [e EXCEPT !.assign = assign]

TheLocals == {"x", "b"}
TheGlobals == {"y", "c"}
TheStarts == [x : {Integer(2)}, y : {Integer(1), Float(3, 2)}, b : {True, False}, c : {True, False}]

List3(A, O) == {<<a, o, d, p, e>> : a \in A, o \in O, d \in A, p \in O, e \in A}
List4(A, O) == {l \o <<p, e>> : l \in List3(A, O), p \in O, e \in A}

Numbers == {Constant(Integer(2)), Constant(Integer(0)), Constant(Float(1, 2)), Variable("x"), Variable("y"), Incremented("x"), IncrementedFirst("x")}
Booleans == {Constant(True), Variable("b"), Variable("c"), Group(Assigned(Plain(<<Variable("c")>>), <<[x |-> "b", o |-> "="]>>), "")}

Flats == {Plain(l) : l \in List3(Numbers, {"-", "+", "/", "<"})}
Bools == {Plain(l) : l \in List4(Booleans, Logic)}
Mixed == {Plain(<<a, "<", d, o, e, "==", f>>) :
            a \in {Constant(Integer(2)), Variable("x")}, d \in {Variable("y"), Incremented("x")}, o \in Logic,
            e \in Booleans, f \in Booleans}

Inner ==
  {Plain(<<Variable("c"), o, Variable("b")>>) : o \in Logic}
  \cup {Ternary(<<t>>, Plain(<<p>>), Plain(<<q>>)) :
          t \in {Variable("b")}, p \in {Constant(Integer(2)), Incremented("x")}, q \in {Variable("x"), Constant(Integer(2)), Variable("c")}}
  \cup {Plain(<<Variable("x"), "-", Variable("y")>>)}

Grouped ==
  {Plain(<<Group(e, s), o, a>>) : e \in Inner, s \in {"", "!", "-"}, o \in {"-", "==", "&&", "||"}, a \in {Variable("x"), Variable("b"), Constant(Integer(2)), Constant(True)}}
  \cup {Plain(<<a, o, Group(e, s)>>) : e \in Inner, s \in {"", "!", "-"}, o \in {"-", "==", "&&", "||"}, a \in {Variable("x"), Variable("b"), Constant(Integer(2)), Constant(True)}}

Ternaries ==
  {Ternary(t, p, q) : t \in List3({Variable("b"), Variable("c")}, Logic), p \in Inner, q \in {Plain(<<Variable("y")>>), Plain(<<Constant(Integer(2)), "*", Variable("x")>>)}}

Stores ==
  {Assigned(e, a) : e \in {Plain(<<Incremented("x")>>), Plain(<<Variable("y"), "+", Variable("x")>>)} \cup Inner,
                    a \in {<<[x |-> u, o |-> o]>> : u \in {"x", "y"}, o \in {"=", "+", "/"}}
                          \cup {<<[x |-> u, o |-> o], [x |-> "x", o |-> p]>> : u \in {"x", "y"}, o \in {"=", "-"}, p \in {"=", "-"}}}

Rights == {Plain(<<Incremented("x")>>), Plain(<<Variable("x"), "-", Variable("y")>>), Plain(<<Variable("y")>>)} \cup Inner
Lists ==
  {[lefts |-> l, rights |-> r] : l \in {<<"x", "y">>, <<"y", "x">>},
                                r \in {<<p>> : p \in Rights} \cup {<<p, q>> : p \in Rights, q \in Rights}
                                      \cup {<<p, q, p>> : p \in Rights, q \in Rights}}

ThePrograms == Lists \cup Flats \cup Bools \cup Mixed \cup Grouped \cup Ternaries \cup Stores
=============================================================================
