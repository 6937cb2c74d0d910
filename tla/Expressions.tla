----------------------------- MODULE Expressions -----------------------------
(***************************************************************************)
(* How an expression becomes byte code and what the byte code computes.    *)
(* The compiler cuts the list of operands and operators at its loosest     *)
(* operator, emits both sides and merges the last two instructions it has  *)
(* emitted: two constants into one, a load of a local variable into the    *)
(* operator.  `&&` and `||` and the ternary operator are jumps, whose      *)
(* distances are written when the whole expression has been emitted; the   *)
(* assignments come last.  An expression is                                *)
(*   [tokens : operands and operators in turn,                             *)
(*    parts  : <<>> or the two parts of a ternary,                         *)
(*    assign : the assignments on its left, from left to right]            *)
(* and the model runs what the compiler emitted, one instruction a step,   *)
(* next to the value the same expression has when it is read as a tree.    *)
(***************************************************************************)
EXTENDS Integers, Sequences, FiniteSets

CONSTANTS Locals,       \* variables that an instruction can name as a register
          Globals,      \* variables that are always loaded
          Programs,     \* the expressions that are compiled
          Starts,       \* what the variables may hold: [Locals \cup Globals -> values]
          Keeps         \* the rules the programs follow

Rules == {"flat", "one type", "one update"}

ASSUME RulesAssumption == Keeps \subseteq Rules
ASSUME VariablesAssumption == Locals \cap Globals = {}

VARIABLES expr,         \* the expression
          start,        \* the variables before it
          code,         \* the instructions the compiler emitted
          pc,           \* the instruction to run
          stack,        \* the operand stack
          vars,         \* the variables
          status        \* "refused", "running", "done", "error"

vars_ == <<expr, start, code, pc, stack, vars, status>>

-----------------------------------------------------------------------------
(* Values.  A float is a fraction n/d, a Boolean is 0 or 1.                 *)

Integer(n) == [t |-> "int", n |-> n, d |-> 1]
Float(n, d) == [t |-> "float", n |-> IF d < 0 THEN -n ELSE n, d |-> IF d < 0 THEN -d ELSE d]
Boolean(b) == [t |-> "bool", n |-> IF b THEN 1 ELSE 0, d |-> 1]
Failure == [t |-> "error", n |-> 0, d |-> 1]
Undefined == [t |-> "undefined", n |-> 0, d |-> 1]

True == Boolean(TRUE)
False == Boolean(FALSE)

IsNumber(v) == v.t \in {"int", "float"}
Comparable(a, b) == (IsNumber(a) /\ IsNumber(b)) \/ (a.t = "bool" /\ b.t = "bool")
Number(a, b, n, d) == IF a.t = "int" /\ b.t = "int" THEN Integer(n) ELSE Float(n, d)

Comparing == {"==", "<"}
Logic == {"&&", "||"}

(* An operator of the machine on two values: numbers of either type mix,   *)
(* Booleans compare with Booleans, a division gives a float, and what is   *)
(* left goes to a metamethod, which primitive values do not have.          *)
Compute(o, a, b) ==
  CASE o = "+" /\ IsNumber(a) /\ IsNumber(b) -> Number(a, b, a.n * b.d + b.n * a.d, a.d * b.d)
    [] o = "-" /\ IsNumber(a) /\ IsNumber(b) -> Number(a, b, a.n * b.d - b.n * a.d, a.d * b.d)
    [] o = "*" /\ IsNumber(a) /\ IsNumber(b) -> Number(a, b, a.n * b.n, a.d * b.d)
    [] o = "/" /\ IsNumber(a) /\ IsNumber(b) /\ b.n # 0 -> Float(a.n * b.d, a.d * b.n)
    [] o = "<" /\ Comparable(a, b) ->
         Boolean(a.n * b.d < b.n * a.d)
    [] o = "==" /\ Comparable(a, b) ->
         Boolean(a.n * b.d = b.n * a.d)
    [] o = "&&" /\ a.t = "bool" /\ b.t = "bool" -> Boolean(a = True /\ b = True)
    [] o = "||" /\ a.t = "bool" /\ b.t = "bool" -> Boolean(a = True \/ b = True)
    [] OTHER -> Failure

Negated(o, a) ==
  CASE o = "-" /\ IsNumber(a) -> [a EXCEPT !.n = -a.n]
    [] o = "!" /\ a.t = "bool" -> Boolean(a = False)
    [] OTHER -> Failure

(* The bits of a small integer read as a float are nearly 0; the bits of a *)
(* float read as an integer are so large that a number over them is too.   *)
AsFloatBits(a) == Float(0, 1)

(* What the compiler computes of two constants.  It differs from the       *)
(* machine where an integer meets a float: the quotient reads each operand *)
(* as the other type, and the result of a comparison is left in the float  *)
(* nobody takes.                                                           *)
Fold(o, a, b) ==
  LET mixed == a.t = "int" /\ b.t = "float"
  IN CASE o = "/" /\ mixed /\ b.n # 0 -> AsFloatBits(a)
       [] o \in Comparing /\ mixed -> False
       [] OTHER -> Compute(o, a, b)

(* The machine's `x o= v`: an integer that a float is added to is first    *)
(* read as a float, bit by bit; only the quotient converts it.             *)
Updated(o, a, b) ==
  IF o # "/" /\ a.t = "int" /\ b.t = "float" THEN Compute(o, AsFloatBits(a), b)
  ELSE Compute(o, a, b)

-----------------------------------------------------------------------------
(* The compiler.                                                           *)

Preference(o) ==
  CASE o = "||" -> 0 [] o = "&&" -> 1 [] o \in Comparing -> 2 [] o \in {"+", "-"} -> 3
    [] OTHER -> 4

IsOperator(i) == i % 2 = 0

SplitFirst(tokens, first, last) ==      \* mutant: the first of them
  LET ops == {i \in first .. last : IsOperator(i)}
      loosest == {i \in ops : \A j \in ops : Preference(tokens[i]) <= Preference(tokens[j])}
  IN CHOOSE i \in loosest : \A j \in loosest : i <= j

(* Where a list of tokens is cut: at the last of its loosest operators.    *)
Split(tokens, first, last) ==
  LET ops == {i \in first .. last : IsOperator(i)}
      loosest == {i \in ops : \A j \in ops : Preference(tokens[i]) <= Preference(tokens[j])}
  IN CHOOSE i \in loosest : \A j \in loosest : j <= i

IsConstant(ins) == ins.i = "push"
IsRegister(ins) == ins.i = "load" /\ ins.x \in Locals

BothConstant(a, b) == IsConstant(a) /\ IsConstant(b)
LastTwoConstant(done) ==
  Len(done) >= 2 /\ BothConstant(done[Len(done) - 1], done[Len(done)])

Without(done, n) == SubSeq(done, 1, Len(done) - n)

Folded(done, o, a, b) ==
  LET v == Fold(o, a.v, b.v)
  IN Append(Without(done, 2), IF v = Failure THEN [i |-> "refused"] ELSE [i |-> "push", v |-> v])

(* The operator and the last two instructions become one instruction where *)
(* the compiler knows a form for them: constants are computed, registers   *)
(* and constants become operands of the operator, which then takes fewer   *)
(* values from the stack.                                                  *)
Merged(done, o) ==
  LET a == done[Len(done) - 1]
      b == done[Len(done)]
      operate(args) == [i |-> "operate", o |-> o, args |-> args]
      plain == Append(done, operate(<<>>))
  IN IF Len(done) < 2 THEN plain
     ELSE IF BothConstant(a, b) THEN Folded(done, o, a, b)
     ELSE IF (IsRegister(a) \/ IsConstant(a)) /\ (IsRegister(b) \/ IsConstant(b))
     THEN Append(Without(done, 2), operate(<<a, b>>))
     ELSE IF IsRegister(b) THEN Append(Without(done, 1), operate(<<b>>))
     ELSE plain

RECURSIVE ExpressionCode(_, _)

(* An expression in brackets is compiled on its own, its sign behind it.   *)
GroupCode(token) ==
  ExpressionCode(<<>>, token.e)
  \o (IF token.sign = "" THEN <<>> ELSE <<[i |-> "sign", o |-> token.sign]>>)

(* `x++` and `++x` work on the address of the variable.                    *)
IncrementCode(token) ==
  <<[i |-> "address", x |-> token.x], [i |-> "increment", first |-> token.first]>>

OperandCode(token) ==
  CASE token.k = "constant" -> <<[i |-> "push", v |-> token.v]>>
    [] token.k = "variable" -> <<[i |-> "load", x |-> token.x]>>
    [] token.k = "increment" -> IncrementCode(token)
    [] token.k = "group" -> GroupCode(token)

RECURSIVE TokensCode(_, _, _, _)

(* Both sides of the cut and the operator.  `&&` and `||` put a jump       *)
(* between the sides, whose distance is not known yet.                     *)
TokensCode(done, tokens, first, last) ==
  IF first >= last THEN done \o OperandCode(tokens[first])
  ELSE LET at == Split(tokens, first, last)
           o == tokens[at]
           left == TokensCode(done, tokens, first, at - 1)
       IN IF o \in Logic /\ ~LastTwoConstant(left)
          THEN TokensCode(Append(left, [i |-> "open", o |-> o]), tokens, at + 1, last)
          ELSE Merged(TokensCode(left, tokens, at + 1, last), o)

(* The distances of the jumps: `||` goes to the value true behind the      *)
(* code, `&&` behind the next `||` or to the value false.  The code that   *)
(* reaches its end jumps over both values.                                 *)
Jumps(done, from) ==
  LET opened(o) == {i \in from + 1 .. Len(done) : done[i].i = "open" /\ done[i].o = o}
      ands == opened("&&")
      ors == opened("||")
      n == Len(done)
      both == ands # {} /\ ors # {}
      ifTrue == IF ors = {} THEN <<>> ELSE <<[i |-> "push", v |-> True]>>
      over == IF both THEN <<[i |-> "jump", by |-> 2]>> ELSE <<>>
      ifFalse == IF ands = {} THEN <<>> ELSE <<[i |-> "push", v |-> False]>>
      falseAt == n + 1 + Len(ifTrue) + Len(over) + 1
      nextOr(i) == {j \in ors : j > i}
      target(i) == IF i \in ors THEN n + 2
                   ELSE IF nextOr(i) = {} THEN falseAt
                   ELSE (CHOOSE j \in nextOr(i) : \A k \in nextOr(i) : j <= k) + 1
      closed == [i \in 1 .. n |->
                  IF i \in ands THEN [i |-> "branch", on |-> False, by |-> target(i) - i]
                  ELSE IF i \in ors THEN [i |-> "branch", on |-> True, by |-> target(i) - i]
                  ELSE done[i]]
  IN IF ands \cup ors = {} THEN done
     ELSE closed \o <<[i |-> "jump", by |-> IF both THEN 4 ELSE 2]>> \o ifTrue \o over \o ifFalse

(* The ternary operator: the first part is skipped when the condition is   *)
(* false, the second when the first has run.                               *)
TernaryCode(done, parts) ==
  LET first == ExpressionCode(Append(done, [i |-> "branch", on |-> False, by |-> 0]), parts[1])
      second == ExpressionCode(Append(first, [i |-> "jump", by |-> 0]), parts[2])
  IN [i \in 1 .. Len(second) |->
       IF i = Len(done) + 1 THEN [second[i] EXCEPT !.by = Len(first) - Len(done) + 1]
       ELSE IF i = Len(first) + 1 THEN [second[i] EXCEPT !.by = Len(second) - Len(first)]
       ELSE second[i]]

(* The assignments follow the value, the leftmost first.                   *)
StoreCode(assign) ==
  [i \in 1 .. 2 * Len(assign) |->
    LET a == assign[(i + 1) \div 2]
    IN IF i % 2 = 1 THEN [i |-> "address", x |-> a.x] ELSE [i |-> "store", o |-> a.o]]

(* `a, b = e, f`: the values on the right are computed from the last to    *)
(* the first, undefined where there is none, then come the addresses and   *)
(* one store for all of them.                                              *)
ListCode(list) ==
  LET n == Len(list.lefts)
      r == Len(list.rights)
      max == IF r > n THEN r ELSE n
      values == [i \in 1 .. max |->
                  IF max + 1 - i > r THEN <<[i |-> "push", v |-> Undefined]>>
                  ELSE ExpressionCode(<<>>, list.rights[max + 1 - i])]
      addresses == [i \in 1 .. n |-> [i |-> "address", x |-> list.lefts[i]]]
      flat[i \in 0 .. max] == IF i = 0 THEN <<>> ELSE flat[i - 1] \o values[i]
  IN flat[max] \o addresses \o <<[i |-> "stores", n |-> n]>>

ExpressionCode(done, e) ==
  LET value == Jumps(TokensCode(done, e.tokens, 1, Len(e.tokens)), Len(done))
      all == IF e.parts = <<>> THEN value ELSE TernaryCode(value, e.parts)
  IN all \o StoreCode(e.assign)

-----------------------------------------------------------------------------
(* The programs.                                                           *)

IsList(program) == "lefts" \in DOMAIN program

RECURSIVE HasJumps(_)
HasJumps(e) ==
  \/ e.parts # <<>>
  \/ \E i \in 1 .. Len(e.tokens) :
       IF IsOperator(i) THEN e.tokens[i] \in Logic
       ELSE e.tokens[i].k = "group" /\ HasJumps(e.tokens[i].e)

RECURSIVE Subexpressions(_)
Subexpressions(e) ==
  {e} \cup UNION {Subexpressions(e.parts[i]) : i \in 1 .. Len(e.parts)}
      \cup UNION {Subexpressions(e.tokens[i].e) :
                    i \in {j \in 1 .. Len(e.tokens) : ~IsOperator(j) /\ e.tokens[j].k = "group"}}

Constants(e) ==
  {e.tokens[i].v : i \in {j \in 1 .. Len(e.tokens) : ~IsOperator(j) /\ e.tokens[j].k = "constant"}}

(* "flat": an expression in brackets with `&&`, `||` or `?:` in it is not  *)
(* the operand of an arithmetic or comparing operator.  The operator's     *)
(* merge looks at the last two instructions, and those of such an operand  *)
(* are only one of the ways through it.                                    *)
Flat(e) ==
  \A s \in Subexpressions(e) :
    (\E i \in 1 .. Len(s.tokens) : IsOperator(i) /\ s.tokens[i] \notin Logic) =>
      \A i \in 1 .. Len(s.tokens) :
        (~IsOperator(i) /\ s.tokens[i].k = "group") => ~HasJumps(s.tokens[i].e)

Divides(e) ==
  \E i \in 2 .. Len(e.tokens) - 1 :
    IsOperator(i) /\ e.tokens[i] = "/" /\ {e.tokens[i - 1].k, e.tokens[i + 1].k} \subseteq {"constant", "group"}

Updates(e) ==
  \E s \in Subexpressions(e) : \E i \in 1 .. Len(s.assign) : s.assign[i].o # "="

(* "one type": the constants of an expression are all integers that are    *)
(* not divided by each other, or all floats; where a variable is updated,  *)
(* this holds of the variables as well.                                    *)
OneType(e, values) ==
  LET constants == UNION {Constants(s) : s \in Subexpressions(e)}
      numbers == constants \cup (IF Updates(e) THEN {values[x] : x \in DOMAIN values} ELSE {})
  IN (\E v \in numbers : v.t = "int") =>
       /\ \A v \in numbers : v.t # "float"
       /\ \A s \in Subexpressions(e) : ~Divides(s)

(* "one update": of the assignments in a row, only a lone one updates.     *)
OneUpdate(e) ==
  \A s \in Subexpressions(e) :
    Len(s.assign) > 1 => \A i \in 1 .. Len(s.assign) : s.assign[i].o = "="

KeepsRules(program, values) ==
  \A e \in IF IsList(program) THEN {program.rights[i] : i \in 1 .. Len(program.rights)} ELSE {program} :
    /\ "flat" \in Keeps => Flat(e)
    /\ "one type" \in Keeps => OneType(e, values)
    /\ "one update" \in Keeps => OneUpdate(e)

-----------------------------------------------------------------------------
(* The machine.                                                            *)

Init ==
  /\ expr \in Programs
  /\ start \in Starts
  /\ KeepsRules(expr, start)
  /\ vars = start
  /\ code = IF IsList(expr) THEN ListCode(expr) ELSE ExpressionCode(<<>>, expr)
  /\ pc = 1 /\ stack = <<>>
  /\ status = IF \E i \in 1 .. Len(code) : code[i].i = "refused" THEN "refused" ELSE "running"

Top(n) == stack[Len(stack) - n]
Below(n) == SubSeq(stack, 1, Len(stack) - n)
Running(kind) == status = "running" /\ pc <= Len(code) /\ code[pc].i = kind

(* An instruction ends with a value for the stack, or the program stops.   *)
Push(rest, v) ==
  IF v = Failure THEN status' = "error" /\ UNCHANGED <<stack, pc>>
  ELSE stack' = Append(rest, v) /\ pc' = pc + 1 /\ UNCHANGED status

Value(ins) == IF ins.i = "push" THEN ins.v ELSE vars[ins.x]

Load ==
  /\ (Running("push") \/ Running("load"))
  /\ Push(stack, Value(code[pc]))
  /\ UNCHANGED <<expr, start, code, vars>>

Address ==
  /\ Running("address")
  /\ Push(stack, [t |-> "address", x |-> code[pc].x])
  /\ UNCHANGED <<expr, start, code, vars>>

Sign ==
  /\ Running("sign")
  /\ Push(Below(1), Negated(code[pc].o, Top(0)))
  /\ UNCHANGED <<expr, start, code, vars>>

(* The variable is changed; its value before or after goes to the stack.   *)
Increment ==
  /\ Running("increment")
  /\ LET x == Top(0).x
         more == Compute("+", vars[x], Integer(1))
     IN /\ Push(Below(1), IF more = Failure \/ code[pc].first THEN more ELSE vars[x])
        /\ vars' = IF more = Failure THEN vars ELSE [vars EXCEPT ![x] = more]
  /\ UNCHANGED <<expr, start, code>>

Operate ==
  /\ Running("operate")
  /\ LET args == code[pc].args
         o == code[pc].o
     IN CASE Len(args) = 0 -> Push(Below(2), Compute(o, Top(1), Top(0)))
          [] Len(args) = 1 -> Push(Below(1), Compute(o, Top(0), Value(args[1])))
          [] Len(args) = 2 -> Push(stack, Compute(o, Value(args[1]), Value(args[2])))
  /\ UNCHANGED <<expr, start, code, vars>>

Branch ==
  /\ Running("branch")
  /\ IF Top(0).t # "bool" THEN status' = "error" /\ UNCHANGED <<stack, pc>>
     ELSE /\ stack' = Below(1)
          /\ pc' = IF Top(0) = code[pc].on THEN pc + code[pc].by ELSE pc + 1
          /\ UNCHANGED status
  /\ UNCHANGED <<expr, start, code, vars>>

Jump ==
  /\ Running("jump")
  /\ pc' = pc + code[pc].by
  /\ UNCHANGED <<expr, start, code, stack, vars, status>>

(* An assignment takes the address and the value and leaves the value.     *)
Store ==
  /\ Running("store")
  /\ LET x == Top(0).x
         v == IF code[pc].o = "=" THEN Top(1) ELSE Updated(code[pc].o, vars[x], Top(1))
     IN /\ Push(Below(2), v)
        /\ vars' = IF v = Failure THEN vars ELSE [vars EXCEPT ![x] = v]
  /\ UNCHANGED <<expr, start, code>>

(* The store of a list: the last address is on top, its value is the       *)
(* lowest of the values that have an address.  A statement keeps nothing.  *)
StoreList ==
  /\ Running("stores")
  /\ LET n == code[pc].n
         address(i) == stack[Len(stack) + 1 - i].x      \* the i-th that is taken
         value(i) == stack[Len(stack) - 2 * n + i]
         taken(x) == {i \in 1 .. n : address(i) = x}
     IN vars' = [x \in DOMAIN vars |->
                  IF taken(x) = {} THEN vars[x]
                  ELSE value(CHOOSE i \in taken(x) : \A j \in taken(x) : j <= i)]
  /\ stack' = <<>> /\ pc' = pc + 1
  /\ UNCHANGED <<expr, start, code, status>>

Finish ==
  /\ status = "running" /\ pc > Len(code)
  /\ status' = "done"
  /\ UNCHANGED <<expr, start, code, pc, stack, vars>>

Next == Load \/ Address \/ Sign \/ Increment \/ Operate \/ Branch \/ Jump \/ Store \/ StoreList \/ Finish

Spec == Init /\ [][Next]_vars_ /\ WF_vars_(Next)

-----------------------------------------------------------------------------
(* What an expression means.  A result is a value and the variables after  *)
(* it; a failure keeps the variables it had.                               *)

Result(v, s) == [v |-> v, s |-> s]

RECURSIVE Meaning(_, _)

Signed(sign, r) == IF sign = "" THEN r ELSE Result(Negated(sign, r.v), r.s)

OperandMeaning(token, s) ==
  CASE token.k = "constant" -> Result(token.v, s)
    [] token.k = "variable" -> Result(s[token.x], s)
    [] token.k = "increment" ->
         LET more == Compute("+", s[token.x], Integer(1))
         IN IF more = Failure THEN Result(Failure, s)
            ELSE Result(IF token.first THEN more ELSE s[token.x], [s EXCEPT ![token.x] = more])
    [] token.k = "group" -> Signed(token.sign, Meaning(token.e, s))

(* An operator: `&&` and `||` may do without what is on their right.       *)
Computed(o, left, right) ==
  IF right.v = Failure THEN right ELSE Result(Compute(o, left.v, right.v), right.s)

Operated(o, left, Right(_)) ==
  IF left.v = Failure THEN left
  ELSE IF o \notin Logic THEN Computed(o, left, Right(left.s))
  ELSE IF left.v.t # "bool" THEN Result(Failure, left.s)
  ELSE IF left.v = Boolean(o = "||") THEN left ELSE Right(left.s)

(* The tree of a list: tighter operators bind first and the operators of   *)
(* one kind bind from the left, so the value of first .. last at a level   *)
(* is a fold over the operands that the operators of that level separate.  *)
RECURSIVE LevelMeaning(_, _, _, _, _)
LevelMeaning(tokens, level, first, last, s) ==
  LET here == {i \in first .. last : IsOperator(i) /\ Preference(tokens[i]) = level}
      at == CHOOSE i \in here : \A j \in here : j <= i
  IN IF first = last THEN OperandMeaning(tokens[first], s)
     ELSE IF here = {} THEN LevelMeaning(tokens, level + 1, first, last, s)
     ELSE Operated(tokens[at], LevelMeaning(tokens, level, first, at - 1, s),
                   LAMBDA t : LevelMeaning(tokens, level + 1, at + 1, last, t))

RECURSIVE AssignMeaning(_, _, _)
AssignMeaning(assign, n, r) ==
  IF n = 0 \/ r.v = Failure THEN r
  ELSE LET a == assign[n]
           v == IF a.o = "=" THEN r.v ELSE Compute(a.o, r.s[a.x], r.v)
       IN AssignMeaning(assign, n - 1,
            IF v = Failure THEN Result(v, r.s) ELSE Result(v, [r.s EXCEPT ![a.x] = v]))

(* The condition of a ternary chooses one of its parts.                    *)
Decided(e, head) ==
  IF e.parts = <<>> \/ head.v = Failure THEN head
  ELSE IF head.v.t # "bool" THEN Result(Failure, head.s)
  ELSE Meaning(e.parts[IF head.v = True THEN 1 ELSE 2], head.s)

Meaning(e, s) ==
  AssignMeaning(e.assign, Len(e.assign), Decided(e, LevelMeaning(e.tokens, 0, 1, Len(e.tokens), s)))

-----------------------------------------------------------------------------
(* Properties.                                                             *)

(* A list assigns at once: all its values are computed before any of its   *)
(* variables changes, and each variable has the value in its own place.    *)
RECURSIVE RightsMeaning(_, _, _)
RightsMeaning(rights, n, r) ==
  IF n = 0 \/ ~r.ok THEN r
  ELSE LET Before(last) ==
             IF last.v = Failure THEN [r EXCEPT !.ok = FALSE, !.s = last.s]
             ELSE [r EXCEPT !.values = <<last.v>> \o @, !.s = last.s]
       IN RightsMeaning(rights, n - 1, Before(Meaning(rights[n], r.s)))

Together(list, r) ==
  LET place(x) == CHOOSE i \in 1 .. Len(list.lefts) : list.lefts[i] = x
      assigned == {list.lefts[i] : i \in 1 .. Len(list.lefts)}
  IN IF ~r.ok THEN Result(Failure, r.s)
     ELSE Result(Undefined,
            [x \in DOMAIN r.s |-> IF x \notin assigned THEN r.s[x]
                                  ELSE IF place(x) <= Len(r.values) THEN r.values[place(x)] ELSE Undefined])

ListMeaning(list, s) ==
  Together(list, RightsMeaning(list.rights, Len(list.rights), [values |-> <<>>, s |-> s, ok |-> TRUE]))

ProgramMeaning == IF IsList(expr) THEN ListMeaning(expr, start) ELSE Meaning(expr, start)

RECURSIVE OnlyConstants(_)
OnlyConstants(token) ==
  \/ token.k = "constant"
  \/ /\ token.k = "group" /\ token.e.parts = <<>> /\ token.e.assign = <<>>
     /\ \A i \in 1 .. Len(token.e.tokens) : IsOperator(i) \/ OnlyConstants(token.e.tokens[i])

Parts(program) ==
  IF IsList(program) THEN UNION {Subexpressions(program.rights[i]) : i \in 1 .. Len(program.rights)}
  ELSE Subexpressions(program)

(* Some run of constants in the expression has no value.                   *)
ConstantsFail(e) ==
  \E s \in Parts(e) : \E i, j \in {k \in 1 .. Len(s.tokens) : ~IsOperator(k)} :
    /\ i < j
    /\ \A k \in i .. j : IsOperator(k) \/ OnlyConstants(s.tokens[k])
    /\ LevelMeaning(s.tokens, 0, i, j, start).v = Failure

(* A program that ends leaves one value on the stack, the one its tree     *)
(* has, whatever was folded, merged or jumped over; it stops with an error *)
(* only where its tree has no value, and is refused only for constants     *)
(* that have none (compiler_expression_byte_code.cpp,                      *)
(* compiler_expression_optimize.cpp).                                      *)
ValueIsMeant ==
  /\ status = "done" => stack = IF IsList(expr) THEN <<>> ELSE <<ProgramMeaning.v>>
  /\ status = "error" => ProgramMeaning.v = Failure
  /\ status = "refused" => ConstantsFail(expr)

(* Every assignment and every `++` has happened exactly when the tree      *)
(* reaches it, once and in its order, also when the program stops at an    *)
(* error: an operand that `&&`, `||` or `?:` leaves out changes nothing.   *)
EffectsAreMeant ==
  status \in {"done", "error"} => vars = ProgramMeaning.s

(* The code does what the tree means, to the value and to the variables.   *)
RunsAsMeant == ValueIsMeant /\ EffectsAreMeant
=============================================================================
