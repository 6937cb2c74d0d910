------------------------------ MODULE Accesses ------------------------------
(***************************************************************************)
(* Chains of accesses and calls: `root.f[i](args)` with `++` before or     *)
(* behind it, literals, assignments to fields and items, calls with        *)
(* arguments by value, by reference, left out and collected.  The compiler *)
(* walks along the chain and decides, from the accessor before the `(`,    *)
(* which of the call instructions takes the function, and from what of     *)
(* the operand stack; the model compiles an expression as it does, runs    *)
(* the instructions and compares with what the expression says.            *)
(*                                                                         *)
(* An expression is one of                                                 *)
(*   [k "constant", v]   [k "plus", a, b]   [k "assign", left, o, right]   *)
(*   [k "array", items]  [k "object", fields]  [k "new", class, args]      *)
(*   [k "chain", root, steps, op], the root another expression, `this` or  *)
(*     a variable, a step [s "field", f], [s "item", e] or [s "call",      *)
(*     args], op "", "x++" or "++x".                                       *)
(* A value is a pair <<kind, payload>>.                                    *)
(***************************************************************************)
EXTENDS Integers, Sequences, FiniteSets

CONSTANTS Functions,    \* name -> [params, body, result]; a param is [x, by, default]
          Classes,      \* name -> its methods: a function of names to functions
          Constructors, \* the classes that have one: to a function
          AccessPrograms, \* the expressions that are run
          Memory,       \* what the global variables and the heap hold at first
          ChainRules    \* the rules the programs and the functions follow

AllChainRules == {"stack call", "field function", "late argument", "reference", "default"}

ASSUME ChainRulesAssumption == ChainRules \subseteq AllChainRules

VARIABLES program,      \* the expression
          frames,       \* the calls in progress, the main program first
          operands,     \* the operand stack of all of them
          heap,         \* the containers: [kind, slots], by identity
          progress      \* "running", "done", "error"

accessVars == <<program, frames, operands, heap, progress>>

Whole(n) == <<"int", n>>
String(s) == <<"string", s>>
Fun(f) == <<"function", f>>
Method(id, f) == <<"method", id, f>>
Object(id) == <<"object", id>>
Nothing == <<"undefined">>
Broken == <<"failure">>

(* On the stack a variable or a slot can stand for itself: a pointer.  A   *)
(* parameter by reference holds a reference.                               *)
Pointer(place) == <<"pointer", place>>
Reference(place) == <<"reference", place>>

Kind(v) == v[1]

-----------------------------------------------------------------------------
(* The compiler.  `locals` are the variables of the function that is       *)
(* compiled, `refs` those of them that are parameters by reference.        *)

Params(f) == {Functions[f].params[i].x : i \in 1 .. Len(Functions[f].params)}
References(f) == {Functions[f].params[i].x : i \in {j \in 1 .. Len(Functions[f].params) :
                                                    Functions[f].params[j].by = "reference"}}
MainScope == [locals |-> DOMAIN Memory.globals, refs |-> {}]
ScopeOf(f) == [locals |-> Params(f), refs |-> References(f)]

Last1(code) == code[Len(code)]
WithLast(code, ins) == [code EXCEPT ![Len(code)] = ins]

(* The last load of a target leaves the place and not its value.           *)
Addressed(code) == WithLast(code, [Last1(code) EXCEPT !.place = TRUE])

RECURSIVE Code(_, _)

Joined(codes) ==
  LET all[i \in 0 .. Len(codes)] == IF i = 0 THEN <<>> ELSE all[i - 1] \o codes[i]
  IN all[Len(codes)]

(* An argument that is one variable of this function goes as its place, a  *)
(* parameter by reference as the reference; other arguments as values.     *)
ArgumentCode(e, scope) ==
  LET code == Code(e, scope)
      alone == Len(code) = 1 /\ code[1].i = "load" /\ code[1].x \in scope.locals
  IN IF ~alone THEN code
     ELSE IF code[1].x \in scope.refs THEN <<[i |-> "reference", x |-> code[1].x]>>
     ELSE Addressed(code)

ArgumentsCode(args, scope) == Joined([i \in 1 .. Len(args) |-> ArgumentCode(args[i], scope)])

RootCode(root, scope) ==
  CASE root.k = "variable" ->
         IF root.x \in DOMAIN Functions THEN <<[i |-> "push", v |-> Fun(root.x)]>>
         ELSE <<[i |-> "load", x |-> root.x, place |-> FALSE]>>
    [] root.k = "this" -> <<[i |-> "this"]>>
    [] OTHER -> Code(root, scope)

(* A call of a variable or of `this.f` takes the place of the load at the  *)
(* front of the code, behind the arguments.                                *)
CallCode(code, chain, n, args, scope) ==
  LET passed == ArgumentsCode(args, scope)
      count == Len(args)
      last == Last1(code)
  IN IF n = 1 /\ chain.root.k = "variable"
     THEN Tail(code) \o passed \o <<[i |-> "call", x |-> chain.root.x, count |-> count]>>
     ELSE IF chain.steps[n - 1].s # "field"
     THEN code \o passed \o <<[i |-> "call stack", count |-> count]>>
     ELSE IF last.i = "this field"
     THEN Tail(code) \o passed \o <<[i |-> "call this", f |-> last.f, count |-> count]>>
     ELSE WithLast(code, [last EXCEPT !.calling = TRUE]) \o passed
          \o <<[i |-> "call member", count |-> count]>>

StepCode(code, chain, n, scope) ==
  LET step == chain.steps[n]
  IN CASE step.s = "field" /\ n = 1 /\ chain.root.k = "this" ->
            <<[i |-> "this field", f |-> step.f, place |-> FALSE]>>
       [] step.s = "field" /\ ~(n = 1 /\ chain.root.k = "this") ->
            Append(code, [i |-> "field", f |-> step.f, place |-> FALSE, calling |-> FALSE])
       [] step.s = "item" -> Append(code \o Code(step.e, scope), [i |-> "item", place |-> FALSE])
       [] step.s = "call" -> CallCode(code, chain, n, step.args, scope)

ChainCode(chain, scope) ==
  LET all[n \in 0 .. Len(chain.steps)] ==
        IF n = 0 THEN RootCode(chain.root, scope) ELSE StepCode(all[n - 1], chain, n, scope)
      code == all[Len(chain.steps)]
  IN IF chain.op = "" THEN code
     ELSE Append(Addressed(code), [i |-> "update", first |-> chain.op = "++x"])

(* Literals are filled on the stack, one item after the other.             *)
ArrayCode(e, scope) ==
  <<[i |-> "new array"]>>
  \o Joined([i \in 1 .. Len(e.items) |-> Code(e.items[i], scope) \o <<[i |-> "add item"]>>])

ObjectCode(e, scope) ==
  <<[i |-> "new object"]>>
  \o Joined([i \in 1 .. Len(e.fields) |->
       <<[i |-> "push", v |-> String(e.fields[i].f)]>> \o Code(e.fields[i].e, scope)
       \o <<[i |-> "add field"]>>])

NewCode(e, scope) ==
  <<[i |-> "new", class |-> e.class], [i |-> "load constructor"]>>
  \o Joined([i \in 1 .. Len(e.args) |-> Code(e.args[i], scope)])
  \o <<[i |-> "call constructor", count |-> Len(e.args)]>>

Code(e, scope) ==
  CASE e.k = "constant" -> <<[i |-> "push", v |-> e.v]>>
    [] e.k = "plus" -> Code(e.a, scope) \o Code(e.b, scope) \o <<[i |-> "plus"]>>
    [] e.k = "assign" ->
         Code(e.right, scope) \o Addressed(ChainCode(e.left, scope)) \o <<[i |-> "store", o |-> e.o]>>
    [] e.k = "array" -> ArrayCode(e, scope)
    [] e.k = "object" -> ObjectCode(e, scope)
    [] e.k = "new" -> NewCode(e, scope)
    [] e.k = "chain" -> ChainCode(e, scope)

(* A function is its statements, each of which leaves the stack empty, and *)
(* what it returns.                                                        *)
FunctionCode(f) ==
  Joined([i \in 1 .. Len(Functions[f].body) |-> Code(Functions[f].body[i], ScopeOf(f)) \o <<[i |-> "reset"]>>])
  \o (IF Functions[f].result = <<>> THEN <<[i |-> "end"]>>
      ELSE Code(Functions[f].result[1], ScopeOf(f)) \o <<[i |-> "return"]>>)

(* A default value that is not a constant is a function of its own.        *)
DefaultCode(e) == Code(e, MainScope) \o <<[i |-> "return"]>>

-----------------------------------------------------------------------------
(* The rules.  They are kept by the programs and by the functions.         *)

IsVariable(e) ==
  /\ e.k = "chain" /\ e.root.k = "variable" /\ e.steps = <<>> /\ e.op = ""
  /\ e.root.x \notin DOMAIN Functions

StepExpressions(step) ==
  CASE step.s = "field" -> <<>> [] step.s = "item" -> <<step.e>> [] step.s = "call" -> step.args

(* The expressions an expression is made of, with the values of its own    *)
(* that are on the stack when they are computed.                           *)
Operands(e) ==
  CASE e.k = "constant" -> {}
    [] e.k = "plus" -> {<<e.a, 0>>, <<e.b, 1>>}
    [] e.k = "assign" -> {<<e.right, 0>>, <<e.left, 1>>}
    [] e.k = "array" -> {<<e.items[i], 1>> : i \in 1 .. Len(e.items)}
    [] e.k = "object" -> {<<e.fields[i].e, 2>> : i \in 1 .. Len(e.fields)}
    [] e.k = "new" -> {<<e.args[i], 2>> : i \in 1 .. Len(e.args)}
    [] e.k = "chain" ->
         (IF e.root.k \in {"variable", "this"} THEN {} ELSE {<<e.root, 0>>})
         \cup UNION {{<<StepExpressions(e.steps[n])[i], 1>> : i \in 1 .. Len(StepExpressions(e.steps[n]))}
                       : n \in 1 .. Len(e.steps)}

(* All expressions in e, with the number of values under them.             *)
RECURSIVE Inside(_, _)
Inside(e, under) == {<<e, under>>} \cup UNION {Inside(o[1], under + o[2]) : o \in Operands(e)}

IsCall(chain, n) == chain.steps[n].s = "call"
Chains(e) == {p \in Inside(e, 0) : p[1].k = "chain"}

(* "stack call": what a call or an item gave is called only where nothing  *)
(* is on the stack, because the function stays there under the result.     *)
IsStackCall(chain) == \E n \in 2 .. Len(chain.steps) : IsCall(chain, n) /\ chain.steps[n - 1].s # "field"
CallsStack(e) == \E p \in Chains(e) : IsStackCall(p[1])
StackCallRule(e) == \A p \in Chains(e) : IsStackCall(p[1]) => p[2] = 0

(* "field function": a call through a field is the call of a method, or of *)
(* a field of `this`.                                                      *)
MethodNames == UNION {DOMAIN Classes[c] : c \in DOMAIN Classes}
FieldFunctionRule(e) ==
  \A p \in Chains(e) : \A n \in 2 .. Len(p[1].steps) :
    (IsCall(p[1], n) /\ p[1].steps[n - 1].s = "field") =>
      (p[1].steps[n - 1].f \in MethodNames \/ (n = 2 /\ p[1].root.k = "this"))

Effects(e) == \E p \in Inside(e, 0) :
  \/ p[1].k \in {"assign", "new"}
  \/ p[1].k = "chain" /\ (p[1].op # "" \/ \E n \in 1 .. Len(p[1].steps) : IsCall(p[1], n))

(* "late argument": no argument behind a variable that is passed alone     *)
(* changes anything, because the variable is read when the call begins.    *)
LateArgumentRule(e) ==
  \A p \in Chains(e) : \A n \in 1 .. Len(p[1].steps) :
    IsCall(p[1], n) =>
      LET args == p[1].steps[n].args
      IN \A i \in 1 .. Len(args) : IsVariable(args[i]) => \A j \in i + 1 .. Len(args) : ~Effects(args[j])

(* "reference": a parameter by reference is assigned or updated, is an     *)
(* argument, or is all of the right side of an assignment; and what is     *)
(* passed by reference is a variable of the function that calls.           *)
Names(e, x) == IsVariable(e) /\ e.root.x = x
ReferenceUse(e, refs) ==
  \A p \in Inside(e, 0) :
    CASE p[1].k = "plus" -> \A x \in refs : ~Names(p[1].a, x) /\ ~Names(p[1].b, x)
      [] p[1].k = "assign" -> p[1].o # "=" => \A x \in refs : ~Names(p[1].right, x)
      [] p[1].k = "new" -> TRUE
      [] p[1].k = "chain" ->
           /\ (p[1].root.k = "variable" /\ p[1].steps # <<>>) => p[1].root.x \notin refs
           /\ \A n \in 1 .. Len(p[1].steps) :
                p[1].steps[n].s = "item" => \A x \in refs : ~Names(p[1].steps[n].e, x)
      [] OTHER -> TRUE

ReferenceArguments(e, scope) ==
  \A p \in Chains(e) :
    (p[1].root.k = "variable" /\ p[1].root.x \in DOMAIN Functions /\ p[1].steps # <<>> /\ IsCall(p[1], 1)) =>
      LET params == Functions[p[1].root.x].params
          args == p[1].steps[1].args
      IN \A i \in 1 .. Len(args) :
           (i <= Len(params) /\ params[i].by = "reference" /\ IsVariable(args[i])) =>
             args[i].root.x \in scope.locals

(* "default": a default value names no variable.                           *)
DefaultRule(e) == \A p \in Inside(e, 0) : p[1].k = "chain" => (p[1].root.k = "variable" => p[1].root.x \in DOMAIN Functions)

KeepsChainRules(e, scope) ==
  /\ "stack call" \in ChainRules => StackCallRule(e)
  /\ "field function" \in ChainRules => FieldFunctionRule(e)
  /\ "late argument" \in ChainRules => LateArgumentRule(e)
  /\ "reference" \in ChainRules => ReferenceUse(e, scope.refs) /\ ReferenceArguments(e, scope)

FunctionKeepsRules(f) ==
  LET fun == Functions[f]
  IN /\ \A i \in 1 .. Len(fun.body) : KeepsChainRules(fun.body[i], ScopeOf(f))
     /\ \A i \in 1 .. Len(fun.result) :
          /\ KeepsChainRules(fun.result[i], ScopeOf(f))
          /\ "reference" \in ChainRules => \A x \in References(f) : ~Names(fun.result[i], x)
     /\ \A i \in 1 .. Len(fun.params) : "default" \in ChainRules => DefaultRule(fun.params[i].default)

ASSUME FunctionsKeepRules == \A f \in DOMAIN Functions : FunctionKeepsRules(f)

-----------------------------------------------------------------------------
(* The machine.  A frame is a function that runs: its code, its variables, *)
(* its object, where its part of the stack begins, the parameters that     *)
(* still need their default value, and how many results its caller takes.  *)

Depth == Len(frames)
Frame == frames[Depth]
Ready == progress = "running" /\ Frame.missing = <<>>
Instruction == Frame.code[Frame.pc]
Active(kind) == Ready /\ Frame.pc <= Len(Frame.code) /\ Instruction.i = kind

FromTop(n) == operands[Len(operands) - n]
Deeper(n) == SubSeq(operands, 1, Len(operands) - n)
Mine == Len(operands) - Frame.base                 \* the values of this frame

Advanced == [frames EXCEPT ![Depth].pc = @ + 1]

(* Places: a variable of a frame, or a slot of a container.                *)
PlaceOf(x) == <<"variable", IF x \in DOMAIN Frame.vars THEN Depth ELSE 1, x>>

At(place) ==
  IF place[1] = "slot" THEN heap[place[2]].slots[place[3]]
  ELSE IF place[2] <= Depth THEN frames[place[2]].vars[place[3]]
  ELSE Broken                                  \* its function has returned

Written(place, v) ==
  IF place[1] = "slot"
  THEN /\ heap' = [heap EXCEPT ![place[2]].slots[place[3]] = v]
       /\ frames' = Advanced
  ELSE /\ frames' = [Advanced EXCEPT ![place[2]].vars[place[3]] = v]
       /\ UNCHANGED heap

Read(v) == IF Kind(v) \in {"pointer", "reference"} THEN At(v[2]) ELSE v

Stop == progress' = "error" /\ UNCHANGED <<program, frames, operands, heap>>

Pushed(rest, v) ==
  /\ operands' = Append(rest, v) /\ frames' = Advanced
  /\ UNCHANGED <<program, heap, progress>>

AccessInit ==
  /\ program \in AccessPrograms /\ KeepsChainRules(program, MainScope)
  /\ frames = <<[code |-> Code(program, MainScope), pc |-> 1, vars |-> Memory.globals,
                 self |-> 0, base |-> 0, missing |-> <<>>, results |-> 1]>>
  /\ operands = <<>>
  /\ heap = Memory.heap
  /\ progress = "running"

PushConstant ==
  /\ Active("push")
  /\ Pushed(operands, Instruction.v)

LoadThis ==
  /\ Active("this")
  /\ Pushed(operands, Object(Frame.self))

LoadReference ==
  /\ Active("reference")
  /\ Pushed(operands, Frame.vars[Instruction.x])

(* A parameter by reference gives the pointer it was made of, for reading  *)
(* as well.                                                                *)
LoadVariable ==
  /\ Active("load")
  /\ LET place == PlaceOf(Instruction.x)
     IN Pushed(operands, IF Kind(At(place)) = "reference" THEN Pointer(At(place)[2])
                    ELSE IF Instruction.place THEN Pointer(place)
                    ELSE At(place))

MethodOf(id, f) ==
  IF heap[id].kind \in DOMAIN Classes /\ f \in DOMAIN Classes[heap[id].kind]
  THEN Classes[heap[id].kind][f] ELSE ""

Slots(id) == DOMAIN heap[id].slots

MakeSlot(rest, id, key) ==
  /\ heap' = [heap EXCEPT ![id].slots =
       [k \in DOMAIN @ \cup {key} |-> IF k = key THEN Nothing ELSE @[k]]]
  /\ operands' = Append(rest, Pointer(<<"slot", id, key>>))
  /\ frames' = Advanced
  /\ UNCHANGED <<program, progress>>

NextIsField ==
  Frame.pc < Len(Frame.code) /\ Frame.code[Frame.pc + 1].i = "field"

(* `o.f`.  A method is left on the stack behind its object when it is to   *)
(* be called, and becomes an object of its own when it is not; what is in  *)
(* a field is left alone, also when it is to be called.  A target that is  *)
(* not there is made; one that is read is undefined.                       *)
FieldOf(rest, id, ins, calling) ==
  LET f == ins.f
      method == MethodOf(id, f)
  IN IF method # ""
     THEN IF calling
          THEN /\ operands' = rest \o <<Object(id), Method(id, method)>>
               /\ frames' = Advanced /\ UNCHANGED <<program, heap, progress>>
          ELSE IF NextIsField THEN Stop
          ELSE Pushed(rest, Method(id, method))
     ELSE IF heap[id].kind = "array" \/ f \notin Slots(id)
     THEN IF calling THEN Stop
          ELSE IF ~ins.place THEN Pushed(rest, Nothing)
          ELSE IF heap[id].kind = "array" THEN Stop
          ELSE MakeSlot(rest, id, f)
     ELSE IF calling /\ Kind(heap[id].slots[f]) # "function" THEN Stop
     ELSE Pushed(rest, IF ins.place THEN Pointer(<<"slot", id, f>>) ELSE heap[id].slots[f])

LoadField ==
  /\ Active("field")
  /\ IF Kind(FromTop(0)) # "object" THEN Stop
     ELSE FieldOf(Deeper(1), FromTop(0)[2], Instruction, Instruction.calling)

LoadThisField ==
  /\ Active("this field")
  /\ FieldOf(operands, Frame.self, Instruction, FALSE)

(* `a[i]`: an item of an array has to be there, a field that is named by a *)
(* string is made only for a target.                                       *)
LoadItem ==
  /\ Active("item")
  /\ LET container == FromTop(1)
         key == FromTop(0)
         id == container[2]
         there == Kind(key) = (IF heap[id].kind = "array" THEN "int" ELSE "string")
     IN IF Kind(container) # "object" THEN Stop
        ELSE IF ~there THEN Stop
        ELSE IF key[2] \in Slots(id)
        THEN Pushed(Deeper(2), IF Instruction.place THEN Pointer(<<"slot", id, key[2]>>)
                            ELSE heap[id].slots[key[2]])
        ELSE IF Instruction.place /\ heap[id].kind # "array" THEN MakeSlot(Deeper(2), id, key[2])
        ELSE Stop

NewContainer(kind) ==
  /\ heap' = Append(heap, [kind |-> kind, slots |-> <<>>])
  /\ operands' = Append(operands, Object(Len(heap) + 1))
  /\ frames' = Advanced
  /\ UNCHANGED <<program, progress>>

NewArray == Active("new array") /\ NewContainer("array")
NewObject == Active("new object") /\ NewContainer("object")
New == Active("new") /\ NewContainer(Instruction.class)

LoadConstructor ==
  /\ Active("load constructor")
  /\ LET id == FromTop(0)[2]
         class == heap[id].kind
     IN Pushed(operands, IF class \in DOMAIN Constructors THEN Method(id, Constructors[class]) ELSE Nothing)

IsContainer(v, kind) == Kind(v) = "object" /\ heap[v[2]].kind = kind

SetSlot(id, key, v) ==
  heap' = [heap EXCEPT ![id].slots =
    [k \in DOMAIN @ \cup {key} |-> IF k = key THEN v ELSE @[k]]]

(* An item of a literal goes to the array that is next on the stack.       *)
AddItem ==
  /\ Active("add item")
  /\ IF Len(operands) < 2 \/ ~IsContainer(FromTop(1), "array") THEN Stop
     ELSE /\ SetSlot(FromTop(1)[2], Cardinality(Slots(FromTop(1)[2])), Read(FromTop(0)))
          /\ operands' = Deeper(1) /\ frames' = Advanced /\ UNCHANGED <<program, progress>>

AddField ==
  /\ Active("add field")
  /\ IF Len(operands) < 3 \/ ~IsContainer(FromTop(2), "object") \/ Kind(FromTop(1)) # "string" THEN Stop
     ELSE /\ SetSlot(FromTop(2)[2], FromTop(1)[2], Read(FromTop(0)))
          /\ operands' = Deeper(2) /\ frames' = Advanced /\ UNCHANGED <<program, progress>>

Sum(a, b) == IF Kind(a) = "int" /\ Kind(b) = "int" THEN Whole(a[2] + b[2]) ELSE Broken

Plus ==
  /\ Active("plus")
  /\ IF Sum(FromTop(1), FromTop(0)) = Broken THEN Stop ELSE Pushed(Deeper(2), Sum(FromTop(1), FromTop(0)))

(* `=` leaves its value on the stack; it looks through a pointer on its    *)
(* right, which `+=` does not.                                             *)
StoreValue ==
  /\ Active("store")
  /\ IF Kind(FromTop(0)) # "pointer" THEN Stop
     ELSE LET place == FromTop(0)[2]
              v == IF Instruction.o = "=" THEN Read(FromTop(1)) ELSE Sum(At(place), FromTop(1))
          IN IF v = Broken THEN Stop
             ELSE /\ Written(place, v)
                  /\ operands' = IF Instruction.o = "=" THEN Deeper(1) ELSE Append(Deeper(2), v)
                  /\ UNCHANGED <<program, progress>>

Update ==
  /\ Active("update")
  /\ LET place == FromTop(0)[2]
         more == Sum(At(place), Whole(1))
     IN IF Kind(FromTop(0)) # "pointer" \/ more = Broken THEN Stop
        ELSE /\ Written(place, more)
             /\ operands' = Append(Deeper(1), IF Instruction.first THEN more ELSE At(place))
             /\ UNCHANGED <<program, progress>>

-----------------------------------------------------------------------------
(* Calls.                                                                  *)

(* One argument for one parameter: a pointer or a reference becomes a      *)
(* reference, or is looked through.                                        *)
Passed(by, v) ==
  IF by = "reference"
  THEN CASE Kind(v) = "reference" -> v [] Kind(v) = "pointer" -> Reference(v[2]) [] OTHER -> Broken
  ELSE Read(v)

(* The call of `f`, for the object `self`, with the top `n` of the stack;  *)
(* `under` more values below them belong to the call.  The last parameter  *)
(* may collect the arguments that are left, if there are any; arguments    *)
(* without a parameter are dropped.                                        *)
CallFunction(f, self, n, under, results) ==
  LET params == Functions[f].params
      given == SubSeq(operands, Len(operands) - n + 1, Len(operands))
      few == IF n < Len(params) THEN n ELSE Len(params)
      collects == few > 0 /\ params[few].by = "rest"
      passed == [i \in 1 .. (IF collects THEN n ELSE few) |->
                  Passed(params[IF i < few THEN i ELSE few].by, given[i])]
      rest == [i \in 0 .. n - few |-> passed[few + i]]
      bound(x) == CHOOSE i \in 1 .. Len(params) : params[i].x = x
  IN IF \E i \in 1 .. Len(passed) : passed[i] = Broken THEN Stop
     ELSE /\ heap' = IF collects THEN Append(heap, [kind |-> "array", slots |-> rest]) ELSE heap
          /\ frames' = Append(Advanced,
               [code |-> FunctionCode(f), pc |-> 1, self |-> self, base |-> Len(operands) - n - under,
                vars |-> [x \in Params(f) |->
                           IF bound(x) > few THEN Nothing
                           ELSE IF collects /\ bound(x) = few THEN Object(Len(heap) + 1)
                           ELSE passed[bound(x)]],
                missing |-> SubSeq(params, few + 1, Len(params)), results |-> results])
          /\ operands' = Deeper(n + under)
          /\ UNCHANGED <<program, progress>>

(* What is called is a function or a method with its object.               *)
CallValue(v, self, n, under) ==
  CASE Kind(v) = "function" -> CallFunction(v[2], self, n, under, 1)
    [] Kind(v) = "method" -> CallFunction(v[3], v[2], n, under, 1)
    [] OTHER -> Stop

Call ==
  /\ Active("call")
  /\ LET x == Instruction.x
         n == Instruction.count
     IN IF x \in DOMAIN Functions THEN CallFunction(x, 0, n, 0, 1)
        ELSE CallValue(At(PlaceOf(x)), 0, n, 0)

CallThis ==
  /\ Active("call this")
  /\ LET id == Frame.self
         f == Instruction.f
         n == Instruction.count
     IN IF MethodOf(id, f) # "" THEN CallFunction(MethodOf(id, f), id, n, 0, 1)
        ELSE IF f \in Slots(id) THEN CallValue(heap[id].slots[f], id, n, 0)
        ELSE Stop

(* The function is below its arguments, and stays there.                   *)
CallStack ==
  /\ Active("call stack")
  /\ CallValue(FromTop(Instruction.count), 0, Instruction.count, 0)

(* What CallMemberKeeping gets wrong: it leaves the object on the stack.   *)
CallMemberKeeping ==
  /\ Active("call member")
  /\ LET n == Instruction.count
     IN IF Mine < n + 2 THEN Stop
        ELSE CallValue(FromTop(n), IF Kind(FromTop(n + 1)) = "object" THEN FromTop(n + 1)[2] ELSE 0, n, 1)

(* The method and its object are below the arguments, and go with them.    *)
(* Where only a function is there, what is below it is taken for the       *)
(* object; below the lowest value of a frame are its variables, which the  *)
(* model does not follow.                                                  *)
CallMember ==
  /\ Active("call member")
  /\ LET n == Instruction.count
     IN IF Mine < n + 2 THEN Stop
        ELSE CallValue(FromTop(n), IF Kind(FromTop(n + 1)) = "object" THEN FromTop(n + 1)[2] ELSE 0, n, 2)

(* A constructor leaves the new object; a class without one drops the      *)
(* arguments.                                                              *)
CallConstructor ==
  /\ Active("call constructor")
  /\ LET n == Instruction.count
         constructor == FromTop(n)
     IN IF Kind(constructor) = "method"
        THEN CallFunction(constructor[3], constructor[2], n, 1, 0)
        ELSE /\ operands' = Deeper(n + 1) /\ frames' = Advanced
             /\ UNCHANGED <<program, heap, progress>>

(* The next parameter without an argument: a constant, or the value of a   *)
(* function that is called for it.  Its code was compiled with the main    *)
(* program's variables and finds its own part of the stack instead.        *)
FillDefault ==
  /\ progress = "running" /\ Frame.missing # <<>>
  /\ LET param == Frame.missing[1]
     IN IF param.default.k = "constant"
        THEN /\ frames' = [frames EXCEPT ![Depth].missing = Tail(@), ![Depth].vars[param.x] = param.default.v]
             /\ UNCHANGED <<program, operands, heap, progress>>
        ELSE /\ frames' = Append(frames,
                  [code |-> DefaultCode(param.default), pc |-> 1, self |-> 0, base |-> Len(operands),
                   vars |-> [x \in DOMAIN Memory.globals |-> Nothing], missing |-> <<>>, results |-> 1])
             /\ UNCHANGED <<program, operands, heap, progress>>

ResetStack ==
  /\ Active("reset")
  /\ operands' = SubSeq(operands, 1, Frame.base) /\ frames' = Advanced
  /\ UNCHANGED <<program, heap, progress>>

(* Everything of the frame that is on the stack is returned, of which the  *)
(* caller takes the last.  A default value goes to its parameter.          *)
Leave(value) ==
  LET left == SubSeq(frames, 1, Depth - 1)
      caller == left[Depth - 1]
      rest == SubSeq(operands, 1, Frame.base)
  IN /\ IF caller.missing # <<>>
        THEN /\ frames' = [left EXCEPT ![Depth - 1].missing = Tail(@),
                                       ![Depth - 1].vars[caller.missing[1].x] = value]
             /\ operands' = rest
        ELSE /\ frames' = left
             /\ operands' = IF Frame.results = 0 THEN rest ELSE Append(rest, value)
     /\ UNCHANGED <<program, heap, progress>>

Return ==
  /\ Active("return")
  /\ Leave(FromTop(0))

EndFunction ==
  /\ Active("end")
  /\ Leave(Nothing)

EndProgram ==
  /\ progress = "running" /\ Depth = 1 /\ Frame.pc > Len(Frame.code)
  /\ progress' = "done"
  /\ UNCHANGED <<program, frames, operands, heap>>

AccessNext ==
  \/ PushConstant \/ LoadThis \/ LoadReference \/ LoadVariable \/ LoadField \/ LoadThisField \/ LoadItem
  \/ NewArray \/ NewObject \/ New \/ LoadConstructor \/ AddItem \/ AddField
  \/ Plus \/ StoreValue \/ Update
  \/ Call \/ CallThis \/ CallStack \/ CallMember \/ CallConstructor \/ FillDefault
  \/ ResetStack \/ Return \/ EndFunction \/ EndProgram

AccessSpec == AccessInit /\ [][AccessNext]_accessVars

-----------------------------------------------------------------------------
(* What an expression means.  The variables are cells, a scope says which  *)
(* cell a name is and which object `this` is; a parameter by reference is  *)
(* the cell of its argument.  A result is a value and the memory after it. *)

Outcome(v, s) == [v |-> v, s |-> s]
Failed(r) == r.v = Broken

NewCell(s, x, v) ==
  LET cell == <<x, Cardinality(DOMAIN s.cells)>>
  IN [cell |-> cell,
      s |-> [s EXCEPT !.cells = [c \in DOMAIN @ \cup {cell} |-> IF c = cell THEN v ELSE @[c]]]]

NewHeap(s, kind, slots) == [s EXCEPT !.heap = Append(@, [kind |-> kind, slots |-> slots])]

GlobalScope == [vars |-> [x \in DOMAIN Memory.globals |-> <<x, 0>>], self |-> 0]
GlobalMemory ==
  [cells |-> [c \in {<<x, 0>> : x \in DOMAIN Memory.globals} |-> Memory.globals[c[1]]],
   heap |-> Memory.heap]

CellOf(x, scope) == IF x \in DOMAIN scope.vars THEN scope.vars[x] ELSE <<x, 0>>

HeapMethod(s, id, f) ==
  IF s.heap[id].kind \in DOMAIN Classes /\ f \in DOMAIN Classes[s.heap[id].kind]
  THEN Classes[s.heap[id].kind][f] ELSE ""

HasKey(s, id, key) ==
  /\ Kind(key) = (IF s.heap[id].kind = "array" THEN "int" ELSE "string")
  /\ key[2] \in DOMAIN s.heap[id].slots

FieldMeaning(v, f, s) ==
  IF Kind(v) # "object" THEN Broken
  ELSE IF HeapMethod(s, v[2], f) # "" THEN Method(v[2], HeapMethod(s, v[2], f))
  ELSE IF HasKey(s, v[2], String(f)) THEN s.heap[v[2]].slots[f]
  ELSE Nothing

RECURSIVE Denotes(_, _, _)
RECURSIVE Walk(_, _, _, _)
RECURSIVE Apply(_, _, _, _)

(* The expressions of a sequence, from left to right.                      *)
Complete(s) == [vs |-> <<>>, s |-> s, ok |-> TRUE]
Stopped(s) == [vs |-> <<>>, s |-> s, ok |-> FALSE]
Before(v, r) == [r EXCEPT !.vs = <<v>> \o @]

RECURSIVE Meanings(_, _, _)
Followed(first, others, scope) ==
  IF Failed(first) THEN Stopped(first.s) ELSE Before(first.v, Meanings(others, scope, first.s))
Meanings(es, scope, s) ==
  IF es = <<>> THEN Complete(s) ELSE Followed(Denotes(es[1], scope, s), Tail(es), scope)

(* A target: a cell or a slot, which is made when it is not there.         *)
SlotMeaning(id, key, s) ==
  IF HasKey(s, id, key) THEN Outcome(<<"slot", id, key[2]>>, s)
  ELSE IF s.heap[id].kind = "array" \/ Kind(key) # "string" THEN Outcome(Broken, s)
  ELSE Outcome(<<"slot", id, key[2]>>,
         [s EXCEPT !.heap[id].slots = [k \in DOMAIN @ \cup {key[2]} |-> IF k = key[2] THEN Nothing ELSE @[k]]])

ItemTarget(v, key) ==
  IF Failed(key) THEN key
  ELSE IF Kind(v) # "object" THEN Outcome(Broken, key.s)
  ELSE SlotMeaning(v[2], key.v, key.s)

TargetIn(from, step, scope) ==
  IF Failed(from) THEN from
  ELSE IF step.s # "field" THEN ItemTarget(from.v, Denotes(step.e, scope, from.s))
  ELSE IF Kind(from.v) # "object" THEN Outcome(Broken, from.s)
  ELSE IF HeapMethod(from.s, from.v[2], step.f) # "" THEN Outcome(Broken, from.s)
  ELSE SlotMeaning(from.v[2], String(step.f), from.s)

TargetMeaning(chain, scope, s) ==
  LET n == Len(chain.steps)
  IN IF n = 0 THEN Outcome(<<"cell", CellOf(chain.root.x, scope)>>, s)
     ELSE TargetIn(Walk(chain, n - 1, scope, s), chain.steps[n], scope)

ValueAt(target, s) == IF target[1] = "cell" THEN s.cells[target[2]] ELSE s.heap[target[2]].slots[target[3]]
AssignedTo(target, v, s) ==
  IF target[1] = "cell" THEN [s EXCEPT !.cells[target[2]] = v]
  ELSE [s EXCEPT !.heap[target[2]].slots[target[3]] = v]

(* A call.  The arguments are cells for parameters by reference and values *)
(* for the others; then the parameters that have no argument are given     *)
(* their defaults, the statements run, and the result is computed.         *)
RECURSIVE Arguments(_, _, _, _, _)
Argued(value, params, args, i, scope) ==
  IF Failed(value) THEN Stopped(value.s)
  ELSE Before(value.v, Arguments(params, args, i + 1, scope, value.s))
Arguments(params, args, i, scope, s) ==
  LET byRef == i <= Len(params) /\ params[i].by = "reference"
      place == IF IsVariable(args[i]) THEN CellOf(args[i].root.x, scope) ELSE Broken
  IN IF i > Len(args) THEN Complete(s)
     ELSE Argued(IF byRef THEN Outcome(place, s) ELSE Denotes(args[i], scope, s), params, args, i, scope)

RECURSIVE Bound(_, _, _, _, _)
Bind(value, params, given, i, scope) ==
  LET p == params[i]
      made == NewCell(value.s, p.x, value.v)
      with(cell) == [x \in DOMAIN scope.vars \cup {p.x} |-> IF x = p.x THEN cell ELSE scope.vars[x]]
  IN IF Failed(value) THEN [scope |-> scope, s |-> value.s, ok |-> FALSE]
     ELSE IF i <= Len(given) /\ p.by = "reference"
     THEN Bound(params, given, i + 1, [scope EXCEPT !.vars = with(value.v)], value.s)
     ELSE Bound(params, given, i + 1, [scope EXCEPT !.vars = with(made.cell)], made.s)
Bound(params, given, i, scope, s) ==
  LET rest == [j \in 0 .. Len(given) - i |-> given[i + j]]
  IN IF i > Len(params) THEN [scope |-> scope, s |-> s, ok |-> TRUE]
     ELSE Bind(IF i > Len(given) THEN Denotes(params[i].default, GlobalScope, s)
               ELSE IF params[i].by = "rest" THEN Outcome(Object(Len(s.heap) + 1), NewHeap(s, "array", rest))
               ELSE Outcome(given[i], s),
               params, given, i, scope)

Returned(f, scope, body) ==
  IF ~body.ok THEN Outcome(Broken, body.s)
  ELSE IF Functions[f].result = <<>> THEN Outcome(Nothing, body.s)
  ELSE Denotes(Functions[f].result[1], scope, body.s)

Executed(f, bound) ==
  IF ~bound.ok THEN Outcome(Broken, bound.s)
  ELSE Returned(f, bound.scope, Meanings(Functions[f].body, bound.scope, bound.s))

Entered(f, self, passed) ==
  IF ~passed.ok THEN Outcome(Broken, passed.s)
  ELSE Executed(f, Bound(Functions[f].params, passed.vs, 1, [vars |-> <<>>, self |-> self], passed.s))

Apply(callee, args, scope, s) ==
  LET method == Kind(callee) = "method"
      f == IF method THEN callee[3] ELSE callee[2]
  IN IF Kind(callee) \notin {"function", "method"} THEN Outcome(Broken, s)
     ELSE Entered(f, IF method THEN callee[2] ELSE 0, Arguments(Functions[f].params, args, 1, scope, s))

RootMeaning(root, scope, s) ==
  CASE root.k = "variable" ->
         Outcome(IF root.x \in DOMAIN Functions THEN Fun(root.x) ELSE s.cells[CellOf(root.x, scope)], s)
    [] root.k = "this" -> Outcome(Object(scope.self), s)
    [] OTHER -> Denotes(root, scope, s)

ItemMeaning(v, key) ==
  IF Failed(key) THEN key
  ELSE IF Kind(v) # "object" THEN Outcome(Broken, key.s)
  ELSE Outcome(IF HasKey(key.s, v[2], key.v) THEN key.s.heap[v[2]].slots[key.v[2]] ELSE Broken, key.s)

Stepped(before, step, scope) ==
  IF Failed(before) THEN before
  ELSE CASE step.s = "field" -> Outcome(FieldMeaning(before.v, step.f, before.s), before.s)
         [] step.s = "item" -> ItemMeaning(before.v, Denotes(step.e, scope, before.s))
         [] step.s = "call" -> Apply(before.v, step.args, scope, before.s)

(* The first n steps of a chain.                                           *)
Walk(chain, n, scope, s) ==
  IF n = 0 THEN RootMeaning(chain.root, scope, s)
  ELSE Stepped(Walk(chain, n - 1, scope, s), chain.steps[n], scope)

UpdateMeaning(first, target) ==
  LET old == ValueAt(target.v, target.s)
      more == Sum(old, Whole(1))
  IN IF Failed(target) THEN target
     ELSE IF more = Broken THEN Outcome(Broken, target.s)
     ELSE Outcome(IF first THEN more ELSE old, AssignedTo(target.v, more, target.s))

Stored(o, right, target) ==
  LET v == IF o = "=" THEN right ELSE Sum(ValueAt(target.v, target.s), right)
  IN IF Failed(target) THEN target
     ELSE IF v = Broken THEN Outcome(Broken, target.s)
     ELSE Outcome(v, AssignedTo(target.v, v, target.s))

SetMeaning(e, scope, right) ==
  IF Failed(right) THEN right ELSE Stored(e.o, right.v, TargetMeaning(e.left, scope, right.s))

RECURSIVE Filled(_, _, _, _, _)
Filling(id, keys, others, scope, v) ==
  IF Failed(v) THEN v
  ELSE Filled(id, Tail(keys), others, scope,
         [v.s EXCEPT !.heap[id].slots =
            [k \in DOMAIN @ \cup {keys[1]} |-> IF k = keys[1] THEN v.v ELSE @[k]]])
Filled(id, keys, es, scope, s) ==
  IF es = <<>> THEN Outcome(Object(id), s)
  ELSE Filling(id, keys, Tail(es), scope, Denotes(es[1], scope, s))

Unconstructed(id, values) == Outcome(IF values.ok THEN Object(id) ELSE Broken, values.s)
Constructed(id, built) == Outcome(IF Failed(built) THEN Broken ELSE Object(id), built.s)

NewMeaning(e, scope, s) ==
  LET id == Len(s.heap) + 1
      made == NewHeap(s, e.class, <<>>)
  IN IF e.class \notin DOMAIN Constructors
     THEN Unconstructed(id, Meanings(e.args, scope, made))
     ELSE Constructed(id, Apply(Method(id, Constructors[e.class]), e.args, scope, made))

Added(both) == Outcome(IF both.ok THEN Sum(both.vs[1], both.vs[2]) ELSE Broken, both.s)

Denotes(e, scope, s) ==
  CASE e.k = "constant" -> Outcome(e.v, s)
    [] e.k = "plus" -> Added(Meanings(<<e.a, e.b>>, scope, s))
    [] e.k = "assign" -> SetMeaning(e, scope, Denotes(e.right, scope, s))
    [] e.k = "array" ->
         Filled(Len(s.heap) + 1, [i \in 1 .. Len(e.items) |-> i - 1], e.items, scope, NewHeap(s, "array", <<>>))
    [] e.k = "object" ->
         Filled(Len(s.heap) + 1, [i \in 1 .. Len(e.fields) |-> e.fields[i].f],
                [i \in 1 .. Len(e.fields) |-> e.fields[i].e], scope, NewHeap(s, "object", <<>>))
    [] e.k = "new" -> NewMeaning(e, scope, s)
    [] e.k = "chain" ->
         IF e.op = "" THEN Walk(e, Len(e.steps), scope, s)
         ELSE UpdateMeaning(e.op = "++x", TargetMeaning(e, scope, s))

-----------------------------------------------------------------------------
(* Properties.                                                             *)

Meant == Denotes(program, GlobalScope, GlobalMemory)

(* A program that ends has the value its expression has on top of the      *)
(* stack, through whatever calls, fields and items it went: every call     *)
(* took its own arguments, its own function and its own object from the    *)
(* stack and left one value for them.  It stops with an error only where   *)
(* the expression has no value (vm_call.cpp, vm_container.cpp).            *)
ResultIsMeant ==
  /\ progress = "done" => Read(FromTop(0)) = Meant.v /\ (Len(operands) = 1 \/ CallsStack(program))
  /\ progress = "error" => Failed(Meant)

(* And it has changed exactly the variables, fields and items that the     *)
(* expression changes: what is passed by value is a copy, what is passed   *)
(* by reference is the variable itself, in calls of calls as well, and a   *)
(* target is found after its value and made where it was missing.          *)
ChangesAreMeant ==
  progress = "done" =>
    /\ heap = Meant.s.heap
    /\ \A x \in DOMAIN Memory.globals : frames[1].vars[x] = Meant.s.cells[<<x, 0>>]

(* Both: the value and the effects of a program are those of its tree.     *)
AccessesAreMeant == ResultIsMeant /\ ChangesAreMeant
=============================================================================
