---------------------------- MODULE NativeCalls -----------------------------
(***************************************************************************)
(* Calls of native functions.  A name may stand for several registered C++ *)
(* functions; a call of an overloaded name looks for the last registered   *)
(* one that accepts the arguments and remembers it at the instruction,     *)
(* where a weaker test decides whether the next call may take it again.    *)
(* The arguments are then converted to the declared parameters.  Three     *)
(* tables, written at different places, say what an argument may be:       *)
(* Accepts, Casts and Converts.  Redefining a script function replaces its *)
(* instructions and keeps what was remembered.                             *)
(***************************************************************************)
EXTENDS Naturals, Sequences, FiniteSets, FiniteSetsExt, TLC

CONSTANTS NativeNames,   \* names natives are registered with
          Signatures,    \* parameter types of natives, without the engine
          ArgLists,      \* kinds of the arguments of a call
          Functions,     \* script functions, each with one call of a native
          MainFunction,  \* the function of the main code, compiled in each unit
          MaxNatives,    \* bound: natives registered
          CallRules      \* the rules below that host and scripts keep to

ASSUME NativesAssumption == MaxNatives \in Nat \ {0}
ASSUME CallRulesAssumption ==
  CallRules \subseteq {"same code", "disjoint", "float", "typed", "clear"}
ASSUME MainFunctionAssumption == MainFunction \in Functions

VARIABLES natives,  \* the natives in the main scope: name, parameters, deduce
          code,     \* the name that the call instruction of each function calls
          lastCall, \* instruction_last_native_call: a native or NoNative
          saved,    \* what saveState keeps: natives and script functions
          outcome   \* what the last call did

nativeVars == <<natives, code, lastCall, saved, outcome>>

NoNative == 0
FreedNative == MaxNatives + 1   \* a native that clear() deleted
Idle == [ran |-> NoNative, args |-> <<>>, error |-> "none"]
Registered == 1 .. Len(natives)

NativesInit == /\ natives = <<>>
               /\ code = [f \in Functions |-> NoNative]
               /\ lastCall = [f \in Functions |-> NoNative]
               /\ saved = [natives |-> 0, functions |-> {}]
               /\ outcome = Idle
-----------------------------------------------------------------------------
(* Kinds of values: the script's own and objects, whose class is the       *)
(* native A, the native B that extends A, the script class S, or the       *)
(* script class D that extends A.                                          *)

ValueKinds == {"int", "float", "bool", "null", "undefined", "function",
               "string", "array", "A", "B", "S", "D"}
ParamKinds == {"element", "int", "int*", "float*", "bool*", "function",
               "string", "string*", "char*", "array", "A", "B"}

ASSUME NamesAssumption == NoNative \notin NativeNames
ASSUME KindsAssumption ==
  Signatures \subseteq Seq(ParamKinds) /\ ArgLists \subseteq Seq(ValueKinds)

Bases == [A |-> {"A"}, B |-> {"A", "B"}, S |-> {"S"}, D |-> {"A", "D"}]
Chars == {"string*", "char*"}

(* What the search for a function accepts.                                 *)
Accepted ==
  [int |-> {"int", "int*", "float*"}, float |-> {"float*", "int", "int*"},
   bool |-> {"bool*"}, null |-> {}, undefined |-> {},
   function |-> {"function"}, string |-> {"string"} \cup Chars, array |-> {"array"},
   A |-> Bases.A, B |-> Bases.B, S |-> Bases.S, D |-> Bases.D]

(* What lets the remembered function be taken again.                       *)
Castable ==
  [int |-> {"int", "int*", "float*"}, float |-> {"float*", "int"},
   bool |-> {"bool*"}, null |-> ParamKinds, undefined |-> {},
   function |-> ParamKinds, string |-> {"string"} \cup Chars, array |-> {"array"},
   A |-> Bases.A, B |-> Bases.B, S |-> ParamKinds, D |-> Bases.D]

(* What is converted: what is castable, for an int that is a float* by a   *)
(* copy of the value.                                                      *)
Convertible == Castable

Accepts(v, p) == p \in Accepted[v] \cup {"element"}
Casts(v, p) == p \in Castable[v] \cup {"element"}
Converts(v, p) == p \in Convertible[v] \cup {"element"}

All(Test(_, _), args, params) ==
  /\ Len(args) = Len(params)
  /\ \A k \in 1 .. Len(args) : Test(args[k], params[k])
-----------------------------------------------------------------------------
(* Rules.  same code: a function that has called a native is not redefined.*)
(* disjoint: two natives of a name differ in the number of parameters or   *)
(* have, at some place, types that no value fits both of.  float: no float *)
(* is passed where a native of the name takes an int*.  typed: null,       *)
(* functions and objects of script classes are passed where the natives of *)
(* the name take a stack element (functions, also a function).  clear: no  *)
(* function that stays calls a native that goes.                           *)

Keeps(name, condition) == name \in CallRules => condition

Loose == {"null", "function", "S"}       \* castable to anything
Takes(v, p) == Accepts(v, p) \/ (v \notin Loose /\ Casts(v, p))
Apart(p, q) == \A v \in ValueKinds : ~(Takes(v, p) /\ Takes(v, q))
Disjoint(ps, qs) ==
  Len(ps) = Len(qs) => \E k \in 1 .. Len(ps) : Apart(ps[k], qs[k])

Named(name) == {n \in Registered : natives[n].name = name}
TypesAt(name, k) ==
  {natives[n].params[k] : n \in {m \in Named(name) : Len(natives[m].params) >= k}}
Untyped(v) == CASE v = "function" -> {"element", "function"}
                [] v \in {"null", "S"} -> {"element"}
                [] OTHER -> ParamKinds
KeepsTyped(name, args) ==
  \A k \in 1 .. Len(args) : TypesAt(name, k) \subseteq Untyped(args[k])
KeepsFloat(name, args) ==
  \A k \in 1 .. Len(args) : args[k] = "float" => "int*" \notin TypesAt(name, k)
-----------------------------------------------------------------------------
(* Registering: the same types are refused; from the second native of a    *)
(* name on, all of them are found at run time.                             *)

Registerable(name, params) == \A n \in Named(name) : natives[n].params # params

RegisterFunction(name, params) ==
  /\ Len(natives) < MaxNatives
  /\ Registerable(name, params)
  /\ Keeps("disjoint", \A n \in Named(name) : Disjoint(natives[n].params, params))
  /\ natives' =
       Append([n \in Registered |->
                 IF natives[n].name = name THEN [natives[n] EXCEPT !.deduce = TRUE]
                                           ELSE natives[n]],
              [name |-> name, params |-> params, deduce |-> Named(name) # {}])
  /\ outcome' = Idle
  /\ UNCHANGED <<code, lastCall, saved>>

(* compile: the main code is new, and forgets what it has called.  A       *)
(* script function that is declared again gets a new body only.            *)
CompileMain(name) ==
  /\ Named(name) # {}
  /\ code' = [code EXCEPT ![MainFunction] = name]
  /\ lastCall' = [lastCall EXCEPT ![MainFunction] = NoNative]
  /\ outcome' = Idle
  /\ UNCHANGED <<natives, saved>>

DeclareScript(f, name) ==
  /\ f # MainFunction /\ Named(name) # {}
  /\ Keeps("same code", lastCall[f] = NoNative)
  /\ code' = [code EXCEPT ![f] = name]
  /\ outcome' = Idle
  /\ UNCHANGED <<natives, lastCall, saved>>
-----------------------------------------------------------------------------
(* The call.  Find goes from the last native to the first one.             *)

Find(name, args) ==
  LET found == {n \in Named(name) : All(Accepts, args, natives[n].params)}
  IN  IF found = {} THEN NoNative ELSE Max(found)

AgainAny(f, args) == lastCall[f] \in Registered
Again(f, args) ==
  /\ lastCall[f] \in Registered
  /\ All(Casts, args, natives[lastCall[f]].params)

Bound(name) == CHOOSE n \in Named(name) : TRUE

Chosen(f, args) ==
  IF ~natives[Bound(code[f])].deduce THEN Bound(code[f])
  ELSE IF Again(f, args) THEN lastCall[f]
  ELSE Find(code[f], args)

Remembered(f, args) ==
  IF natives[Bound(code[f])].deduce /\ Chosen(f, args) # NoNative
    THEN Chosen(f, args) ELSE lastCall[f]

ExecuteUnchecked(n, args) ==
  [ran |-> n, args |-> args,
   error |-> IF n = NoNative THEN "not found"
             ELSE IF Len(natives[n].params) # Len(args) THEN "arguments" ELSE "none"]

Execute(n, args) ==
  [ran |-> n, args |-> args,
   error |-> IF n = NoNative THEN "not found"
             ELSE IF Len(natives[n].params) # Len(args) THEN "arguments"
             ELSE IF All(Converts, args, natives[n].params) THEN "none"
             ELSE "conversion"]

Callable(f) == code[f] # NoNative /\ lastCall[f] # FreedNative /\ Named(code[f]) # {}

CallNative(f, args) ==
  /\ Callable(f)
  /\ Keeps("typed", KeepsTyped(code[f], args))
  /\ Keeps("float", KeepsFloat(code[f], args))
  /\ outcome' = Execute(Chosen(f, args), args)
  /\ lastCall' = [lastCall EXCEPT ![f] = Remembered(f, args)]
  /\ UNCHANGED <<natives, code, saved>>
-----------------------------------------------------------------------------
(* saveState and clear.  Functions that were saved keep what they called;  *)
(* the main code is compiled again before it runs.                         *)

SaveState ==
  /\ saved' = [natives |-> Len(natives),
               functions |-> {f \in Functions \ {MainFunction} : code[f] # NoNative}]
  /\ outcome' = Idle
  /\ UNCHANGED <<natives, code, lastCall>>

KeepsClear ==
  \A f \in saved.functions : \A n \in Named(code[f]) : n <= saved.natives

Kept(f) == IF f \notin saved.functions THEN NoNative
           ELSE IF lastCall[f] > saved.natives THEN FreedNative ELSE lastCall[f]

ClearNatives ==
  /\ Keeps("clear", KeepsClear)
  /\ natives' = SubSeq(natives, 1, saved.natives)
  /\ code' = [f \in Functions |-> IF f \in saved.functions THEN code[f] ELSE NoNative]
  /\ lastCall' = [f \in Functions |-> Kept(f)]
  /\ outcome' = Idle
  /\ UNCHANGED saved

NativesNext ==
  \/ \E name \in NativeNames, params \in Signatures : RegisterFunction(name, params)
  \/ \E name \in NativeNames : CompileMain(name)
  \/ \E f \in Functions, name \in NativeNames : DeclareScript(f, name)
  \/ \E f \in Functions, args \in ArgLists : CallNative(f, args)
  \/ SaveState
  \/ ClearNatives

NativesSpec == NativesInit /\ [][NativesNext]_nativeVars
-----------------------------------------------------------------------------
(* Properties.                                                             *)

(* The tables hold registered natives, and an instruction that remembers a *)
(* call is that of a function that is there.                               *)
NativesTyped ==
  /\ natives \in Seq([name : NativeNames, params : Signatures, deduce : BOOLEAN])
  /\ Len(natives) <= MaxNatives
  /\ code \in [Functions -> NativeNames \cup {NoNative}]
  /\ lastCall \in [Functions -> 0 .. FreedNative]
  /\ \A f \in Functions : lastCall[f] # NoNative => code[f] # NoNative
  /\ outcome \in [ran : 0 .. MaxNatives, args : ArgLists \cup {<<>>},
                  error : {"none", "not found", "arguments", "conversion"}]

(* What an instruction remembers is a native that is still registered, and *)
(* has the name that the instruction calls: a call never runs another      *)
(* function than the code names, whatever was redefined or cleared, and    *)
(* the code of a function that stays names natives that stay.              *)
RunsTheCode ==
  \A f \in Functions :
    /\ code[f] # NoNative => Named(code[f]) # {}
    /\ lastCall[f] # NoNative =>
         lastCall[f] \in Registered /\ natives[lastCall[f]].name = code[f]

(* The choice at an instruction does not depend on what it called before:  *)
(* a call takes the function that a first call with these arguments would. *)
SameAsFirst ==
  \A f \in Functions, args \in ArgLists :
    /\ Callable(f) /\ natives[Bound(code[f])].deduce
    /\ KeepsTyped(code[f], args) /\ KeepsFloat(code[f], args)
    => Chosen(f, args) = Find(code[f], args)

(* A call that the search accepted is not refused when the arguments are   *)
(* converted: an overloaded call fails only because nothing fits it.       *)
FoundConverts ==
  outcome.ran # NoNative /\ natives[outcome.ran].deduce =>
    outcome.error = "none"

(* What a C++ parameter of the type is given.                              *)
Fits(v, p) ==
  \/ p = "element"
  \/ v = "int" /\ p \in {"int", "int*", "float*"}
  \/ v = "float" /\ p \in {"int", "float*"}
  \/ v = "bool" /\ p = "bool*"
  \/ v = "string" /\ p \in {"string", "string*", "char*"}
  \/ v = p /\ v \in {"array", "function"}
  \/ v \in {"A", "B", "D"} /\ p = "A"
  \/ v = "B" /\ p = "B"

(* A native that runs has as many arguments as it takes, each of the type  *)
(* it declares, although three tables at three places decide that.         *)
PassesTyped ==
  outcome.ran # NoNative /\ outcome.error = "none" =>
    All(Fits, outcome.args, natives[outcome.ran].params)

(* All natives of a name are marked as soon as there are two of them: one  *)
(* that is not marked is alone, also after others were cleared, so that a  *)
(* call compiled when it was the only one finds the later ones.            *)
MarkedWhenShared ==
  \A m, n \in Registered :
    m # n /\ natives[m].name = natives[n].name => natives[m].deduce

(* An instruction runs a function of the name it was compiled for, and the *)
(* one that it would find afresh.                                          *)
CallsStayRight == NativesTyped /\ RunsTheCode /\ SameAsFirst /\ MarkedWhenShared

(* What the search accepts is converted, and to the declared types.        *)
ArgumentsFit == FoundConverts /\ PassesTyped
=============================================================================
