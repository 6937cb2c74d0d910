---------------------------- MODULE GlobalSlots -----------------------------
(***************************************************************************)
(* The engine between two compilations: which variable of the main         *)
(* function has which slot of the virtual machine's stack.  A compilation  *)
(* unit registers variables as it meets them, those of blocks among those  *)
(* of the main scope; when it ends the slots are sorted, the main scope    *)
(* first, and the instructions follow.  Functions find globals when a unit *)
(* is linked.  The blocks go when the next unit starts, the globals, types *)
(* and functions stay until clear() returns to the saved state.            *)
(***************************************************************************)
EXTENDS Naturals, Sequences, FiniteSets, FiniteSetsExt, SequencesExt, Functions

CONSTANTS Variables, FunctionNames, ClassNames,   \* identifiers
          MaxLocals,     \* bound: variables of the main function
          MaxOpened,     \* bound: blocks opened in a unit
          MaxScopes,     \* bound: length of the table of scopes
          Rules          \* the rules below that scripts and hosts keep to

ASSUME BoundsAssumption == {MaxLocals, MaxOpened, MaxScopes} \subseteq Nat \ {0}
ASSUME SlotRulesAssumption ==
  Rules \subseteq {"import", "link", "const", "save", "late", "override", "extend", "rerun", "body"}
(* What value holds of slots without a variable's value is no name.        *)
ASSUME NamesAssumption == {"undefined", "operand"} \cap (Variables \cup ClassNames) = {}

VARIABLES scopes,     \* ScriptScopesFactory::scopes: main, blocks, functions, types
          declared,       \* symbol_variables of the main scope and its blocks
          locals,     \* local_variables of the main function
          position,   \* idx_position of each of those symbols
          functions,  \* ScriptFunctionsFactory::script_functions, main left out
          funSymbols, \* symbol_functions of the main scope
          types,      \* ScriptTypesFactory::script_types
          typeSymbols,\* symbol_types of the main scope
          refs,       \* instructions and members that name a slot
          pending,    \* functions_with_unresolved_symbols
          pushed,     \* scopes the main function's instructions push
          value,      \* whose value each slot of the virtual machine holds
          saved,      \* the checkpoints of saveState
          atSave,     \* history: the names that saveState was to keep
          phase,      \* what the host may do next
          open,       \* the scope being compiled
          units,      \* units being compiled, imported ones included
          opened      \* blocks opened since compile began

tables == <<scopes, functions, funSymbols, types, typeSymbols>>
checkpoint == <<saved, atSave>>
vars == <<tables, declared, locals, position, refs, pending, pushed, value,
          checkpoint, phase, open, units, opened>>

Main == <<"main">>
Unresolved == 0
Undefined == "undefined"
Block(parent, k) == Append(parent, k)
IsBlock(s) == s[1] = "main" /\ Len(s) > 1
Blocks == {s \in Range(scopes) : IsBlock(s)}
Symbol(scope, name) == [scope |-> scope, name |-> name]
Symbols == UNION {{Symbol(s, n) : n \in Range(declared[s])} : s \in DOMAIN declared}
Globals == {x \in Symbols : x.scope = Main}
Ref(by, symbol, slot) == [by |-> by, symbol |-> symbol, slot |-> slot]
OfMain == {<<"local">>, <<"const">>}         \* the main function's own code
Compiling == phase = "compiling"

(* A map with one more entry; a table without some of its entries.         *)
With(map, key, entry) == [k \in DOMAIN map \cup {key} |-> IF k = key THEN entry ELSE map[k]]
Without(table, gone) ==
  LET from[n \in 0 .. Len(table)] ==
        IF n = 0 THEN <<>>
        ELSE IF table[n] \in gone THEN from[n - 1] ELSE Append(from[n - 1], table[n])
  IN  from[Len(table)]

Idle == phase \in {"cleared", "compiled", "failed"}
Runnable == Idle /\ ("rerun" \in Rules => phase # "cleared")

Init == /\ scopes = <<Main>>
        /\ declared = [s \in {Main} |-> <<>>]
        /\ locals = <<>> /\ position = <<>>
        /\ functions = <<>> /\ funSymbols = <<>>
        /\ types = <<>> /\ typeSymbols = <<>>
        /\ refs = {} /\ pending = {} /\ pushed = {}
        /\ value = [s \in 1 .. MaxLocals |-> Undefined]
        /\ saved = [locals |-> 0, funSymbols |-> 0, typeSymbols |-> 0,
                    scopes |-> 1, functions |-> 0, types |-> 0]
        /\ atSave = [globals |-> {}, functions |-> {}, types |-> {}]
        /\ phase = "cleared"
        /\ open = Main /\ units = 0 /\ opened = 0
-----------------------------------------------------------------------------
(* Rules.  import: nothing is imported once the unit has a block.  link:   *)
(* an imported unit declares its globals, const: a unit its constants,     *)
(* before the first variable of a block.  save: the last unit before       *)
(* saveState has no block; late: it leaves no function unresolved.         *)
(* override, extend: a saved function is not declared again and a saved    *)
(* type gets no more members.  rerun: after clear comes a compilation.     *)
(* body: after a function that does not compile comes clear.               *)

Rule(name, condition) == name \in Rules => condition
HaveCode == \A f \in DOMAIN functions : functions[f].hasCode
InMainOrder == \A s \in DOMAIN declared : IsBlock(s) => declared[s] = <<>>

(* getSymbol: the scope itself, then its parents; from main, its children. *)
Taken(scope, name) ==
  \E x \in Symbols :
    /\ x.name = name
    /\ IF scope = Main THEN TRUE ELSE IsPrefix(x.scope, scope)

(* What RegisterClearsLast gets wrong: the slot before the new one is      *)
(* cleared, an index counted from the wrong end.                           *)
RegisterClearsLast(scope, name) ==
  /\ ~Taken(scope, name)
  /\ Len(locals) < MaxLocals
  /\ declared' = [declared EXCEPT ![scope] = Append(@, name)]
  /\ locals' = Append(locals, Symbol(scope, name))
  /\ position' = With(position, Symbol(scope, name), Len(locals) + 1)
  /\ value' = [s \in DOMAIN value |-> IF s = Len(locals) THEN Undefined ELSE value[s]]

(* registerLocalVariable: the next index, and the slot is cleared.         *)
Register(scope, name) ==
  /\ ~Taken(scope, name)
  /\ Len(locals) < MaxLocals
  /\ declared' = [declared EXCEPT ![scope] = Append(@, name)]
  /\ locals' = Append(locals, Symbol(scope, name))
  /\ position' = With(position, Symbol(scope, name), Len(locals) + 1)
  /\ value' = [value EXCEPT ![Len(locals) + 1] = Undefined]

(* removeUnusuedScopes of the main function, when a unit starts.           *)
RemoveBlocks ==
  LET kept == Len(declared[Main])
  IN /\ scopes' = Without(scopes, Blocks)
     /\ declared' = [s \in {Main} |-> declared[Main]]
     /\ locals' = SubSeq(locals, 1, kept)
     /\ position' = Restrict(position, {x \in DOMAIN position : ~IsBlock(x.scope)})

(* link: what pending functions name is looked up in the main scope; a     *)
(* function stays pending while it names something unknown.                *)
Linked(references, at) ==
  {IF r.slot = Unresolved /\ r.by[2] \in pending /\ r.symbol \in Globals
   THEN Ref(r.by, r.symbol, at[r.symbol]) ELSE r : r \in references}
StillPending(references) ==
  {f \in pending : \E r \in references : r.by = <<"function", f>> /\ r.slot = Unresolved}
-----------------------------------------------------------------------------
(* compile, compileFile: a unit of its own.                                *)
Compile ==
  /\ Idle /\ Rule("body", HaveCode)
  /\ phase' = "compiling" /\ units' = 1 /\ open' = Main /\ opened' = 0
  /\ RemoveBlocks
  /\ refs' = {r \in refs : r.by \notin OfMain}
  /\ pushed' = {}
  /\ UNCHANGED <<functions, funSymbols, types, typeSymbols, pending, value, checkpoint>>

OpenBlock ==
  /\ Compiling /\ opened < MaxOpened /\ Len(scopes) < MaxScopes
  /\ opened' = opened + 1
  /\ open' = Block(open, opened')
  /\ scopes' = Append(scopes, open')
  /\ declared' = With(declared, open', <<>>)
  /\ UNCHANGED <<functions, funSymbols, types, typeSymbols, locals, position, refs,
                 pending, pushed, value, checkpoint, phase, units>>

(* compiler_check_scope: a block without variables is no scope, unless it  *)
(* is the body of a loop; its children are the parent's.                   *)
CloseBlock ==
  /\ Compiling /\ open # Main
  /\ open' = Front(open)
  /\ \E loop \in BOOLEAN :
       IF loop \/ declared[open] # <<>>
       THEN pushed' = pushed \cup {open} /\ UNCHANGED <<scopes, declared>>
       ELSE /\ scopes' = Without(scopes, {open})
            /\ declared' = Restrict(declared, DOMAIN declared \ {open})
            /\ UNCHANGED pushed
  /\ UNCHANGED <<functions, funSymbols, types, typeSymbols, locals, position, refs,
                 pending, value, checkpoint, phase, units, opened>>

DeclareVar(name) ==
  /\ Compiling
  /\ Rule("link", open = Main /\ units > 1 => InMainOrder)
  /\ Register(open, name)
  /\ refs' = refs \cup {Ref(<<"local">>, Symbol(open, name), Len(locals) + 1)}
  /\ UNCHANGED <<tables, pending, pushed, checkpoint, phase, open, units, opened>>

(* The store of a constant of the main scope is PUSH_STK_GLOBAL, which     *)
(* the sort does not look at; in a block it is PUSH_STK_LOCAL.             *)
DeclareConst(name) ==
  /\ Compiling
  /\ open = Main => Rule("const", InMainOrder) /\ Rule("link", units > 1 => InMainOrder)
  /\ Register(open, name)
  /\ refs' = refs \cup {Ref(IF open = Main THEN <<"const">> ELSE <<"local">>,
                            Symbol(open, name), Len(locals) + 1)}
  /\ UNCHANGED <<tables, pending, pushed, checkpoint, phase, open, units, opened>>

(* The main function names a variable of an earlier unit.                  *)
UseVar(name) ==
  /\ Compiling
  /\ ~\E r \in refs : r.by \in OfMain      \* bound: before the unit's declarations
  /\ Symbol(Main, name) \in Symbols
  /\ refs' = refs \cup {Ref(<<"local">>, Symbol(Main, name), position[Symbol(Main, name)])}
  /\ UNCHANGED <<tables, declared, locals, position, pending, pushed, value, checkpoint,
                 phase, open, units, opened>>

(* The first id no table entry and no pointer into the table uses.         *)
Unused(kind) ==
  <<kind, Min({n \in 1 .. MaxScopes + 1 :
                 <<kind, n>> \notin Range(scopes) \cup {functions[f].scope : f \in DOMAIN functions}})>>

Function(name, owner, scope, hasCode) ==
  [name |-> name, owner |-> owner, scope |-> scope, hasCode |-> hasCode]

(* A function of the main scope, that names a few globals; one of the same *)
(* name is cleared and gets the new parameters, scope and code.  If its    *)
(* body does not compile it stays as it was declared, without code.        *)
SetFunction(name, uses, hasCode) ==
  LET known == {i \in DOMAIN funSymbols : funSymbols[i].name = name}
      f == IF known = {} THEN Len(functions) + 1 ELSE funSymbols[CHOOSE i \in known : TRUE].fun
      scope == Unused("function")
      names == {Ref(<<"function", f>>, Symbol(Main, v), Unresolved) : v \in uses}
  IN /\ Len(scopes) < MaxScopes
     /\ Rule("override", known # {} => f > saved.functions)
     /\ functions' = IF known = {} THEN Append(functions, Function(name, 0, scope, hasCode))
                     ELSE [functions EXCEPT ![f] = Function(name, 0, scope, hasCode)]
     /\ funSymbols' = IF known = {} THEN Append(funSymbols, [name |-> name, fun |-> f])
                      ELSE funSymbols
     /\ scopes' = Append(scopes, scope)
     /\ refs' = {r \in refs : r.by # <<"function", f>>} \cup (IF hasCode THEN names ELSE {})
     /\ pending' = IF hasCode /\ uses # {} THEN pending \cup {f} ELSE pending
     /\ UNCHANGED <<declared, locals, position, types, typeSymbols, pushed, value, checkpoint, open, opened>>

DeclareFunction(name, uses) ==
  /\ Compiling /\ open = Main
  /\ SetFunction(name, uses, TRUE)
  /\ UNCHANGED <<phase, units>>

BreaksFunction(name) ==
  /\ Compiling /\ open = Main
  /\ SetFunction(name, {}, FALSE)
  /\ phase' = "breaking"
  /\ UNCHANGED units

(* registerType: the type, its symbol and scope, and its field initializer.*)
DeclareClass(name) ==
  LET t == Len(types) + 1
      scope == Unused("type")
  IN /\ Compiling /\ open = Main
     /\ \A i \in DOMAIN typeSymbols : typeSymbols[i].name # name
     /\ Len(scopes) < MaxScopes
     /\ scopes' = Append(scopes, scope)
     /\ types' = Append(types, [name |-> name, members |-> {Len(functions) + 1}])
     /\ typeSymbols' = Append(typeSymbols, [name |-> name, type |-> t])
     /\ functions' = Append(functions, Function(name, t, scope, TRUE))
     /\ UNCHANGED <<funSymbols, declared, locals, position, refs, pending, pushed, value,
                    checkpoint, phase, open, units, opened>>

(* In the class or as an extension Class::name.                            *)
DeclareMemberFunction(name, t) ==
  /\ Compiling /\ open = Main
  /\ Rule("extend", t > saved.types)
  /\ \A f \in types[t].members : functions[f].name # name
  /\ Len(scopes) < MaxScopes
  /\ LET scope == Unused("function")
     IN /\ scopes' = Append(scopes, scope)
        /\ functions' = Append(functions, Function(name, t, scope, TRUE))
        /\ types' = [types EXCEPT ![t].members = @ \cup {Len(functions) + 1}]
  /\ UNCHANGED <<funSymbols, typeSymbols, declared, locals, position, refs, pending, pushed,
                 value, checkpoint, phase, open, units, opened>>

(* A constant of a class is a variable of the main scope; the member keeps *)
(* the index the variable had when it was registered.                      *)
DeclareMemberConst(t) ==
  /\ Compiling /\ open = Main
  /\ Rule("extend", t > saved.types)
  /\ Rule("const", InMainOrder) /\ Rule("link", units > 1 => InMainOrder)
  /\ Register(Main, types[t].name)
  /\ refs' = refs \cup {Ref(by, Symbol(Main, types[t].name), Len(locals) + 1) :
                          by \in {<<"const">>, <<"type", t>>}}
  /\ UNCHANGED <<tables, pending, pushed, checkpoint, phase, open, units, opened>>

(* An imported file is a unit within the unit: the blocks of the main      *)
(* function are removed, and it is linked when it ends, before any sort.   *)
Import ==
  /\ Compiling /\ units < 2
  /\ Rule("import", DOMAIN declared = {Main})
  /\ units' = units + 1
  /\ RemoveBlocks
  /\ UNCHANGED <<functions, funSymbols, types, typeSymbols, refs, pending, pushed, value,
                 checkpoint, phase, open, opened>>

EndImport ==
  /\ Compiling /\ units > 1 /\ open = Main
  /\ units' = units - 1
  /\ refs' = Linked(refs, position)
  /\ pending' = StillPending(refs')
  /\ UNCHANGED <<tables, declared, locals, position, pushed, value, checkpoint, phase, open, opened>>

(* compiler_fill_lookup_local_variable: main, then its blocks as they      *)
(* follow each other in the source, outer before inner.                    *)
Before(s, t) == \/ IsStrictPrefix(s, t)
                \/ \E i \in DOMAIN s \cap DOMAIN t :
                     SubSeq(s, 1, i - 1) = SubSeq(t, 1, i - 1) /\ i > 1 /\ s[i] < t[i]

PlaceInScope(x) == CHOOSE i \in DOMAIN declared[x.scope] : declared[x.scope][i] = x.name
Precedes(x, y) == \/ Before(x.scope, y.scope)
                  \/ x.scope = y.scope /\ PlaceInScope(x) < PlaceInScope(y)

(* compiler_pop_and_compile_function of the main function: unless the      *)
(* variables are more or fewer than the scopes', they are sorted, and the  *)
(* instructions that name a local variable follow.                         *)
Sorts == Cardinality(Symbols) = Len(locals)
Rank(x) == IF Sorts THEN 1 + Cardinality({y \in Symbols : Precedes(y, x)}) ELSE position[x]
SortNever == UNCHANGED <<locals, position>>   \* mutant: variables stay as registered
Sort ==
  /\ position' = [x \in DOMAIN position |-> Rank(x)]
  /\ locals' = IF Sorts THEN [i \in DOMAIN locals |-> CHOOSE x \in Symbols : position'[x] = i]
               ELSE locals
RemappedNone == refs   \* mutant: the instructions keep their slots
Remapped == {IF r.by = <<"local">> THEN Ref(r.by, r.symbol, Rank(locals[r.slot])) ELSE r : r \in refs}

EndUnit ==
  /\ Compiling /\ units = 1 /\ open = Main
  /\ phase' = "compiled" /\ units' = 0
  /\ Sort
  /\ refs' = Linked(Remapped, position')
  /\ pending' = StillPending(refs')
  /\ UNCHANGED <<tables, declared, pushed, value, checkpoint, open, opened>>

(* An error ends every unit; the main function gets the code so far and    *)
(* nothing is linked.                                                      *)
Fail ==
  /\ phase \in {"compiling", "breaking"}
  /\ phase' = "failed" /\ units' = 0
  /\ Sort /\ refs' = Remapped
  /\ UNCHANGED <<tables, declared, pending, pushed, value, checkpoint, open, opened>>

(* run: the main function, up to its end or an error; the blocks' slots    *)
(* are cleared when they are left, what is above served as operands.       *)
Run ==
  /\ Runnable
  /\ \E done \in SUBSET {r \in refs : r.by \in OfMain} :
       LET Stored(s) == {r.symbol : r \in {x \in done : x.slot = s /\ x.symbol.scope = Main}}
       IN value' = [s \in DOMAIN value |->
                      CASE Stored(s) # {} -> (CHOOSE x \in Stored(s) : TRUE).name
                        [] s > Len(locals) -> "operand"
                        [] Stored(s) = {} /\ s <= Len(locals) ->
                             IF IsBlock(locals[s].scope) THEN Undefined ELSE value[s]]
  /\ UNCHANGED <<tables, declared, locals, position, refs, pending, pushed, checkpoint,
                 phase, open, units, opened>>

Names(symbols) == {symbols[i].name : i \in DOMAIN symbols}

SaveState ==
  /\ Idle /\ Rule("body", HaveCode)
  /\ Rule("save", DOMAIN declared = {Main}) /\ Rule("late", pending = {})
  /\ saved' = [locals |-> Len(locals), funSymbols |-> Len(funSymbols),
               typeSymbols |-> Len(typeSymbols), scopes |-> Len(scopes),
               functions |-> Len(functions), types |-> Len(types)]
  /\ atSave' = [globals |-> Range(declared[Main]), functions |-> Names(funSymbols),
                types |-> Names(typeSymbols)]
  /\ UNCHANGED <<tables, declared, locals, position, refs, pending, pushed, value,
                 phase, open, units, opened>>

First(seq, n) == SubSeq(seq, 1, IF n < Len(seq) THEN n ELSE Len(seq))
GoneAll == saved.locals + 1 .. Len(locals)   \* mutant: variables of blocks count
GoneGlobals == {i \in saved.locals + 1 .. Len(locals) : locals[i].scope = Main}

(* clear: clearGlobalVariables, then everything after the checkpoints.     *)
Clear ==
  /\ Idle
  /\ phase' = "cleared"
  /\ scopes' = First(scopes, saved.scopes)
  /\ declared' = [Restrict(declared, {s \in DOMAIN declared : s \in Range(scopes')})
                    EXCEPT ![Main] = First(@, Len(@) - Cardinality(GoneGlobals))]
  /\ locals' = First(locals, saved.locals)
  /\ position' = Restrict(position, {x \in DOMAIN position :
                    x.scope \in DOMAIN declared' /\ x.name \in Range(declared'[x.scope])})
  /\ value' = [s \in DOMAIN value |-> IF s > saved.locals THEN Undefined ELSE value[s]]
  /\ funSymbols' = First(funSymbols, saved.funSymbols)
  /\ typeSymbols' = First(typeSymbols, saved.typeSymbols)
  /\ functions' = First(functions, saved.functions)
  /\ types' = First(types, saved.types)
  /\ refs' = {r \in refs : r.by[1] = "function" => r.by[2] <= saved.functions}
             \ {r \in refs : r.by[1] = "type" /\ r.by[2] > saved.types}
  /\ pending' = {}
  /\ UNCHANGED <<pushed, checkpoint, open, units, opened>>

Next == \/ Compile
        \/ OpenBlock
        \/ CloseBlock
        \/ \E v \in Variables : DeclareVar(v)
        \/ \E v \in Variables : DeclareConst(v)
        \/ \E v \in Variables : UseVar(v)
        \/ \E f \in FunctionNames, v \in Variables : DeclareFunction(f, {v})
        \/ \E f \in FunctionNames : BreaksFunction(f)
        \/ \E c \in ClassNames : DeclareClass(c)
        \/ \E f \in FunctionNames, t \in DOMAIN types : DeclareMemberFunction(f, t)
        \/ \E t \in DOMAIN types : DeclareMemberConst(t)
        \/ Import
        \/ EndImport
        \/ EndUnit
        \/ Fail
        \/ Run
        \/ SaveState
        \/ Clear

Spec == Init /\ [][Next]_vars
-----------------------------------------------------------------------------
Name == Variables \cup FunctionNames \cup ClassNames

(* Types of the tables, the slots and what is pending.                     *)
TypeOK ==
  /\ scopes[1] = Main /\ Cardinality(Range(scopes)) = Len(scopes)
  /\ DOMAIN declared = {Main} \cup Blocks
  /\ locals \in Seq(Symbols) /\ Len(locals) <= MaxLocals
  /\ position \in [Symbols -> 1 .. MaxLocals]
  /\ value \in [1 .. MaxLocals -> Name \cup {Undefined, "operand"}]
  /\ \A f \in DOMAIN functions : functions[f].owner \in 0 .. Len(types)
  /\ pending \subseteq DOMAIN functions
  /\ units \in 0 .. 2 /\ opened \in 0 .. MaxOpened

(* Whenever the host may act, the main function's variables are those of   *)
(* the main scope and then those of its blocks as they follow in the       *)
(* source, and every symbol knows its place: after imports, after failed   *)
(* units, and after clear.                                                 *)
SlotsExact ==
  Idle => /\ Sorts
          /\ \A x \in Symbols : position[x] = Rank(x) /\ locals[position[x]] = x

(* What has to be there for code to run: the slot an instruction, a        *)
(* function or a class constant names is the slot of the variable it was   *)
(* written for, however many units were compiled, imported, failed or      *)
(* cleared since.                                                          *)
RefsRight ==
  Runnable =>
    \A r \in refs : r.slot # Unresolved =>
      r.symbol \in DOMAIN position /\ position[r.symbol] = r.slot

(* After a unit that compiled, no function waits for a global that exists, *)
(* those declared by failed units before it included.                      *)
AllLinked ==
  phase = "compiled" => \A r \in refs : r.slot = Unresolved => r.symbol \notin Globals

(* A global holds what was stored in it or undefined, never what its slot  *)
(* held for another variable or as an operand.                             *)
HoldsOwn ==
  Runnable =>
    \A x \in Globals : value[position[x]] \in {x.name, Undefined}

(* No table names what another one has lost: the scopes of functions and   *)
(* of the code's blocks, the functions of symbols and of types, the types  *)
(* of symbols; and after a unit that compiled every function can be called.*)
TablesAgree ==
  /\ Compiling => open \in Range(scopes)
  /\ Runnable => pushed \subseteq Range(scopes)
  /\ \A f \in DOMAIN functions : functions[f].scope \in Range(scopes)
  /\ phase = "compiled" => HaveCode
  /\ \A i \in DOMAIN funSymbols :
       LET f == funSymbols[i].fun
       IN f \in DOMAIN functions /\ functions[f].owner = 0 /\ functions[f].name = funSymbols[i].name
  /\ \A i \in DOMAIN typeSymbols :
       typeSymbols[i].type \in DOMAIN types /\ types[typeSymbols[i].type].name = typeSymbols[i].name
  /\ \A t \in DOMAIN types : \A f \in types[t].members :
       f \in DOMAIN functions /\ functions[f].owner = t

(* clear() leaves exactly the variables, functions and types that were     *)
(* there at saveState(), whatever was compiled, or failed, in between.     *)
ClearRestores ==
  phase = "cleared" => /\ Range(declared[Main]) = atSave.globals
                       /\ Names(funSymbols) = atSave.functions
                       /\ Names(typeSymbols) = atSave.types

(* Compiling never loses the value of a global: not when its blocks go,    *)
(* not when variables are sorted, not when the unit fails.                 *)
ValuesStay ==
  [][\A x \in Globals : x \in Globals' /\ value[position[x]] = x.name
       => value'[position'[x]] = x.name]_vars

(* Every name leads to what it was written for: slots of variables, globals *)
(* that came later, and the entries of the tables.                         *)
NamesRight == TypeOK /\ RefsRight /\ AllLinked /\ HoldsOwn /\ TablesAgree
=============================================================================
