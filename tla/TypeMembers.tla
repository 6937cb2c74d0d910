---------------------------- MODULE TypeMembers -----------------------------
(***************************************************************************)
(* Script types and what a member name means.  A class has a table of its  *)
(* member functions; registering a class that extends another copies the   *)
(* symbols of the base and marks where its own begin, the properties are   *)
(* copied one by one.  A name is looked up from the end of the table, so   *)
(* that the last declaration wins; super() is bound when a function is     *)
(* compiled, by going backwards from the function's own place; the         *)
(* instruction o.f() remembers the symbol it found.  clear() drops the     *)
(* types, the compiled functions that use them may stay.                   *)
(***************************************************************************)
EXTENDS Naturals, Sequences, FiniteSets, FiniteSetsExt, Functions

CONSTANTS ClassNames,    \* names of script classes
          Methods,       \* names of ordinary member functions
          Operators,     \* static metamethods (_add, _equ, ...)
          Properties,    \* names of member properties
          MaxFunctions,  \* bound: member functions registered
          Rules          \* the rules below that scripts keep to

ASSUME FunctionsAssumption == MaxFunctions \in Nat \ {0}
ASSUME MemberRulesAssumption ==
  Rules \subseteq {"extend", "clear"}

VARIABLES types,     \* script_types: name and base of each class
          table,     \* symbol_functions of the scope of each class
          functions, \* script_functions: the member functions
          property,  \* the member properties of each class: getter and setters
          classUnit, \* the class whose body is being compiled
          cached     \* the symbol that the instruction o.name holds

vars == <<types, table, functions, property, classUnit, cached>>

None == 0
Names == Methods \cup Operators
Freed == MaxFunctions + 1      \* a symbol of a class that clear() removed
Get == "_get"
Set == "_set"
Field(class) == <<"@__field_initializer", class>>
Accessor(p, m) == <<m, p>>
ASSUME MemberNamesAssumption ==
  \A n \in Names \cup Properties :
    /\ \A p \in Properties, m \in {Get, Set} : n # Accessor(p, m)
    /\ \A class \in ClassNames : n # Field(class)
Types == 1 .. Len(types)
Function(owner, name, static, position, super) ==
  [owner |-> owner, name |-> name, static |-> static, position |-> position, super |-> super]
NothingHeld == [n \in Methods |-> None]

Init == /\ types = <<>> /\ table = <<>> /\ functions = <<>>
        /\ property = <<>> /\ classUnit = None
        /\ cached = NothingHeld
-----------------------------------------------------------------------------
(* Rules.  extend: a class gets no more members once it is extended.       *)
(* clear: no instruction that has called a member runs after clear.  Two   *)
(* more have no step here: a function with the name of a property of its   *)
(* class (its MemberProperty is read as a function), and an operator that  *)
(* is not static or a super() with nothing above it, refused when the      *)
(* function is already there, without code.                                *)

Rule(name, condition) == name \in Rules => condition
Derived(t) == \E u \in Types : types[u].base = t

(* The class of an object and its bases, the first base first.             *)
Chain[t \in Types] ==
  IF types[t].base = None THEN <<t>> ELSE Append(Chain[types[t].base], t)
FirstOf(places) == IF places = {} THEN None ELSE Min(places)
LastOf(places) == IF places = {} THEN None ELSE Max(places)

(* Where the functions of a name are in the first places of a class table. *)
Places(t, name, places) == {i \in 1 .. places : functions[table[t][i]].name = name}
At(t, place) == IF place = None THEN None ELSE table[t][place]

(* getSymbolMemberFunction: from the end of the table.                     *)
Lookup(t, name) == At(t, LastOf(Places(t, name, Len(table[t]))))

(* super(): backwards from the function's own place.                       *)
SuperOf(t, name, place) == At(t, LastOf(Places(t, name, place - 1)))

DeclarableAgain(t, name, static) ==    \* mutant: own functions may be repeated
  LET first == At(t, FirstOf(Places(t, name, Len(table[t]))))
  IN first # None => ~static /\ ~functions[first].static

(* registerMemberFunction, newFunction: what has the name already decides. *)
(* A static function may not repeat one of the bases, a member function    *)
(* may if that is a member.                                                *)
Declarable(t, name, static) ==
  LET first == At(t, FirstOf(Places(t, name, Len(table[t]))))
  IN first # None => /\ functions[Lookup(t, name)].owner # t
                     /\ ~static /\ ~functions[first].static
-----------------------------------------------------------------------------
InheritedOwn(base) ==   \* mutant: what the base declares itself
  IF base = None THEN <<>> ELSE SelectSeq(table[base], LAMBDA f : functions[f].owner = base)

(* registerType: the table of a class begins with the symbols of its base. *)
Inherited(base) == IF base = None THEN <<>> ELSE table[base]

(* registerType: the member properties a class copies from its base.       *)
Copied(b) == [p \in DOMAIN property[b] |-> property[b][p]]

(* class A [extends B] {: table, own field initializer, properties.        *)
RegisterType(name, base) ==
  LET t == Len(types) + 1
      inherited == Inherited(base)
      own == Function(t, Field(name), FALSE, Len(inherited) + 1, None)
  IN /\ classUnit = None /\ Len(functions) < MaxFunctions
     /\ \A u \in Types : types[u].name # name
     /\ types' = Append(types, [name |-> name, base |-> base])
     /\ functions' = Append(functions, own)
     /\ table' = Append(table, Append(inherited, Len(functions) + 1))
     /\ property' = Append(property, IF base = None THEN [p \in {} |-> None] ELSE Copied(base))
     /\ classUnit' = t
     /\ UNCHANGED cached

(* extends a class that does not exist: the type stays, without a base and *)
(* without a field initializer, and the unit fails.                        *)
RegisterHalf(name) ==
  /\ classUnit = None
  /\ \A u \in Types : types[u].name # name
  /\ types' = Append(types, [name |-> name, base |-> None])
  /\ table' = Append(table, <<>>)
  /\ property' = Append(property, [p \in {} |-> None])
  /\ UNCHANGED <<functions, classUnit, cached>>

Place(t) == Len(table[t]) + 1       \* idx_position

(* A function of a class: in its body, or later as function A::f().        *)
DeclareFunction(t, name, static, super) ==
  LET place == Place(t)
      above == IF super THEN SuperOf(t, name, place) ELSE None
  IN /\ classUnit \in {None, t} /\ Len(functions) < MaxFunctions
     /\ classUnit = None => Rule("extend", ~Derived(t))
     /\ Declarable(t, name, static) /\ name \notin DOMAIN property[t]
     /\ name \in Operators => static
     /\ super => above # None
     /\ functions' = Append(functions, Function(t, name, static, place, above))
     /\ table' = [table EXCEPT ![t] = Append(@, Len(functions) + 1)]
     /\ UNCHANGED <<types, property, classUnit, cached>>

PropertyFree(t, p) == p \notin DOMAIN property[t] /\ Lookup(t, p) = None

(* A declaration that the name forbids changes nothing; the unit fails.    *)
Refused(t) ==
  /\ classUnit = t
  /\ \/ \E n \in Names, s \in BOOLEAN : ~Declarable(t, n, s)
     \/ \E p \in Properties : ~PropertyFree(t, p)
  /\ classUnit' = None
  /\ UNCHANGED <<types, table, functions, property, cached>>

(* p{ _get(){} _set(v){} } in a class body: a function for each metamethod. *)
DeclareProperty(t, p, methods) ==
  LET place == Place(t) - 1
      new(k, m) == Function(t, Accessor(p, m), FALSE, place + k, None)
      id == Len(functions)
      added == (IF Get \in methods THEN <<new(1, Get)>> ELSE <<>>)
               \o (IF Set \in methods THEN <<new(Cardinality(methods), Set)>> ELSE <<>>)
  IN /\ classUnit = t
     /\ PropertyFree(t, p)
     /\ Len(functions) + Len(added) <= MaxFunctions
     /\ functions' = functions \o added
     /\ table' = [table EXCEPT ![t] = @ \o [k \in 1 .. Len(added) |-> id + k]]
     /\ property' = [property EXCEPT ![t] = [q \in DOMAIN @ \cup {p} |->
          IF q # p THEN @[q]
          ELSE [get |-> IF Get \in methods THEN id + 1 ELSE None,
                set |-> IF Set \in methods THEN <<id + Len(added)>> ELSE <<>>]]]
     /\ UNCHANGED <<types, classUnit, cached>>

EndClass ==
  /\ classUnit # None /\ classUnit' = None
  /\ UNCHANGED <<types, table, functions, property, cached>>
-----------------------------------------------------------------------------
(* o.f(): the instruction takes the symbol it holds if it has that name,   *)
(* whatever the class of the object is.                                    *)
Found(t, name) ==
  IF cached[name] # None THEN cached[name] ELSE Lookup(t, name)
CallMember(t, name) ==
  /\ classUnit = None
  /\ cached[name] = None /\ Lookup(t, name) # None
  /\ cached' = [cached EXCEPT ![name] = Lookup(t, name)]
  /\ UNCHANGED <<types, table, functions, property, classUnit>>

(* new A(): the field initializers of the bases, then its own; None where  *)
(* a class of which only the name was registered has none.                 *)
Initialisers(t) == [i \in DOMAIN Chain[t] |-> Lookup(t, Field(types[Chain[t][i]].name))]

(* clear(): the classes go, the functions compiled before saveState keep   *)
(* what their instructions hold.                                           *)
Clear ==
  /\ classUnit = None /\ types # <<>>
  /\ types' = <<>> /\ table' = <<>> /\ functions' = <<>>
  /\ property' = <<>>
  /\ cached' = [n \in Methods |->
                  IF "clear" \in Rules \/ cached[n] = None THEN None ELSE Freed]
  /\ UNCHANGED classUnit

Next ==
  \/ \E n \in ClassNames : RegisterHalf(n) \/ \E b \in Types \cup {None} : RegisterType(n, b)
  \/ \E t \in Types :
       \/ \E n \in Names, s, u \in BOOLEAN : DeclareFunction(t, n, s, u /\ n \in Methods)
       \/ Refused(t)
       \/ \E p \in Properties, ms \in {{Get}, {Set}, {Get, Set}} : DeclareProperty(t, p, ms)
       \/ \E n \in Methods : CallMember(t, n)
  \/ EndClass \/ Clear

Spec == Init /\ [][Next]_vars
-----------------------------------------------------------------------------
(* Properties.                                                             *)

(* The functions a class declares itself, and the nearest one that an      *)
(* object of the class has: the meaning of extends, without the tables.    *)
Declared(t, name) == {f \in DOMAIN functions : functions[f].owner = t /\ functions[f].name = name}
Nearest(t, name) ==
  LET having == {u \in Range(Chain[t]) : Declared(u, name) # {}}
  IN IF having = {} THEN None ELSE Max(Declared(Max(having), name))

(* Bases come before the classes that extend them, and tables, super calls *)
(* and instructions name functions that exist.                             *)
TypeOK ==
  /\ \A t \in Types : types[t].name \in ClassNames /\ types[t].base \in 0 .. (t - 1)
  /\ DOMAIN table = Types /\ DOMAIN property = Types
  /\ Len(functions) <= MaxFunctions /\ classUnit \in 0 .. Len(types)
  /\ \A t \in Types : Range(table[t]) \subseteq DOMAIN functions
  /\ \A f \in DOMAIN functions : functions[f].super \in 0 .. (f - 1)
  /\ \A n \in Methods : cached[n] \in DOMAIN functions \cup {None}

(* Looking a name up in the table of a class gives the function that the   *)
(* nearest class declares, itself first (getSymbolMemberFunction on tables *)
(* that registerType copied).                                              *)
FindsNearest == \A t \in Types, n \in Names : Lookup(t, n) = Nearest(t, n)

(* A function is where its idx_position says in the table of its class,    *)
(* and at the same place in every class that inherits it: super() and the  *)
(* constructor are bound by place.                                         *)
PlacesHold ==
  \A f \in DOMAIN functions, t \in Types :
    functions[f].owner \in Range(Chain[t]) /\ f \in Range(table[t]) =>
      table[t][functions[f].position] = f

(* super() runs the function of that name that an object of the base would *)
(* run, never the function itself or one of a class below.                 *)
SuperStepsUp ==
  \A f \in DOMAIN functions :
    functions[f].super # None =>
      /\ types[functions[f].owner].base # None
      /\ functions[f].super = Nearest(types[functions[f].owner].base, functions[f].name)

(* A class has every metamethod of the properties of its base, and they    *)
(* are the functions that their names in the table say.                    *)
PropertiesWhole ==
  \A t \in Types :
    /\ types[t].base # None => DOMAIN property[types[t].base] \subseteq DOMAIN property[t]
    /\ \A p \in DOMAIN property[t] :
         /\ property[t][p].get = Nearest(t, Accessor(p, Get))
         /\ Range(property[t][p].set) = {Nearest(t, Accessor(p, Set))} \ {None}

(* o.f() runs the function that the nearest class of the object declares,  *)
(* for the first object and for every later one, whatever was declared     *)
(* since.  The symbol the instruction holds (vm_load_field compares only   *)
(* its name) is the right one for every object of a class that has it,     *)
(* unless a class nearer to that object declares the name too.             *)
CallsMostDerived ==
  \A t \in Types, n \in Methods :
    LET f == Found(t, n)
        nearer == {u \in Range(Chain[t]) : u > functions[f].owner /\ Declared(u, n) # {}}
    IN \/ f = Nearest(t, n)
       \/ /\ f # None /\ f = cached[n] /\ functions[f].name = n
          /\ functions[f].owner \in Range(Chain[t]) => nearer # {}

(* new runs the field initializer of every class in the table of the       *)
(* object's class, each once, in the order of the table: a base before the *)
(* classes that extend it.                                                 *)
InitialisesAll ==
  \A t \in Types :
    /\ Range(Initialisers(t)) \ {None} =
         {f \in Range(table[t]) : functions[f].name \in {Field(n) : n \in ClassNames}}
    /\ \A i, j \in DOMAIN Initialisers(t) :
         i < j /\ Initialisers(t)[i] # None /\ Initialisers(t)[j] # None =>
           functions[Initialisers(t)[i]].position < functions[Initialisers(t)[j]].position

(* A name means a property or a function of an object, not both: load and  *)
(* declaration look the two up in different orders.                        *)
NamesDistinct ==
  \A t \in Types : \A f \in Range(table[t]) : functions[f].name \notin DOMAIN property[t]

(* The tables of a class say what extends means, by name, by place and for *)
(* each property, and new runs every initialiser.                          *)
TablesInherit ==
  TypeOK /\ FindsNearest /\ PlacesHold /\ PropertiesWhole /\ InitialisesAll /\ NamesDistinct
=============================================================================
