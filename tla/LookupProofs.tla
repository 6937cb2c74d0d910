---------------------------- MODULE LookupProofs ----------------------------
(***************************************************************************)
(* Proofs about TypeMembers, for any names of classes, functions and       *)
(* properties, and about NativeCalls, for any names, natives, signatures,  *)
(* lists of arguments and script functions.                                *)
(***************************************************************************)
EXTENDS TypeMembers, NativeCalls, SequenceTheorems, FiniteSetTheorems, WellFoundedInduction, TLAPS

(* A set of numbers has a first one.                                       *)
LEMMA Least == ASSUME NEW S \in SUBSET Nat, S # {} PROVE \E m \in S : \A k \in S : m <= k
<1> DEFINE R == {r \in Nat \X Nat : r[1] < r[2]}
<1>1. IsWellFoundedOn(R, Nat) BY NatLessThanWellFounded DEF OpToRel
<1> HIDE DEF R
<1>2. PICK m \in S : \A k \in S : ~ (<<k, m>> \in R) BY <1>1, WFMin
<1>3. \A k \in S : ~ (k < m) BY <1>2 DEF R
<1> QED BY <1>3

(* A bounded one has a last one.                                           *)
LEMMA Greatest ==
  ASSUME NEW l \in Nat, NEW S \in SUBSET (0 .. l), S # {}
  PROVE  Max(S) \in S /\ \A x \in S : x <= Max(S)
<1> DEFINE T == {l - x : x \in S}
<1>1. T \subseteq Nat /\ T # {}
  <2>1. \A x \in S : l - x \in Nat OBVIOUS
  <2> QED BY <2>1
<1>2. PICK m \in T : \A k \in T : m <= k BY <1>1, Least
<1>3. PICK x \in S : m = l - x OBVIOUS
<1>4. \A y \in S : x >= y
  <2> TAKE y \in S
  <2>1. l - x <= l - y BY <1>2, <1>3
  <2>2. l \in Int /\ x \in Int /\ y \in Int OBVIOUS
  <2> HIDE DEF T
  <2> QED BY <2>1, <2>2
<1>5. Max(S) \in S /\ \A y \in S : Max(S) >= y BY <1>4 DEF Max
<1> QED BY <1>5
LEMMA Widen == ASSUME NEW S, NEW T, S \subseteq T, NEW c \in Seq(S) PROVE c \in Seq(T)
<1>1. \A i \in 1 .. Len(c) : c[i] \in T OBVIOUS
<1>2. c \in [1 .. Len(c) -> T] BY <1>1
<1> QED BY <1>2

LEMMA Joined ==
  ASSUME NEW S, NEW s \in Seq(S), NEW r \in Seq(S)
  PROVE  /\ s \o r \in Seq(S) /\ Len(s \o r) = Len(s) + Len(r)
         /\ \A i \in 1 .. Len(s) : (s \o r)[i] = s[i]
         /\ \A k \in 1 .. Len(r) : (s \o r)[Len(s) + k] = r[k]
<1>1. PICK m \in Nat : m = Len(s) OBVIOUS
<1>2. PICK n \in Nat : n = Len(r) OBVIOUS
<1>3. /\ s \o r \in Seq(S) /\ Len(s \o r) = m + n
      /\ \A i \in 1 .. m + n : (s \o r)[i] = IF i <= m THEN s[i] ELSE r[i - m]
  BY <1>1, <1>2, ConcatProperties
<1> DEFINE c == s \o r
<1> HIDE DEF c
<1>4. \A i \in 1 .. m + n : c[i] = IF i <= m THEN s[i] ELSE r[i - m] BY <1>3 DEF c
<1>5. \A k \in 1 .. n : c[m + k] = r[k]
  <2> TAKE k \in 1 .. n
  <2>1. m + k \in 1 .. m + n /\ ~ (m + k <= m) /\ (m + k) - m = k OBVIOUS
  <2> QED BY <1>4, <2>1
<1>6. \A i \in 1 .. m : c[i] = s[i] BY <1>4
<1> QED BY <1>1, <1>2, <1>3, <1>5, <1>6 DEF c

LEMMA PlacesInRange ==
  ASSUME NEW S, NEW c \in Seq(S)
  PROVE  /\ Range(c) \subseteq S
         /\ \A x : x \in Range(c) <=> \E i \in 1 .. Len(c) : c[i] = x
<1>1. DOMAIN c = 1 .. Len(c) /\ \A i \in 1 .. Len(c) : c[i] \in S OBVIOUS
<1>2. \A x : x \in Range(c) <=> \E i \in 1 .. Len(c) : c[i] = x BY Zenon, <1>1 DEF Range
<1> QED BY <1>1, <1>2
-----------------------------------------------------------------------------
(* The recursive definition of Chain defines it: each class extends one    *)
(* that comes before it.                                                   *)
LEMMA ChainExists ==
  ASSUME NEW n \in Nat, NEW base \in [1 .. n -> Nat], \A t \in 1 .. n : base[t] < t
  PROVE  \E c : c = [t \in 1 .. n |-> IF base[t] = 0 THEN <<t>> ELSE Append(c[base[t]], t)]
<1> DEFINE Defined(m) ==
      \E c : c = [t \in 1 .. m |-> IF base[t] = 0 THEN <<t>> ELSE Append(c[base[t]], t)]
<1> DEFINE S == {m \in 0 .. n : ~ Defined(m)}
<1> SUFFICES ASSUME S # {} PROVE FALSE
  <2> HIDE DEF Defined
  <2>1. n \in 0 .. n OBVIOUS
  <2>2. S = {} => Defined(n) BY <2>1
  <2> QED BY <2>2 DEF Defined
<1>1. S \in SUBSET Nat OBVIOUS
<1>2. PICK m \in S : \A k \in S : m <= k BY <1>1, Least
<1>3. CASE m = 0
  <2>1. [t \in 1 .. 0 |-> 0] = [t \in 1 .. 0 |-> IF base[t] = 0 THEN <<t>>
                                 ELSE Append([u \in 1 .. 0 |-> 0][base[t]], t)]
    OBVIOUS
  <2> QED BY <1>3, <2>1
<1>4. CASE m # 0
  <2>1. m - 1 \in 0 .. n /\ ~ (m <= m - 1) BY <1>4
  <2>2. Defined(m - 1) BY <1>2, <2>1
  <2>3. PICK c : c = [t \in 1 .. (m - 1) |-> IF base[t] = 0 THEN <<t>> ELSE Append(c[base[t]], t)]
    BY <2>2
  <2> DEFINE d == [t \in 1 .. m |->
                     IF t < m THEN c[t]
                     ELSE IF base[m] = 0 THEN <<m>> ELSE Append(c[base[m]], m)]
  <2>4. \A t \in 1 .. m : base[t] \in Nat /\ base[t] < m
    <3> TAKE t \in 1 .. m
    <3>1. t \in 1 .. n /\ t <= m OBVIOUS
    <3>2. base[t] \in Nat /\ base[t] < t BY <3>1
    <3> QED BY <3>1, <3>2
  <2>5. \A t \in 1 .. m : base[t] # 0 => d[base[t]] = c[base[t]]
    BY <2>4
  <2>6. \A t \in 1 .. m : d[t] = IF base[t] = 0 THEN <<t>> ELSE Append(d[base[t]], t)
    <3> TAKE t \in 1 .. m
    <3>1. CASE t < m
      <4>1. t \in 1 .. (m - 1) BY <3>1
      <4>2. d[t] = c[t] BY <3>1
      <4>3. c[t] = IF base[t] = 0 THEN <<t>> ELSE Append(c[base[t]], t) BY <2>3, <4>1
      <4> HIDE DEF d
      <4> QED BY <2>5, <4>2, <4>3
    <3>2. CASE t = m
      <4>1. d[t] = IF base[t] = 0 THEN <<t>> ELSE Append(c[base[t]], t) BY <3>2
      <4> HIDE DEF d
      <4> QED BY <2>5, <4>1
    <3> QED BY <3>1, <3>2
  <2>7. d = [t \in 1 .. m |-> d[t]] OBVIOUS
  <2> HIDE DEF d
  <2>8. d = [t \in 1 .. m |-> IF base[t] = 0 THEN <<t>> ELSE Append(d[base[t]], t)] BY <2>6, <2>7
  <2>9. Defined(m) BY <2>8
  <2> QED BY <2>9
<1> QED BY <1>3, <1>4

TypesFit == /\ Len(types) \in Nat
            /\ \A t \in Types : types[t].base \in Nat /\ types[t].base < t

ChainRecursive ==
  \A t \in Types :
    Chain[t] = IF types[t].base = None THEN <<t>> ELSE Append(Chain[types[t].base], t)

LEMMA ChainDefined == TypesFit => ChainRecursive
<1> SUFFICES ASSUME TypesFit PROVE ChainRecursive OBVIOUS
<1>1. PICK n \in Nat : n = Len(types) BY DEF TypesFit
<1>2. PICK base \in [1 .. n -> Nat] : base = [t \in 1 .. n |-> types[t].base]
  BY <1>1 DEF TypesFit, Types
<1>3. \A t \in 1 .. n : base[t] < t BY <1>1, <1>2 DEF TypesFit, Types
<1>4. PICK c : c = [t \in 1 .. n |-> IF base[t] = 0 THEN <<t>> ELSE Append(c[base[t]], t)]
  BY <1>3, ChainExists
<1>5. c = [t \in Types |-> IF types[t].base = None THEN <<t>> ELSE Append(c[types[t].base], t)]
  BY <1>1, <1>2, <1>4 DEF Types, None
<1>6. Chain = [t \in Types |-> IF types[t].base = None THEN <<t>> ELSE Append(Chain[types[t].base], t)]
  BY <1>5 DEF Chain
<1> QED BY <1>6 DEF ChainRecursive

(* It is the bases before a class in their order, and then the class.      *)
LEMMA ChainShape ==
  ASSUME TypesFit
  PROVE  \A t \in Types : /\ Chain[t] \in Seq(1 .. t) /\ Len(Chain[t]) > 0
                          /\ Chain[t][Len(Chain[t])] = t
                          /\ \A i, j \in 1 .. Len(Chain[t]) : i < j => Chain[t][i] < Chain[t][j]
<1> DEFINE Good(t) == /\ Chain[t] \in Seq(1 .. t) /\ Len(Chain[t]) > 0
                      /\ Chain[t][Len(Chain[t])] = t
                      /\ \A i, j \in 1 .. Len(Chain[t]) : i < j => Chain[t][i] < Chain[t][j]
           S == {t \in Types : ~ Good(t)}
<1> SUFFICES ASSUME S # {} PROVE FALSE OBVIOUS
<1>1. PICK n \in Nat : n = Len(types) BY DEF TypesFit
<1>2. S \subseteq Nat BY <1>1 DEF Types
<1>3. PICK t \in S : \A k \in S : t <= k BY <1>2, Least
<1>4. t \in 1 .. n /\ ~ Good(t) BY <1>1 DEF Types
<1>5. CASE types[t].base = None
  <2>1. Chain[t] = <<t>> BY <1>1, <1>4, <1>5, ChainDefined DEF ChainRecursive, Types
  <2> QED BY <1>4, <2>1
<1>6. CASE types[t].base # None
  <2>1. PICK b \in 1 .. (t - 1) : b = types[t].base
    BY <1>1, <1>4, <1>6 DEF TypesFit, Types, None
  <2>2. b \in Types /\ b \notin S
    <3>1. b \in 1 .. n /\ ~ (t <= b) BY <1>4, <2>1
    <3> HIDE DEF S
    <3> QED BY <1>1, <1>3, <3>1 DEF Types
  <2>3. Good(b) BY <2>2
  <2>4. Chain[t] = Append(Chain[b], t) BY <1>1, <1>4, <1>6, <2>1, ChainDefined DEF ChainRecursive, Types
  <2>5. PICK c \in Seq(1 .. t) : c = Chain[b]
    <3>1. PICK c \in Seq(1 .. b) : c = Chain[b] BY <2>3
    <3>2. 1 .. b \subseteq 1 .. t BY <1>4, <2>1
    <3>3. c \in Seq(1 .. t) BY <3>2, Widen
    <3> QED BY <3>1, <3>3
  <2>6. \A i \in 1 .. Len(c) : c[i] \in 1 .. b BY <2>3, <2>5
  <2>7. PICK d \in Seq(1 .. t) : d = Append(c, t)
    <3>1. t \in 1 .. t BY <1>4
    <3> QED BY <3>1, AppendProperties
  <2>8. PICK l \in Nat : l = Len(c) BY <2>5
  <2>9. Len(d) = l + 1 /\ d[l + 1] = t /\ \A i \in 1 .. l : d[i] = c[i]
    BY <1>4, <2>7, <2>8, AppendProperties
  <2>10. \A i, j \in 1 .. l + 1 : i < j => d[i] < d[j]
    <3> SUFFICES ASSUME NEW i \in 1 .. l + 1, NEW j \in 1 .. l + 1, i < j PROVE d[i] < d[j] OBVIOUS
    <3>1. i \in 1 .. l /\ d[i] \in 1 .. b BY <2>6, <2>8, <2>9
    <3>2. CASE j = l + 1 BY <1>4, <2>1, <2>9, <3>1, <3>2
    <3>3. CASE j \in 1 .. l BY <2>3, <2>5, <2>8, <2>9, <3>1, <3>3
    <3> QED BY <3>2, <3>3
  <2>11. Good(t)
    <3>1. Chain[t] = d BY <2>4, <2>5, <2>7
    <3>2. Len(d) > 0 /\ d[Len(d)] = t BY <2>8, <2>9
    <3>3. \A i, j \in 1 .. Len(d) : i < j => d[i] < d[j] BY <2>9, <2>10
    <3> QED BY <2>7, <3>1, <3>2, <3>3
  <2> QED BY <1>4, <2>11
<1> QED BY <1>5, <1>6

LEMMA ChainRange ==
  ASSUME TypesFit, NEW t \in Types
  PROVE  /\ Range(Chain[t]) \subseteq 1 .. t /\ t \in Range(Chain[t]) /\ t \in Nat /\ t # None
         /\ types[t].base = None => Range(Chain[t]) = {t}
         /\ types[t].base # None =>
              /\ types[t].base \in Types
              /\ Range(Chain[t]) = Range(Chain[types[t].base]) \cup {t}
<1>1. PICK n \in Nat : n = Len(types) BY DEF TypesFit
<1>2. t \in 1 .. n BY <1>1 DEF Types
<1>3. Chain[t] \in Seq(1 .. t) /\ Len(Chain[t]) > 0 /\ Chain[t][Len(Chain[t])] = t
  BY ChainShape
<1>4. Range(Chain[t]) \subseteq 1 .. t /\ t \in Range(Chain[t])
  <2>1. PICK c \in Seq(1 .. t) : c = Chain[t] /\ Len(c) > 0 /\ c[Len(c)] = t BY <1>3
  <2>2. Range(c) \subseteq 1 .. t BY PlacesInRange
  <2>3. Len(c) \in 1 .. Len(c) BY <2>1
  <2>4. t \in Range(c) BY <2>1, <2>3, PlacesInRange
  <2> QED BY <2>1, <2>2, <2>4
<1>5. CASE types[t].base = None
  <2>1. Chain[t] = <<t>> BY <1>5, ChainDefined DEF ChainRecursive
  <2>2. Range(Chain[t]) = {t} BY <2>1 DEF Range
  <2> QED BY <1>2, <1>4, <1>5, <2>2 DEF None
<1>6. CASE types[t].base # None
  <2>1. PICK b \in Types : b = types[t].base
    BY <1>1, <1>2, <1>6 DEF TypesFit, Types, None
  <2>2. Chain[t] = Append(Chain[b], t) BY <1>6, <2>1, ChainDefined DEF ChainRecursive
  <2>3. Chain[b] \in Seq(1 .. b) BY <2>1, ChainShape
  <2>4. PICK c \in Seq(Nat) : c = Chain[b]
    <3>1. PICK c \in Seq(1 .. b) : c = Chain[b] BY <2>3
    <3>2. 1 .. b \subseteq Nat BY <1>1 DEF Types
    <3>3. c \in Seq(Nat) BY <3>2, Widen
    <3> QED BY <3>1, <3>3
  <2>5. /\ Len(Append(c, t)) = Len(c) + 1 /\ Append(c, t)[Len(c) + 1] = t
        /\ \A i \in 1 .. Len(c) : Append(c, t)[i] = c[i]
    BY <1>2, AppendProperties
  <2>6. Range(Append(c, t)) = Range(c) \cup {t}
    <3>1. DOMAIN c = 1 .. Len(c) /\ DOMAIN Append(c, t) = 1 .. Len(c) + 1 /\ Len(c) \in Nat
      BY <1>2, <2>5
    <3>2. PICK d : d = Append(c, t) OBVIOUS
    <3>3. Range(d) = Range(c) \cup {t} BY <2>5, <3>1, <3>2 DEF Range
    <3> QED BY <3>2, <3>3
  <2> QED BY <1>2, <1>4, <1>6, <2>1, <2>2, <2>4, <2>6 DEF None
<1> QED BY <1>5, <1>6

ChainsGrow ==
  \A t \in Types :
    /\ Range(Chain[t]) \subseteq 1 .. t /\ t \in Range(Chain[t])
    /\ types[t].base = None => Range(Chain[t]) = {t}
    /\ types[t].base # None =>
         types[t].base \in Types /\ Range(Chain[t]) = Range(Chain[types[t].base]) \cup {t}

LEMMA ChainsDoGrow == TypesFit => ChainsGrow
BY ChainRange DEF ChainsGrow

(* Registering classes leaves the chains there are.                        *)
LEMMA ChainStays ==
  ASSUME TypesFit, TypesFit', \A t \in Types : t \in Types' /\ types'[t].base = types[t].base
  PROVE  \A t \in Types : Chain'[t] = Chain[t]
<1>1. PICK n \in Nat : n = Len(types) BY DEF TypesFit
<1> DEFINE S == {t \in Types : Chain'[t] # Chain[t]}
<1> SUFFICES ASSUME S # {} PROVE FALSE OBVIOUS
<1>2. S \subseteq Nat BY <1>1 DEF Types
<1>3. PICK t \in S : \A k \in S : t <= k BY <1>2, Least
<1>4. t \in 1 .. n /\ Chain'[t] # Chain[t] BY <1>1 DEF Types
<1>5. \A u \in Types' :
        Chain'[u] = IF types'[u].base = None THEN <<u>> ELSE Append(Chain'[types'[u].base], u)
  <2>1. TypesFit' => ChainRecursive' BY ChainDefined, PTL
  <2> QED BY <2>1 DEF ChainRecursive
<1>6. Chain[t] = IF types[t].base = None THEN <<t>> ELSE Append(Chain[types[t].base], t)
  BY <1>1, <1>4, ChainDefined DEF ChainRecursive, Types
<1>7. Chain'[t] = IF types[t].base = None THEN <<t>> ELSE Append(Chain'[types[t].base], t)
  BY <1>1, <1>4, <1>5 DEF Types
<1>8. CASE types[t].base = None BY <1>4, <1>6, <1>7, <1>8
<1>9. CASE types[t].base # None
  <2>1. PICK b \in 1 .. (t - 1) : b = types[t].base
    BY <1>1, <1>4, <1>9 DEF TypesFit, Types, None
  <2>2. b \in Types /\ b \notin S BY <1>1, <1>2, <1>3, <1>4, <2>1 DEF Types
  <2>3. Chain'[b] = Chain[b] BY <2>2
  <2> QED BY <1>4, <1>6, <1>7, <1>9, <2>1, <2>3
<1> QED BY <1>8, <1>9
-----------------------------------------------------------------------------
KeepsRules == {"extend", "clear"} \subseteq Rules

AllNames == Names \cup {Accessor(p, m) : p \in Properties, m \in {Get, Set}}
                  \cup {Field(class) : class \in ClassNames}
AType == [name : ClassNames, base : Nat]
AFunction == [owner : Nat, name : AllNames, static : BOOLEAN, position : Nat, super : Nat]
AProperty == [get : Nat, set : Seq(Nat)]
PropertyTables == UNION {[P -> AProperty] : P \in SUBSET Properties}

(* Types; classes have different names and extend earlier ones; a class is *)
(* declared when it is the last one and nothing has used it.               *)
Shapes ==
  /\ types \in Seq(AType)
  /\ \A t \in Types : types[t].base < t
  /\ \A t, u \in Types : types[t].name = types[u].name => t = u
  /\ functions \in Seq(AFunction) /\ Len(functions) <= MaxFunctions
  /\ \A f \in DOMAIN functions : functions[f].owner \in Types /\ functions[f].super < f
  /\ table \in Seq(Seq(Nat)) /\ Len(table) = Len(types)
  /\ property \in Seq(PropertyTables) /\ Len(property) = Len(types)
  /\ cached \in [Methods -> Nat]
  /\ classUnit \in Nat
  /\ classUnit # None => classUnit \in Types /\ classUnit = Len(types)

(* A class has the functions of its chain, at their places, and in the     *)
(* order in which they and their classes were declared.                    *)
In(t, f) == f \in DOMAIN functions /\ functions[f].owner \in Range(Chain[t])

Tables ==
  \A t \in Types :
    /\ \A i \in 1 .. Len(table[t]) : In(t, table[t][i]) /\ functions[table[t][i]].position = i
    /\ \A i, j \in 1 .. Len(table[t]) : i < j =>
         /\ table[t][i] < table[t][j]
         /\ functions[table[t][i]].owner <= functions[table[t][j]].owner
    /\ \A f \in DOMAIN functions : In(t, f) => \E i \in 1 .. Len(table[t]) : table[t][i] = f

(* The last function of a name that a class has, without its table.        *)
IsLookup(t, name, f) ==
  IF f = None THEN \A g \in DOMAIN functions : In(t, g) => functions[g].name # name
  ELSE /\ In(t, f) /\ functions[f].name = name
       /\ \A g \in DOMAIN functions :
            In(t, g) /\ functions[g].name = name => g <= f /\ functions[g].owner <= functions[f].owner

LookupsRight ==
  \A t \in Types : \A name : Lookup(t, name) \in Nat /\ IsLookup(t, name, Lookup(t, name))

LEMMA ShapesKnown ==
  ASSUME Shapes
  PROVE  /\ TypesFit
         /\ Len(functions) \in Nat /\ DOMAIN functions = 1 .. Len(functions)
         /\ \A f \in DOMAIN functions : functions[f] \in AFunction
         /\ \A t \in Types : types[t] \in AType /\ table[t] \in Seq(Nat) /\ Len(table[t]) \in Nat
<1>1. Len(types) \in Nat /\ \A t \in Types : types[t] \in AType BY DEF Shapes, Types
<1>2. TypesFit BY <1>1 DEF Shapes, TypesFit, AType
<1>3. /\ Len(functions) \in Nat /\ DOMAIN functions = 1 .. Len(functions)
      /\ \A f \in DOMAIN functions : functions[f] \in AFunction
  BY DEF Shapes
<1>4. \A t \in Types : table[t] \in Seq(Nat)
  <2> TAKE t \in Types
  <2>1. t \in 1 .. Len(table) BY DEF Shapes, Types
  <2> QED BY <2>1, ElementOfSeq DEF Shapes
<1>5. \A t \in Types : Len(table[t]) \in Nat BY <1>4, LenProperties
<1> QED BY <1>1, <1>2, <1>3, <1>4, <1>5

LEMMA LookupsAre == Shapes /\ Tables => LookupsRight
<1> SUFFICES ASSUME Shapes, Tables, NEW t \in Types, NEW name
             PROVE  Lookup(t, name) \in Nat /\ IsLookup(t, name, Lookup(t, name))
  BY DEF LookupsRight
<1>1. PICK l \in Nat : l = Len(table[t]) BY ShapesKnown
<1> DEFINE places == Places(t, name, l)
<1>2. Lookup(t, name) = At(t, LastOf(places)) BY <1>1 DEF Lookup
<1>3. places \subseteq 0 .. l BY DEF Places
<1>4. CASE places = {}
  <2>1. Lookup(t, name) = None BY <1>2, <1>4 DEF At, LastOf
  <2>2. \A g \in DOMAIN functions : In(t, g) => functions[g].name # name
    <3> SUFFICES ASSUME NEW g \in DOMAIN functions, In(t, g), functions[g].name = name PROVE FALSE OBVIOUS
    <3>1. PICK i \in 1 .. l : table[t][i] = g BY <1>1 DEF Tables
    <3>2. i \in places BY <3>1 DEF Places
    <3> QED BY <1>4, <3>2
  <2> QED BY <2>1, <2>2 DEF IsLookup, None
<1>5. CASE places # {}
  <2>1. Max(places) \in places /\ \A x \in places : x <= Max(places) BY <1>3, <1>5, Greatest
  <2>2. PICK m \in 1 .. l : m = Max(places) /\ functions[table[t][m]].name = name
    BY <2>1 DEF Places
  <2>3. Lookup(t, name) = table[t][m] BY <1>2, <1>5, <2>2 DEF At, LastOf, None
  <2>4. PICK f \in DOMAIN functions : f = table[t][m] /\ In(t, f) /\ functions[f].name = name
    BY <1>1, <2>2 DEF Tables, In
  <2>5. \A g \in DOMAIN functions :
          In(t, g) /\ functions[g].name = name => g <= f /\ functions[g].owner <= functions[f].owner
    <3> SUFFICES ASSUME NEW g \in DOMAIN functions, In(t, g), functions[g].name = name
                 PROVE  g <= f /\ functions[g].owner <= functions[f].owner
      OBVIOUS
    <3>1. PICK i \in 1 .. l : table[t][i] = g BY <1>1 DEF Tables
    <3>2. i \in places BY <3>1 DEF Places
    <3>3. i <= m BY <2>1, <2>2, <3>2
    <3>4. f \in Nat /\ g \in Nat /\ functions[f].owner \in Nat /\ functions[g].owner \in Nat
      BY ShapesKnown DEF AFunction
    <3>5. CASE i = m BY <2>4, <3>1, <3>4, <3>5
    <3>6. CASE i < m
      <4>1. table[t][i] < table[t][m] /\ functions[table[t][i]].owner <= functions[table[t][m]].owner
        BY <1>1, <3>6 DEF Tables
      <4> QED BY <2>4, <3>1, <3>4, <4>1
    <3> QED BY <3>3, <3>5, <3>6
  <2>6. f \in Nat /\ f # None BY <2>4, ShapesKnown DEF None
  <2> QED BY <2>3, <2>4, <2>5, <2>6 DEF IsLookup
<1> QED BY <1>4, <1>5

(* A lookup is determined by the functions.                                *)
LEMMA OneLookup ==
  ASSUME Shapes, NEW t, NEW name, NEW f \in Nat, NEW g \in Nat,
         IsLookup(t, name, f), IsLookup(t, name, g)
  PROVE  f = g
BY ShapesKnown DEF IsLookup, In

(* What extends means is what the tables say.                              *)
LEMMA FoundIsNearest ==
  ASSUME Shapes, Tables, NEW t \in Types, NEW name
  PROVE  Nearest(t, name) = Lookup(t, name)
<1>1. PICK f \in Nat : f = Lookup(t, name) /\ IsLookup(t, name, f) BY LookupsAre DEF LookupsRight
<1> DEFINE having == {u \in Range(Chain[t]) : Declared(u, name) # {}}
<1>2. t \in Nat /\ Range(Chain[t]) \subseteq 0 .. t
  <2>1. t \in Nat /\ Range(Chain[t]) \subseteq 1 .. t BY ShapesKnown, ChainRange
  <2> QED BY <2>1
<1>3. PICK l \in Nat : l = Len(functions) /\ DOMAIN functions = 1 .. l BY ShapesKnown
<1>4. Nearest(t, name) = IF having = {} THEN None ELSE Max(Declared(Max(having), name)) BY DEF Nearest
<1>5. \A u \in having : \E g \in DOMAIN functions :
        In(t, g) /\ functions[g].name = name /\ functions[g].owner = u
  BY DEF Declared, In
<1>6. CASE f = None
  <2>1. having = {} BY <1>1, <1>5, <1>6 DEF IsLookup
  <2> QED BY <1>1, <1>4, <1>6, <2>1
<1>7. CASE f # None
  <2>1. /\ f \in 1 .. l /\ functions[f].owner \in Range(Chain[t]) /\ functions[f].name = name
        /\ \A g \in DOMAIN functions : In(t, g) /\ functions[g].name = name =>
             g <= f /\ functions[g].owner <= functions[f].owner
    BY <1>1, <1>3, <1>7 DEF IsLookup, In
  <2>2. PICK u \in 0 .. t : u = functions[f].owner BY <1>2, <2>1
  <2>3. f \in Declared(u, name) BY <1>3, <2>1, <2>2 DEF Declared
  <2>4. u \in having BY <2>1, <2>2, <2>3
  <2>5. \A v \in having : v <= u BY <1>5, <2>1, <2>2
  <2>6. Max(having) = u
    <3>1. having \subseteq 0 .. t BY <1>2
    <3> HIDE DEF having
    <3>2. Max(having) \in having /\ u <= Max(having) BY <1>2, <2>4, <3>1, Greatest
    <3>3. PICK m \in 0 .. t : m = Max(having) BY <3>1, <3>2
    <3>4. m <= u /\ u <= m BY <2>5, <3>2, <3>3
    <3> QED BY <3>3, <3>4
  <2>7. Declared(u, name) \subseteq 0 .. l BY <1>3 DEF Declared
  <2>8. \A g \in Declared(u, name) : g <= f BY <2>1, <2>2 DEF Declared, In
  <2>9. Max(Declared(u, name)) = f
    <3>1. Max(Declared(u, name)) \in Declared(u, name) /\ f <= Max(Declared(u, name))
      BY <2>3, <2>7, Greatest
    <3> QED BY <2>1, <2>7, <2>8, <3>1
  <2> QED BY <1>1, <1>4, <2>4, <2>6, <2>9
<1> QED BY <1>6, <1>7

(* A class in the chain of another one is extended.                        *)
LEMMA ChainDerived ==
  ASSUME TypesFit, NEW t \in Types, ~ Derived(t)
  PROVE  \A u \in Types : t \in Range(Chain[u]) => u = t
<1> DEFINE S == {u \in Types : t \in Range(Chain[u]) /\ u # t}
<1> SUFFICES ASSUME S # {} PROVE FALSE OBVIOUS
<1>1. S \subseteq Nat BY DEF TypesFit, Types
<1>2. PICK u \in S : \A k \in S : u <= k BY <1>1, Least
<1>3. u \in Types /\ t \in Range(Chain[u]) /\ u # t OBVIOUS
<1>4. types[u].base # None /\ types[u].base \in Types /\ t \in Range(Chain[types[u].base])
  BY <1>3, ChainRange
<1>5. types[u].base # t BY <1>3 DEF Derived
<1>6. types[u].base \in S BY <1>4, <1>5
<1>7. types[u].base < u /\ u \in Nat /\ types[u].base \in Nat BY <1>1, <1>3 DEF TypesFit
<1>8. u <= types[u].base BY <1>2, <1>6
<1> QED BY <1>7, <1>8
-----------------------------------------------------------------------------
(* Declaring functions in a class that no class extends.                   *)
Adds(t, added) ==
  /\ ~ Derived(t) /\ Len(functions) + Len(added) <= MaxFunctions
  /\ \A k \in 1 .. Len(added) :
       added[k].owner = t /\ added[k].position = Len(table[t]) + k /\ added[k].super < Len(functions) + k
  /\ functions' = functions \o added
  /\ table' = [table EXCEPT ![t] = @ \o [k \in 1 .. Len(added) |-> Len(functions) + k]]
  /\ types' = types

LEMMA Adding ==
  ASSUME Shapes, Tables, NEW t \in Types, NEW added \in Seq(AFunction), Adds(t, added)
  PROVE  /\ functions' \in Seq(AFunction) /\ Len(functions') = Len(functions) + Len(added)
         /\ \A f \in DOMAIN functions : functions'[f] = functions[f]
         /\ \A k \in 1 .. Len(added) : functions'[Len(functions) + k] = added[k]
         /\ table' \in Seq(Seq(Nat)) /\ Len(table') = Len(table)
         /\ \A u \in Types : u # t => table'[u] = table[u]
         /\ Len(table'[t]) = Len(table[t]) + Len(added)
         /\ \A i \in 1 .. Len(table[t]) : table'[t][i] = table[t][i]
         /\ \A k \in 1 .. Len(added) : table'[t][Len(table[t]) + k] = Len(functions) + k
         /\ Types' = Types /\ \A u \in Types : Chain'[u] = Chain[u]
<1>1. PICK l \in Nat : l = Len(functions) /\ DOMAIN functions = 1 .. l BY ShapesKnown
<1>2. PICK tb \in Seq(Nat) : tb = table[t] BY ShapesKnown
<1>3. PICK n \in Nat : n = Len(added) OBVIOUS
<1>4. PICK ids \in Seq(Nat) : ids = [k \in 1 .. n |-> l + k]
  <2>1. \A k \in 1 .. n : l + k \in Nat OBVIOUS
  <2>2. [k \in 1 .. n |-> l + k] \in Seq(Nat) BY <2>1, IsASeq
  <2> QED BY <2>2
<1>5. Len(ids) = n /\ \A k \in 1 .. n : ids[k] = l + k BY <1>4
<1>6. PICK new \in Seq(Nat) :
        /\ new = tb \o ids /\ Len(new) = Len(tb) + n
        /\ \A i \in 1 .. Len(tb) : new[i] = tb[i]
        /\ \A k \in 1 .. n : new[Len(tb) + k] = l + k
  <2>1. /\ tb \o ids \in Seq(Nat) /\ Len(tb \o ids) = Len(tb) + Len(ids)
        /\ \A i \in 1 .. Len(tb) : (tb \o ids)[i] = tb[i]
        /\ \A k \in 1 .. Len(ids) : (tb \o ids)[Len(tb) + k] = ids[k]
    BY Joined
  <2> DEFINE new == tb \o ids
  <2> HIDE DEF new
  <2>2. /\ new \in Seq(Nat) /\ Len(new) = Len(tb) + n
        /\ \A i \in 1 .. Len(tb) : new[i] = tb[i]
        /\ \A k \in 1 .. n : new[Len(tb) + k] = l + k
    BY <1>5, <2>1 DEF new
  <2> QED BY <2>2 DEF new
<1>7. table' = [table EXCEPT ![t] = new] BY <1>1, <1>2, <1>3, <1>4, <1>6 DEF Adds
<1>8. /\ table' \in Seq(Seq(Nat)) /\ Len(table') = Len(table) /\ table'[t] = new
      /\ \A u \in Types : u # t => table'[u] = table[u]
  BY <1>7 DEF Shapes, Types
<1>9. /\ functions' \in Seq(AFunction) /\ Len(functions') = l + n
      /\ \A f \in 1 .. l : functions'[f] = functions[f]
      /\ \A k \in 1 .. n : functions'[l + k] = added[k]
  <2>1. PICK fs \in Seq(AFunction) : fs = functions BY DEF Shapes
  <2>2. functions' = fs \o added BY <2>1 DEF Adds
  <2> QED BY <1>1, <1>3, <2>1, <2>2, Joined
<1>10. Types' = Types /\ \A u \in Types : Chain'[u] = Chain[u]
  <2>1. Types' = Types /\ types' = types BY DEF Adds, Types
  <2>2. TypesFit /\ TypesFit' BY <2>1, ShapesKnown DEF TypesFit
  <2> QED BY <2>1, <2>2, ChainStays
<1> QED BY <1>1, <1>2, <1>3, <1>6, <1>8, <1>9, <1>10

(* In, after the step.                                                     *)
InAfter(t, f) == f \in DOMAIN functions' /\ functions'[f].owner \in Range(Chain'[t])

LEMMA AddedIn ==
  ASSUME Shapes, Tables, NEW t \in Types, NEW added \in Seq(AFunction), Adds(t, added)
  PROVE  /\ DOMAIN functions' = 1 .. Len(functions) + Len(added)
         /\ \A u \in Types, f \in DOMAIN functions : InAfter(u, f) <=> In(u, f)
         /\ \A u \in Types, k \in 1 .. Len(added) : InAfter(u, Len(functions) + k) <=> u = t
<1>1. PICK l \in Nat : l = Len(functions) /\ DOMAIN functions = 1 .. l BY ShapesKnown
<1>2. PICK n \in Nat : n = Len(added) OBVIOUS
<1>3. DOMAIN functions' = 1 .. l + n BY <1>1, <1>2, Adding
<1>4. /\ \A f \in 1 .. l : functions'[f] = functions[f]
      /\ \A k \in 1 .. n : functions'[l + k] = added[k]
      /\ \A u \in Types : Chain'[u] = Chain[u]
  BY <1>1, <1>2, Adding
<1>5. ASSUME NEW u \in Types, NEW f \in 1 .. l PROVE InAfter(u, f) <=> In(u, f)
  <2>1. f \in 1 .. l + n OBVIOUS
  <2> QED BY <1>1, <1>3, <1>4, <2>1 DEF In, InAfter
<1>6. ASSUME NEW u \in Types, NEW k \in 1 .. n PROVE InAfter(u, l + k) <=> u = t
  <2>1. l + k \in 1 .. l + n OBVIOUS
  <2>2. functions'[l + k].owner = t BY <1>2, <1>4 DEF Adds
  <2>3. InAfter(u, l + k) <=> t \in Range(Chain[u])
    <3>1. PICK x : x = l + k OBVIOUS
    <3>2. InAfter(u, x) <=> t \in Range(Chain[u]) BY <1>3, <1>4, <2>1, <2>2, <3>1 DEF InAfter
    <3> QED BY <3>1, <3>2
  <2>4. t \in Range(Chain[u]) <=> u = t BY ShapesKnown, ChainRange, ChainDerived DEF Adds
  <2> QED BY <2>3, <2>4
<1> QED BY <1>1, <1>2, <1>3, <1>5, <1>6

LEMMA AddedTables ==
  ASSUME Shapes, Tables, NEW t \in Types, NEW added \in Seq(AFunction), Adds(t, added)
  PROVE  Tables'
<1>1. PICK l \in Nat : l = Len(functions) /\ DOMAIN functions = 1 .. l BY ShapesKnown
<1>2. PICK n \in Nat : n = Len(added) OBVIOUS
<1>3. PICK m \in Nat : m = Len(table[t]) BY ShapesKnown
<1>4. /\ \A f \in 1 .. l : functions'[f] = functions[f]
      /\ \A k \in 1 .. n : functions'[l + k] = added[k]
      /\ \A u \in Types : u # t => table'[u] = table[u]
      /\ Len(table'[t]) = m + n /\ Types' = Types
      /\ \A i \in 1 .. m : table'[t][i] = table[t][i]
      /\ \A k \in 1 .. n : table'[t][m + k] = l + k
  BY <1>1, <1>2, <1>3, Adding
<1>5. /\ DOMAIN functions' = 1 .. l + n
      /\ \A u \in Types, f \in 1 .. l : InAfter(u, f) <=> In(u, f)
      /\ \A u \in Types, k \in 1 .. n : InAfter(u, l + k) <=> u = t
  BY <1>1, <1>2, AddedIn
<1>6. \A f \in 1 .. l + n : f \in 1 .. l \/ \E k \in 1 .. n : f = l + k
  <2> TAKE f \in 1 .. l + n
  <2>1. CASE f > l
    <3>1. f - l \in 1 .. n /\ f = l + (f - l) BY <2>1
    <3> QED BY <3>1
  <2> QED BY <2>1
<1>7. \A i \in 1 .. m + n : i \in 1 .. m \/ \E k \in 1 .. n : i = m + k
  <2> TAKE i \in 1 .. m + n
  <2>1. CASE i > m
    <3>1. i - m \in 1 .. n /\ i = m + (i - m) BY <2>1
    <3> QED BY <3>1
  <2> QED BY <2>1
<1>8. \A u \in Types : \A i \in 1 .. Len(table[u]) :
        table[u][i] \in 1 .. l /\ In(u, table[u][i]) /\ functions[table[u][i]].position = i
  BY <1>1 DEF Tables, In
<1> SUFFICES ASSUME NEW u \in Types
             PROVE  /\ \A i \in 1 .. Len(table'[u]) :
                         InAfter(u, table'[u][i]) /\ functions'[table'[u][i]].position = i
                    /\ \A i, j \in 1 .. Len(table'[u]) : i < j =>
                         /\ table'[u][i] < table'[u][j]
                         /\ functions'[table'[u][i]].owner <= functions'[table'[u][j]].owner
                    /\ \A f \in DOMAIN functions' : InAfter(u, f) =>
                         \E i \in 1 .. Len(table'[u]) : table'[u][i] = f
  BY <1>4 DEF Tables, In, InAfter
<1>9. CASE u # t
  <2>1. table'[u] = table[u] BY <1>4, <1>9
  <2>2. \A i \in 1 .. Len(table[u]) : functions'[table[u][i]] = functions[table[u][i]]
    BY <1>4, <1>8
  <2>3. \A i \in 1 .. Len(table[u]) : InAfter(u, table[u][i]) BY <1>5, <1>8
  <2>4. \A f \in DOMAIN functions' : InAfter(u, f) => f \in 1 .. l /\ In(u, f)
    BY <1>5, <1>6, <1>9
  <2>5. \A i \in 1 .. Len(table'[u]) :
          InAfter(u, table'[u][i]) /\ functions'[table'[u][i]].position = i
    BY <1>8, <2>1, <2>2, <2>3
  <2>6. \A i, j \in 1 .. Len(table'[u]) : i < j =>
          /\ table'[u][i] < table'[u][j]
          /\ functions'[table'[u][i]].owner <= functions'[table'[u][j]].owner
    BY <2>1, <2>2 DEF Tables
  <2>7. \A f \in DOMAIN functions' : InAfter(u, f) => \E i \in 1 .. Len(table'[u]) : table'[u][i] = f
    BY <1>1, <2>1, <2>4 DEF Tables
  <2> QED BY <2>5, <2>6, <2>7
<1>10. CASE u = t
  <2>1. \A i \in 1 .. m : /\ table'[t][i] \in 1 .. l /\ InAfter(t, table'[t][i])
                          /\ functions'[table'[t][i]] = functions[table[t][i]]
                          /\ functions'[table'[t][i]].position = i
    <3> TAKE i \in 1 .. m
    <3>1. table'[t][i] = table[t][i] BY <1>3, <1>4
    <3>2. table[t][i] \in 1 .. l /\ In(t, table[t][i]) /\ functions[table[t][i]].position = i BY <1>3, <1>8, <1>10
    <3>3. InAfter(t, table[t][i]) /\ functions'[table[t][i]] = functions[table[t][i]] BY <1>4, <1>5, <1>10, <3>2
    <3> QED BY <3>1, <3>2, <3>3
  <2>2. \A k \in 1 .. n : /\ table'[t][m + k] = l + k /\ InAfter(t, table'[t][m + k])
                          /\ functions'[table'[t][m + k]].position = m + k
                          /\ functions'[table'[t][m + k]].owner = t
    BY <1>2, <1>3, <1>4, <1>5 DEF Adds
  <2>3. \A i \in 1 .. m + n : InAfter(t, table'[t][i]) /\ functions'[table'[t][i]].position = i
    <3> TAKE i \in 1 .. m + n
    <3>1. CASE i \in 1 .. m BY <2>1, <3>1
    <3>2. CASE \E k \in 1 .. n : i = m + k
      <4>1. PICK k \in 1 .. n : i = m + k BY <3>2
      <4>2. InAfter(t, table'[t][m + k]) /\ functions'[table'[t][m + k]].position = m + k BY <2>2
      <4> QED BY <4>1, <4>2
    <3> QED BY <1>7, <3>1, <3>2
  <2>4. \A i \in 1 .. m : functions'[table'[t][i]].owner \in 1 .. t
    BY <1>3, <1>8, <2>1, ShapesKnown, ChainRange DEF In
  <2>5. ASSUME NEW i \in 1 .. m + n, NEW j \in 1 .. m + n, i < j
        PROVE  /\ table'[t][i] < table'[t][j]
               /\ functions'[table'[t][i]].owner <= functions'[table'[t][j]].owner
    <3>1. t \in Nat BY ShapesKnown DEF TypesFit, Types
    <3>2. CASE j \in 1 .. m
      <4>1. i \in 1 .. m BY <2>5, <3>2
      <4> QED BY <1>3, <1>4, <2>1, <2>5, <3>2, <4>1 DEF Tables
    <3>3. CASE i \in 1 .. m /\ \E k \in 1 .. n : j = m + k
      <4>1. PICK k \in 1 .. n : j = m + k BY <3>3
      <4>2. table'[t][i] < table'[t][j]
        <5>1. table'[t][i] \in 1 .. l /\ table'[t][j] = l + k BY <2>1, <2>2, <3>3, <4>1
        <5> QED BY <5>1
      <4>3. functions'[table'[t][i]].owner \in 1 .. t /\ functions'[table'[t][j]].owner = t
        BY <2>2, <2>4, <3>3, <4>1
      <4> QED BY <3>1, <4>2, <4>3
    <3>4. CASE (\E k \in 1 .. n : i = m + k) /\ \E k \in 1 .. n : j = m + k
      <4>1. PICK k \in 1 .. n : i = m + k BY <3>4
      <4>2. PICK h \in 1 .. n : j = m + h BY <3>4
      <4>3. table'[t][i] = l + k /\ table'[t][j] = l + h BY <2>2, <4>1, <4>2
      <4>5. k < h BY <2>5, <4>1, <4>2
      <4>4. functions'[table'[t][i]].owner = t /\ functions'[table'[t][j]].owner = t
        BY <2>2, <4>1, <4>2
      <4>6. l + k < l + h BY <4>5
      <4> QED BY <3>1, <4>3, <4>4, <4>6
    <3> QED BY <1>7, <3>2, <3>3, <3>4
  <2>6. ASSUME NEW f \in 1 .. l + n, InAfter(t, f) PROVE \E i \in 1 .. m + n : table'[t][i] = f
    <3>1. CASE f \in 1 .. l
      <4>1. PICK i \in 1 .. m : table[t][i] = f BY <1>1, <1>3, <1>5, <2>6, <3>1 DEF Tables
      <4>2. i \in 1 .. m + n OBVIOUS
      <4> QED BY <1>4, <4>1, <4>2
    <3>2. CASE \E k \in 1 .. n : f = l + k
      <4>1. PICK k \in 1 .. n : f = l + k BY <3>2
      <4>2. m + k \in 1 .. m + n OBVIOUS
      <4> QED BY <1>4, <4>1, <4>2
    <3> QED BY <1>6, <3>1, <3>2
  <2> QED BY <1>4, <1>5, <1>10, <2>3, <2>5, <2>6
<1> QED BY <1>9, <1>10

IsLookupAfter(t, name, f) ==
  IF f = None THEN \A g \in DOMAIN functions' : InAfter(t, g) => functions'[g].name # name
  ELSE /\ InAfter(t, f) /\ functions'[f].name = name
       /\ \A g \in DOMAIN functions' :
            InAfter(t, g) /\ functions'[g].name = name =>
              g <= f /\ functions'[g].owner <= functions'[f].owner

LEMMA LookupsAfter ==
  ASSUME Shapes', Tables'
  PROVE  \A t \in Types' : \A name : Lookup(t, name)' \in Nat /\ IsLookupAfter(t, name, Lookup(t, name)')
<1>1. Shapes' /\ Tables' => LookupsRight' BY LookupsAre, PTL
<1> QED BY <1>1 DEF LookupsRight, IsLookup, IsLookupAfter, In, InAfter

LEMMA OneLookupAfter ==
  ASSUME Shapes', NEW t, NEW name, NEW f \in Nat, NEW g \in Nat,
         IsLookupAfter(t, name, f), IsLookupAfter(t, name, g)
  PROVE  f = g
<1>1. \A h \in DOMAIN functions' : h \in Nat BY DEF Shapes
<1> QED BY <1>1 DEF IsLookupAfter, InAfter

LEMMA AddedLookups ==
  ASSUME Shapes, Tables, Shapes', NEW t \in Types, NEW added \in Seq(AFunction), Adds(t, added)
  PROVE  /\ \A u \in Types : \A name :
              u # t \/ (\A k \in 1 .. Len(added) : added[k].name # name) =>
                Lookup(u, name)' = Lookup(u, name)
         /\ \A k \in 1 .. Len(added) :
              (\A j \in 1 .. Len(added) : added[j].name = added[k].name => j = k) =>
                Lookup(t, added[k].name)' = Len(functions) + k
<1>1. PICK l \in Nat : l = Len(functions) /\ DOMAIN functions = 1 .. l BY ShapesKnown
<1>2. PICK n \in Nat : n = Len(added) OBVIOUS
<1>3. /\ \A f \in 1 .. l : functions'[f] = functions[f]
      /\ \A k \in 1 .. n : functions'[l + k] = added[k]
      /\ Types' = Types
  BY <1>1, <1>2, Adding
<1>4. /\ DOMAIN functions' = 1 .. l + n
      /\ \A u \in Types, f \in 1 .. l : InAfter(u, f) <=> In(u, f)
      /\ \A u \in Types, k \in 1 .. n : InAfter(u, l + k) <=> u = t
  BY <1>1, <1>2, AddedIn
<1>5. \A f \in 1 .. l + n : f \in 1 .. l \/ \E k \in 1 .. n : f = l + k
  <2> TAKE f \in 1 .. l + n
  <2>1. CASE f > l
    <3>1. f - l \in 1 .. n /\ f = l + (f - l) BY <2>1
    <3> QED BY <3>1
  <2> QED BY <2>1
<1>6. Tables' BY AddedTables
<1>7. ASSUME NEW u \in Types, NEW name, u # t \/ (\A k \in 1 .. n : added[k].name # name)
      PROVE  Lookup(u, name)' = Lookup(u, name)
  <2>1. PICK f \in Nat : f = Lookup(u, name) /\ IsLookup(u, name, f) BY LookupsAre DEF LookupsRight
  <2>2. PICK g \in Nat : g = Lookup(u, name)' /\ IsLookupAfter(u, name, g)
    BY <1>3, <1>6, LookupsAfter
  <2>3. \A h \in 1 .. l + n : InAfter(u, h) /\ functions'[h].name = name =>
          h \in 1 .. l /\ In(u, h) /\ functions[h].name = name /\ functions'[h] = functions[h]
    <3> SUFFICES ASSUME NEW h \in 1 .. l + n, InAfter(u, h), functions'[h].name = name
                 PROVE  h \in 1 .. l /\ In(u, h) /\ functions[h].name = name /\ functions'[h] = functions[h]
      OBVIOUS
    <3>1. CASE h \in 1 .. l BY <1>3, <1>4, <3>1
    <3>2. CASE \E k \in 1 .. n : h = l + k
      <4>1. PICK k \in 1 .. n : h = l + k BY <3>2
      <4>2. functions'[h] = added[k] /\ InAfter(u, l + k) BY <1>3, <4>1
      <4> QED BY <1>4, <1>7, <4>2
    <3> QED BY <1>5, <3>1, <3>2
  <2>4. CASE f = None
    <3>1. IsLookupAfter(u, name, f) BY <1>1, <1>4, <2>1, <2>3, <2>4 DEF IsLookup, IsLookupAfter
    <3> QED BY <2>1, <2>2, <3>1, OneLookupAfter
  <2>5. CASE f # None
    <3>1. f \in 1 .. l /\ In(u, f) /\ functions[f].name = name
      BY <1>1, <2>1, <2>5 DEF IsLookup, In
    <3>2. InAfter(u, f) /\ functions'[f] = functions[f] BY <1>3, <1>4, <3>1
    <3>3. \A h \in 1 .. l + n : InAfter(u, h) /\ functions'[h].name = name =>
            h <= f /\ functions'[h].owner <= functions'[f].owner
      BY <1>1, <2>1, <2>3, <2>5, <3>2 DEF IsLookup
    <3>4. IsLookupAfter(u, name, f) BY <1>4, <2>5, <3>1, <3>2, <3>3 DEF IsLookupAfter
    <3> QED BY <2>1, <2>2, <3>4, OneLookupAfter
  <2> QED BY <2>4, <2>5
<1>8. ASSUME NEW k \in 1 .. n, \A j \in 1 .. n : added[j].name = added[k].name => j = k
      PROVE  Lookup(t, added[k].name)' = l + k
  <2>1. PICK name : name = added[k].name OBVIOUS
  <2>2. PICK g \in Nat : g = Lookup(t, name)' /\ IsLookupAfter(t, name, g)
    BY <1>3, <1>6, LookupsAfter
  <2>3. PICK f \in 1 .. l + n : f = l + k OBVIOUS
  <2>4. InAfter(t, f) /\ functions'[f] = added[k] /\ functions'[f].owner = t /\ f # None
    <3>1. functions'[f] = added[k] BY <1>2, <1>3, <1>4, <2>3
    <3>2. added[k].owner = t BY <1>2, <1>3 DEF Adds
    <3>3. InAfter(t, f) BY <1>4, <2>3
    <3>4. f # None BY <1>3, <2>3 DEF None
    <3> QED BY <3>1, <3>2, <3>3, <3>4
  <2>5. ASSUME NEW h \in 1 .. l + n, InAfter(t, h), functions'[h].name = name
        PROVE  h <= f /\ functions'[h].owner <= functions'[f].owner
    <3>1. CASE h \in 1 .. l
      <4>1. h <= f BY <2>3, <3>1
      <4>2. functions[h].owner \in Range(Chain[t]) BY <1>4, <2>5, <3>1 DEF In
      <4>3. functions[h].owner <= t /\ t \in Nat BY <4>2, ShapesKnown, ChainRange
      <4> QED BY <1>3, <2>4, <3>1, <4>1, <4>3
    <3>2. CASE \E j \in 1 .. n : h = l + j
      <4>1. PICK j \in 1 .. n : h = l + j BY <3>2
      <4>2. j = k BY <1>3, <1>8, <2>1, <2>5, <4>1
      <4>3. h = f BY <2>3, <4>1, <4>2
      <4>4. t \in Nat BY ShapesKnown, ChainRange
      <4> QED BY <2>4, <4>3, <4>4
    <3> QED BY <1>5, <3>1, <3>2
  <2>6. IsLookupAfter(t, name, f) BY <1>4, <2>1, <2>4, <2>5 DEF IsLookupAfter
  <2>7. f = g BY <2>2, <2>6, OneLookupAfter
  <2> QED BY <2>1, <2>2, <2>3, <2>7
<1> QED BY <1>1, <1>2, <1>7, <1>8
-----------------------------------------------------------------------------
(* Registering a class: the last one, which no class extends.              *)
NewClass(name, base, inherited, own) ==
  /\ types' = Append(types, [name |-> name, base |-> base])
  /\ inherited \in Seq(Nat) /\ base \in Types \cup {None}
  /\ \/ /\ base = None /\ own = <<>> /\ inherited = <<>>
        /\ functions' = functions /\ table' = Append(table, <<>>)
     \/ /\ inherited = IF base = None THEN <<>> ELSE table[base]
        /\ \E own_1 \in AFunction : own = <<own_1>>
        /\ own[1].owner = Len(types) + 1 /\ own[1].position = Len(inherited) + 1
        /\ functions' = Append(functions, own[1])
        /\ table' = Append(table, Append(inherited, Len(functions) + 1))

LEMMA Registering ==
  ASSUME Shapes, NEW name \in ClassNames, NEW base, NEW inherited, NEW own,
         NewClass(name, base, inherited, own)
  PROVE  /\ types' \in Seq(AType) /\ Len(types') = Len(types) + 1
         /\ \A t \in Types : t \in Types' /\ types'[t] = types[t] /\ Chain'[t] = Chain[t]
         /\ types'[Len(types) + 1].name = name /\ types'[Len(types) + 1].base = base
         /\ functions' \in Seq(AFunction) /\ DOMAIN functions' = 1 .. Len(functions) + Len(own)
         /\ Len(functions') = Len(functions) + Len(own)
         /\ \A f \in DOMAIN functions : functions'[f] = functions[f]
         /\ own # <<>> => functions'[Len(functions) + 1] = own[1]
         /\ table' \in Seq(Seq(Nat)) /\ Len(table') = Len(types) + 1
         /\ \A t \in Types : table'[t] = table[t]
         /\ TypesFit'
<1>1. PICK n \in Nat : n = Len(types) /\ Types = 1 .. n BY ShapesKnown DEF TypesFit, Types
<1>2. PICK l \in Nat : l = Len(functions) /\ DOMAIN functions = 1 .. l BY ShapesKnown
<1>3. [name |-> name, base |-> base] \in AType BY <1>1 DEF NewClass, AType, None
<1>4. /\ types' \in Seq(AType) /\ Len(types') = n + 1
      /\ \A t \in 1 .. n : types'[t] = types[t]
      /\ types'[n + 1] = [name |-> name, base |-> base]
  <2>1. PICK ts \in Seq(AType) : ts = types BY DEF Shapes
  <2> QED BY <1>1, <1>3, <2>1, AppendProperties DEF NewClass
<1>5. types'[n + 1].name = name /\ types'[n + 1].base = base BY <1>4
<1>6. Types' = 1 .. n + 1 BY <1>4 DEF Types
<1>7. TypesFit'
  <2>1. \A t \in 1 .. n : types[t].base \in Nat /\ types[t].base < t BY <1>1, ShapesKnown DEF TypesFit
  <2>2. base \in Nat /\ base < n + 1 BY <1>1 DEF NewClass, None
  <2> SUFFICES ASSUME NEW t \in 1 .. n + 1 PROVE types'[t].base \in Nat /\ types'[t].base < t
    BY <1>4, <1>6 DEF TypesFit
  <2>3. CASE t = n + 1 BY <1>5, <2>2, <2>3
  <2>4. CASE t \in 1 .. n BY <1>4, <2>1, <2>4
  <2> QED BY <2>3, <2>4
<1>8. \A t \in Types : t \in Types' /\ types'[t] = types[t] BY <1>1, <1>4, <1>6
<1>9. \A t \in Types : Chain'[t] = Chain[t] BY <1>7, <1>8, ShapesKnown, ChainStays
<1>10. PICK tb \in Seq(Seq(Nat)) : tb = table /\ Len(tb) = n BY <1>1 DEF Shapes
<1>11. PICK fs \in Seq(AFunction) : fs = functions /\ Len(fs) = l BY <1>2 DEF Shapes
<1>12. CASE own = <<>> /\ functions' = functions /\ table' = Append(table, <<>>)
  <2>1. Append(tb, <<>>) \in Seq(Seq(Nat)) /\ Len(Append(tb, <<>>)) = n + 1
        /\ \A t \in 1 .. n : Append(tb, <<>>)[t] = tb[t]
    <3>1. <<>> \in Seq(Nat) OBVIOUS
    <3> QED BY <1>10, <3>1, AppendProperties
  <2>2. Len(own) = 0 BY <1>12
  <2>3. 1 .. l + 0 = 1 .. l OBVIOUS
  <2> QED BY <1>1, <1>2, <1>4, <1>5, <1>7, <1>8, <1>9, <1>10, <1>11, <1>12, <2>1, <2>2, <2>3
<1>13. CASE \E own_1 \in AFunction :
              /\ own = <<own_1>> /\ functions' = Append(functions, own_1)
              /\ table' = Append(table, Append(inherited, Len(functions) + 1))
  <2>1. PICK own_1 \in AFunction :
           /\ own = <<own_1>> /\ functions' = Append(functions, own_1)
           /\ table' = Append(table, Append(inherited, Len(functions) + 1))
    BY <1>13
  <2>2. PICK T \in Seq(Nat) : T = Append(inherited, l + 1)
    <3>1. l + 1 \in Nat /\ inherited \in Seq(Nat) BY DEF NewClass
    <3> QED BY <3>1, AppendProperties
  <2>3. table' \in Seq(Seq(Nat)) /\ Len(table') = n + 1
        /\ \A t \in 1 .. n : table'[t] = tb[t]
    BY <1>2, <1>10, <2>1, <2>2, AppendProperties
  <2>4. Len(own) = 1 /\ own[1] = own_1 BY <2>1
  <2>5. functions' \in Seq(AFunction) /\ Len(functions') = l + 1 /\ functions'[l + 1] = own_1
        /\ \A f \in 1 .. l : functions'[f] = fs[f]
    BY <1>11, <2>1, AppendProperties
  <2>6. DOMAIN functions' = 1 .. l + 1 BY <2>5
  <2> QED BY <1>1, <1>2, <1>4, <1>5, <1>7, <1>8, <1>9, <1>10, <1>11, <2>1, <2>3, <2>4, <2>5, <2>6
<1>14. CASE base = None /\ own = <<>> /\ inherited = <<>> /\ functions' = functions
            /\ table' = Append(table, <<>>)
  BY <1>12, <1>14
<1>15. CASE /\ \E own_1 \in AFunction : own = <<own_1>>
            /\ functions' = Append(functions, own[1])
            /\ table' = Append(table, Append(inherited, Len(functions) + 1))
  <2>1. PICK own_1 \in AFunction : own = <<own_1>> BY <1>15
  <2>2. own[1] = own_1 BY <2>1
  <2> QED BY <1>13, <1>15, <2>1, <2>2
<1> QED BY <1>14, <1>15 DEF NewClass

LEMMA RegisteredIn ==
  ASSUME Shapes, Tables, NEW name \in ClassNames, NEW base, NEW inherited, NEW own,
         NewClass(name, base, inherited, own)
  PROVE  /\ Types' = Types \cup {Len(types) + 1}
         /\ \A u \in Types : \A f \in DOMAIN functions' :
              InAfter(u, f) <=> f \in DOMAIN functions /\ In(u, f)
         /\ \A f \in DOMAIN functions' :
              InAfter(Len(types) + 1, f) <=>
                (f \in DOMAIN functions => base # None /\ In(base, f))
         /\ \A f \in DOMAIN functions' : f \notin DOMAIN functions =>
              f = Len(functions) + 1 /\ own # <<>> /\ functions'[f] = own[1]
<1>1. PICK n \in Nat : n = Len(types) /\ Types = 1 .. n BY ShapesKnown DEF TypesFit, Types
<1>2. PICK l \in Nat : l = Len(functions) /\ DOMAIN functions = 1 .. l BY ShapesKnown
<1>3. /\ Len(types') = n + 1 /\ types'[n + 1].base = base /\ TypesFit'
      /\ \A u \in 1 .. n : Chain'[u] = Chain[u]
      /\ \A f \in 1 .. l : functions'[f] = functions[f]
      /\ DOMAIN functions' = 1 .. l + Len(own)
      /\ own # <<>> => functions'[l + 1] = own[1]
  BY <1>1, <1>2, Registering
<1>4. Types' = 1 .. n + 1 BY <1>3 DEF Types
<1>5. ChainsGrow' /\ ChainsGrow
  <2>1. TypesFit' => ChainsGrow' BY ChainsDoGrow, PTL
  <2> QED BY <1>3, <2>1, ChainsDoGrow, ShapesKnown
<1>6. \A f \in 1 .. l : functions[f].owner \in 1 .. n BY <1>1, <1>2 DEF Shapes
<1>7. \A f \in DOMAIN functions' : f \notin 1 .. l =>
        f = l + 1 /\ own # <<>> /\ functions'[f] = own[1] /\ functions'[f].owner = n + 1
  <2>1. own = <<>> \/ \E own_1 : own = <<own_1>> BY DEF NewClass
  <2>2. own = <<>> => Len(own) = 0 OBVIOUS
  <2>3. (\E own_1 : own = <<own_1>>) => Len(own) = 1 OBVIOUS
  <2>4. own # <<>> => own[1].owner = n + 1 BY <1>1 DEF NewClass
  <2> SUFFICES ASSUME NEW f \in 1 .. l + Len(own), f \notin 1 .. l
               PROVE  f = l + 1 /\ own # <<>>
    BY <1>3, <2>4
  <2>5. CASE own = <<>> BY <2>2, <2>5
  <2>6. CASE Len(own) = 1 BY <2>1, <2>2, <2>6
  <2> QED BY <2>1, <2>3, <2>5, <2>6
<1>8. ASSUME NEW u \in 1 .. n, NEW f \in DOMAIN functions'
      PROVE  InAfter(u, f) <=> f \in 1 .. l /\ In(u, f)
  <2>1. CASE f \in 1 .. l BY <1>2, <1>3, <2>1 DEF In, InAfter
  <2>2. CASE f \notin 1 .. l
    <3>1. Range(Chain'[u]) \subseteq 1 .. u BY <1>1, <1>3, <1>5 DEF ChainsGrow
    <3>2. n + 1 \notin 1 .. u OBVIOUS
    <3> QED BY <1>7, <2>2, <3>1, <3>2 DEF InAfter
  <2> QED BY <2>1, <2>2
<1>9. Range(Chain'[n + 1]) = IF base = None THEN {n + 1} ELSE Range(Chain[base]) \cup {n + 1}
  <2>1. n + 1 \in Types' BY <1>4
  <2>2. base # None => Chain'[base] = Chain[base] BY <1>1, <1>3 DEF NewClass
  <2> QED BY <1>3, <1>5, <2>1, <2>2 DEF ChainsGrow
<1>10. ASSUME NEW f \in DOMAIN functions'
       PROVE  InAfter(n + 1, f) <=> (f \in 1 .. l => base # None /\ In(base, f))
  <2>1. CASE f \in 1 .. l
    <3>1. functions'[f].owner = functions[f].owner /\ functions[f].owner # n + 1 BY <1>3, <1>6, <2>1
    <3> QED BY <1>2, <1>9, <2>1, <3>1 DEF In, InAfter
  <2>2. CASE f \notin 1 .. l
    <3>1. n + 1 \in Range(Chain'[n + 1]) BY <1>9
    <3> QED BY <1>7, <2>2, <3>1 DEF InAfter
  <2> QED BY <2>1, <2>2
<1>11. 1 .. n + 1 = 1 .. n \cup {n + 1} OBVIOUS
<1> QED BY <1>1, <1>2, <1>4, <1>7, <1>8, <1>10, <1>11

LEMMA RegisteredTables ==
  ASSUME Shapes, Tables, NEW name \in ClassNames, NEW base, NEW inherited, NEW own,
         NewClass(name, base, inherited, own)
  PROVE  Tables'
<1>1. PICK n \in Nat : n = Len(types) /\ Types = 1 .. n BY ShapesKnown DEF TypesFit, Types
<1>2. PICK l \in Nat : l = Len(functions) /\ DOMAIN functions = 1 .. l BY ShapesKnown
<1>3. /\ \A u \in 1 .. n : table'[u] = table[u]
      /\ \A f \in 1 .. l : functions'[f] = functions[f]
      /\ DOMAIN functions' = 1 .. l + Len(own)
  BY <1>1, <1>2, Registering
<1>4. /\ Types' = 1 .. n \cup {n + 1}
      /\ \A u \in 1 .. n : \A f \in DOMAIN functions' : InAfter(u, f) <=> f \in 1 .. l /\ In(u, f)
      /\ \A f \in DOMAIN functions' : InAfter(n + 1, f) <=> (f \in 1 .. l => base # None /\ In(base, f))
      /\ \A f \in DOMAIN functions' : f \notin 1 .. l => f = l + 1 /\ own # <<>> /\ functions'[f] = own[1]
  BY <1>1, <1>2, RegisteredIn
<1>5. \A u \in 1 .. n : \A i \in 1 .. Len(table[u]) :
        table[u][i] \in 1 .. l /\ In(u, table[u][i]) /\ functions[table[u][i]].position = i
  BY <1>1, <1>2 DEF Tables, In
<1>6. 1 .. l \subseteq DOMAIN functions'
  <2>1. own = <<>> \/ \E own_1 : own = <<own_1>> BY DEF NewClass
  <2>2. Len(own) \in Nat BY <2>1
  <2> QED BY <1>3, <2>2
<1> SUFFICES ASSUME NEW u \in Types'
             PROVE  /\ \A i \in 1 .. Len(table'[u]) :
                         InAfter(u, table'[u][i]) /\ functions'[table'[u][i]].position = i
                    /\ \A i, j \in 1 .. Len(table'[u]) : i < j =>
                         /\ table'[u][i] < table'[u][j]
                         /\ functions'[table'[u][i]].owner <= functions'[table'[u][j]].owner
                    /\ \A f \in DOMAIN functions' : InAfter(u, f) =>
                         \E i \in 1 .. Len(table'[u]) : table'[u][i] = f
  BY DEF Tables, In, InAfter
<1>7. CASE u \in 1 .. n
  <2>1. table'[u] = table[u] BY <1>3, <1>7
  <2>2. \A i \in 1 .. Len(table[u]) : functions'[table[u][i]] = functions[table[u][i]]
    BY <1>3, <1>5, <1>7
  <2>3. \A i \in 1 .. Len(table[u]) : InAfter(u, table[u][i]) BY <1>4, <1>5, <1>6, <1>7
  <2>4. \A f \in DOMAIN functions' : InAfter(u, f) => f \in 1 .. l /\ In(u, f) BY <1>4, <1>7
  <2>5. \A i \in 1 .. Len(table'[u]) :
          InAfter(u, table'[u][i]) /\ functions'[table'[u][i]].position = i
    BY <1>5, <1>7, <2>1, <2>2, <2>3
  <2>6. \A i, j \in 1 .. Len(table'[u]) : i < j =>
          /\ table'[u][i] < table'[u][j]
          /\ functions'[table'[u][i]].owner <= functions'[table'[u][j]].owner
    <3>1. u \in Types BY <1>1, <1>7
    <3>2. \A i, j \in 1 .. Len(table[u]) : i < j =>
            table[u][i] < table[u][j] /\ functions[table[u][i]].owner <= functions[table[u][j]].owner
      BY <3>1 DEF Tables
    <3> QED BY <2>1, <2>2, <3>2
  <2>7. \A f \in DOMAIN functions' : InAfter(u, f) => \E i \in 1 .. Len(table'[u]) : table'[u][i] = f
    BY <1>1, <1>2, <1>7, <2>1, <2>4 DEF Tables
  <2> QED BY <2>5, <2>6, <2>7
<1>8. CASE u = n + 1
  <2>1. PICK inh \in Seq(Nat) : inh = inherited BY DEF NewClass
  <2>2. PICK m \in Nat : m = Len(inh) BY <2>1
  <2>3. base # None => base \in 1 .. n BY <1>1 DEF NewClass
  <2>4. \A i \in 1 .. m : base # None /\ inh = table[base]
    <3>1. inherited = <<>> => m = 0 BY <2>1, <2>2
    <3> QED BY <2>1, <3>1 DEF NewClass
  <2>5. PICK tb \in Seq(Nat) : tb = table'[n + 1] /\ tb = IF own = <<>> THEN inh ELSE Append(inh, l + 1)
    <3>1. PICK ts \in Seq(Seq(Nat)) : ts = table /\ Len(ts) = n BY <1>1 DEF Shapes
    <3>2. CASE own = <<>> /\ inherited = <<>> /\ table' = Append(table, <<>>)
      <4>1. <<>> \in Seq(Nat) OBVIOUS
      <4>2. table'[n + 1] = <<>> BY <3>1, <3>2, <4>1, AppendProperties
      <4> QED BY <2>1, <3>2, <4>1, <4>2
    <3>3. CASE own # <<>> /\ table' = Append(table, Append(inherited, l + 1))
      <4>1. PICK T \in Seq(Nat) : T = Append(inh, l + 1)
        <5>1. l + 1 \in Nat OBVIOUS
        <5> QED BY <5>1, AppendProperties
      <4>2. table'[n + 1] = T BY <2>1, <3>1, <3>3, <4>1, AppendProperties
      <4> QED BY <3>3, <4>1, <4>2
    <3> QED BY <1>2, <3>2, <3>3 DEF NewClass
  <2>6. /\ \A i \in 1 .. m : tb[i] = inh[i]
        /\ IF own = <<>> THEN Len(tb) = m ELSE Len(tb) = m + 1 /\ tb[m + 1] = l + 1
    <3>1. l + 1 \in Nat OBVIOUS
    <3> QED BY <2>2, <2>5, <3>1, AppendProperties
  <2>7. ASSUME NEW i \in 1 .. m
        PROVE  /\ tb[i] \in 1 .. l /\ InAfter(n + 1, tb[i]) /\ tb[i] = inh[i]
               /\ functions'[tb[i]] = functions[inh[i]] /\ functions[inh[i]].position = i
               /\ functions[inh[i]].owner \in 1 .. n
    <3>1. base \in 1 .. n /\ inh = table[base] BY <2>3, <2>4
    <3>2. tb[i] = inh[i] /\ inh[i] \in 1 .. l /\ In(base, inh[i]) /\ functions[inh[i]].position = i
      BY <1>5, <2>2, <2>6, <3>1
    <3>3. InAfter(n + 1, tb[i]) BY <1>4, <1>6, <2>3, <2>4, <3>2
    <3>4. functions[inh[i]].owner \in 1 .. n BY <1>1, <1>2, <3>2 DEF Shapes
    <3> QED BY <1>3, <3>2, <3>3, <3>4
  <2>8. own # <<>> => /\ InAfter(n + 1, l + 1) /\ functions'[l + 1].position = m + 1
                      /\ functions'[l + 1].owner = n + 1
    <3> SUFFICES ASSUME own # <<>> PROVE InAfter(n + 1, l + 1) /\ functions'[l + 1].position = m + 1
                                         /\ functions'[l + 1].owner = n + 1
      OBVIOUS
    <3>1. own[1].owner = n + 1 /\ own[1].position = m + 1 BY <1>1, <2>1, <2>2 DEF NewClass
    <3>2. Len(own) = 1
      <4>1. \E own_1 : own = <<own_1>> BY DEF NewClass
      <4> QED BY <4>1
    <3>3. l + 1 \in DOMAIN functions' /\ l + 1 \notin 1 .. l BY <1>3, <3>2
    <3> QED BY <1>4, <3>1, <3>3
  <2>9. \A i \in 1 .. Len(tb) : i \in 1 .. m \/ (own # <<>> /\ i = m + 1) BY <2>6
  <2>10. \A i \in 1 .. Len(tb) : InAfter(n + 1, tb[i]) /\ functions'[tb[i]].position = i
    BY <2>6, <2>7, <2>8, <2>9
  <2>11. ASSUME NEW i \in 1 .. Len(tb), NEW j \in 1 .. Len(tb), i < j
         PROVE  tb[i] < tb[j] /\ functions'[tb[i]].owner <= functions'[tb[j]].owner
    <3>1. i \in 1 .. m BY <2>6, <2>9, <2>11
    <3>2. tb[i] \in 1 .. l /\ functions'[tb[i]].owner \in 1 .. n BY <2>7, <3>1
    <3>3. CASE own # <<>> /\ j = m + 1
      <4>1. tb[j] = l + 1 /\ functions'[tb[j]].owner = n + 1 BY <2>6, <2>8, <3>3
      <4>2. tb[i] < l + 1 BY <3>2
      <4>3. \A x \in 1 .. n : x <= n + 1 OBVIOUS
      <4>4. functions'[tb[i]].owner <= n + 1 BY <3>2, <4>3
      <4> QED BY <4>1, <4>2, <4>4
    <3>4. CASE j \in 1 .. m
      <4>1. inh[i] < inh[j] /\ functions[inh[i]].owner <= functions[inh[j]].owner
        BY <1>1, <2>2, <2>3, <2>4, <2>11, <3>1, <3>4 DEF Tables
      <4> QED BY <2>7, <3>1, <3>4, <4>1
    <3> QED BY <2>9, <3>3, <3>4
  <2>12. ASSUME NEW f \in DOMAIN functions', InAfter(n + 1, f) PROVE \E i \in 1 .. Len(tb) : tb[i] = f
    <3>1. CASE f \in 1 .. l
      <4>1. base \in 1 .. n /\ In(base, f) BY <1>4, <2>3, <2>12, <3>1
      <4>2. inherited = table[base]
        BY <4>1 DEF NewClass, None
      <4>3. PICK i \in 1 .. m : inh[i] = f BY <1>1, <1>2, <2>1, <2>2, <3>1, <4>1, <4>2 DEF Tables
      <4>4. i \in 1 .. Len(tb) BY <2>6
      <4> QED BY <2>6, <4>3, <4>4
    <3>2. CASE f \notin 1 .. l
      <4>1. f = l + 1 /\ own # <<>> BY <1>4, <3>2
      <4>2. m + 1 \in 1 .. Len(tb) /\ tb[m + 1] = f BY <2>6, <4>1
      <4> QED BY <4>2
    <3> QED BY <3>1, <3>2
  <2> QED BY <1>8, <2>5, <2>10, <2>11, <2>12
<1> QED BY <1>4, <1>7, <1>8

LEMMA RegisteredLookups ==
  ASSUME Shapes, Tables, Shapes', NEW name \in ClassNames, NEW base, NEW inherited, NEW own,
         NewClass(name, base, inherited, own)
  PROVE  /\ \A u \in Types : \A m : Lookup(u, m)' = Lookup(u, m)
         /\ \A t \in {Len(types) + 1} : \A m : (own # <<>> => own[1].name # m) =>
              Lookup(t, m)' = IF base = None THEN None ELSE Lookup(base, m)
<1>1. PICK n \in Nat : n = Len(types) /\ Types = 1 .. n BY ShapesKnown DEF TypesFit, Types
<1>2. PICK l \in Nat : l = Len(functions) /\ DOMAIN functions = 1 .. l BY ShapesKnown
<1>3. /\ \A f \in 1 .. l : functions'[f] = functions[f]
      /\ DOMAIN functions' = 1 .. l + Len(own)
  BY <1>1, <1>2, Registering
<1>4. /\ Types' = 1 .. n \cup {n + 1}
      /\ \A u \in 1 .. n : \A f \in DOMAIN functions' : InAfter(u, f) <=> f \in 1 .. l /\ In(u, f)
      /\ \A f \in DOMAIN functions' : InAfter(n + 1, f) <=> (f \in 1 .. l => base # None /\ In(base, f))
      /\ \A f \in DOMAIN functions' : f \notin 1 .. l => f = l + 1 /\ own # <<>> /\ functions'[f] = own[1]
  BY <1>1, <1>2, RegisteredIn
<1>5. 1 .. l \subseteq DOMAIN functions'
  <2>1. own = <<>> \/ \E own_1 : own = <<own_1>> BY DEF NewClass
  <2>2. Len(own) \in Nat BY <2>1
  <2> QED BY <1>3, <2>2
<1>6. Tables' BY RegisteredTables
<1>7. ASSUME NEW u \in Types', NEW v \in Types, NEW m,
             \A f \in DOMAIN functions' :
               InAfter(u, f) /\ functions'[f].name = m => f \in 1 .. l /\ In(v, f),
             \A f \in 1 .. l : In(v, f) => InAfter(u, f)
      PROVE  Lookup(u, m)' = Lookup(v, m)
  <2>1. PICK f \in Nat : f = Lookup(v, m) /\ IsLookup(v, m, f) BY LookupsAre DEF LookupsRight
  <2>2. PICK g \in Nat : g = Lookup(u, m)' /\ IsLookupAfter(u, m, g) BY <1>6, LookupsAfter
  <2>3. CASE f = None
    <3>1. \A h \in DOMAIN functions' : InAfter(u, h) => functions'[h].name # m
      BY <1>2, <1>3, <1>7, <2>1, <2>3 DEF IsLookup
    <3>2. IsLookupAfter(u, m, f) BY <2>3, <3>1 DEF IsLookupAfter
    <3> QED BY <2>1, <2>2, <3>2, OneLookupAfter
  <2>4. CASE f # None
    <3>1. f \in 1 .. l /\ In(v, f) /\ functions[f].name = m
      BY <1>2, <2>1, <2>4 DEF IsLookup, In
    <3>2. InAfter(u, f) /\ functions'[f] = functions[f] BY <1>3, <1>7, <3>1
    <3>3. \A h \in DOMAIN functions' : InAfter(u, h) /\ functions'[h].name = m =>
            h <= f /\ functions'[h].owner <= functions'[f].owner
      BY <1>2, <1>3, <1>7, <2>1, <2>4, <3>2 DEF IsLookup
    <3>4. IsLookupAfter(u, m, f) BY <2>4, <3>1, <3>2, <3>3 DEF IsLookupAfter
    <3> QED BY <2>1, <2>2, <3>4, OneLookupAfter
  <2> QED BY <2>3, <2>4
<1>8. ASSUME NEW u \in Types, NEW m PROVE Lookup(u, m)' = Lookup(u, m)
  <2>1. u \in Types' BY <1>1, <1>4
  <2> QED BY <1>1, <1>4, <1>5, <1>7, <2>1
<1>9. ASSUME NEW m, own # <<>> => own[1].name # m
      PROVE  Lookup(n + 1, m)' = IF base = None THEN None ELSE Lookup(base, m)
  <2>1. n + 1 \in Types' BY <1>4
  <2>2. \A f \in DOMAIN functions' :
          InAfter(n + 1, f) /\ functions'[f].name = m => f \in 1 .. l /\ base # None /\ In(base, f)
    BY <1>4, <1>9
  <2>3. CASE base = None
    <3>1. PICK g \in Nat : g = Lookup(n + 1, m)' /\ IsLookupAfter(n + 1, m, g)
      BY <1>6, <2>1, LookupsAfter
    <3>2. g = None BY <2>2, <2>3, <3>1 DEF IsLookupAfter, InAfter
    <3> QED BY <2>3, <3>1, <3>2
  <2>4. CASE base # None
    <3>1. base \in Types BY <2>4 DEF NewClass
    <3> QED BY <1>4, <1>5, <1>7, <2>1, <2>2, <2>4, <3>1
  <2> QED BY <2>3, <2>4
<1> QED BY <1>1, <1>8, <1>9
-----------------------------------------------------------------------------
(* The rest of the inductive invariant.                                    *)

(* A field initialiser is the only one of its class and has its name.      *)
Fields ==
  \A f \in DOMAIN functions, class \in ClassNames : functions[f].name = Field(class) =>
    /\ class = types[functions[f].owner].name
    /\ \A g \in DOMAIN functions :
         functions[g].owner = functions[f].owner /\ functions[g].name = functions[f].name => g = f

Supers ==
  \A f \in DOMAIN functions : functions[f].super # None =>
    /\ types[functions[f].owner].base # None
    /\ functions[f].super = Lookup(types[functions[f].owner].base, functions[f].name)

(* Properties are the functions of their metamethods and nothing else has  *)
(* their names.                                                            *)
Props ==
  \A t \in Types :
    /\ DOMAIN property[t] \subseteq Properties
    /\ types[t].base # None => DOMAIN property[types[t].base] \subseteq DOMAIN property[t]
    /\ \A p \in DOMAIN property[t] :
         /\ property[t][p].get = Lookup(t, Accessor(p, Get))
         /\ Range(property[t][p].set) = {Lookup(t, Accessor(p, Set))} \ {None}
    /\ \A f \in DOMAIN functions : In(t, f) =>
         /\ functions[f].name \notin DOMAIN property[t]
         /\ \A p \in Properties, m \in {Get, Set} :
              functions[f].name = Accessor(p, m) => p \in DOMAIN property[t]

(* What an instruction holds is a function of its name, and no class       *)
(* declares a method twice.                                                *)
Calls ==
  /\ \A m \in Methods :
       cached[m] # None => cached[m] \in DOMAIN functions /\ functions[cached[m]].name = m
  /\ \A f, g \in DOMAIN functions :
       functions[f].owner = functions[g].owner /\ functions[f].name = functions[g].name
       /\ functions[f].name \in Methods => f = g

IInv == Shapes /\ Tables /\ Fields /\ Supers /\ Props /\ Calls
-----------------------------------------------------------------------------
(* Steps that add functions keep the invariant's parts.                    *)
LEMMA AddedShapes ==
  ASSUME Shapes, Tables, NEW t \in Types, NEW added \in Seq(AFunction), Adds(t, added),
         property' \in Seq(PropertyTables), Len(property') = Len(property),
         cached' = cached, classUnit' = classUnit
  PROVE  Shapes'
<1>1. PICK l \in Nat : l = Len(functions) /\ DOMAIN functions = 1 .. l BY ShapesKnown
<1>2. PICK n \in Nat : n = Len(added) OBVIOUS
<1>3. /\ functions' \in Seq(AFunction) /\ Len(functions') = l + n
      /\ \A f \in 1 .. l : functions'[f] = functions[f]
      /\ \A k \in 1 .. n : functions'[l + k] = added[k]
      /\ table' \in Seq(Seq(Nat)) /\ Len(table') = Len(table) /\ Types' = Types
  BY <1>1, <1>2, Adding
<1>4. DOMAIN functions' = 1 .. l + n BY <1>1, <1>2, AddedIn
<1>5. types' = types /\ Len(functions') <= MaxFunctions BY <1>1, <1>2, <1>3 DEF Adds
<1>6. \A f \in DOMAIN functions' : functions'[f].owner \in Types' /\ functions'[f].super < f
  <2> SUFFICES ASSUME NEW f \in 1 .. l + n PROVE functions'[f].owner \in Types /\ functions'[f].super < f
    BY <1>3, <1>4
  <2>1. CASE f \in 1 .. l BY <1>1, <1>3, <2>1 DEF Shapes
  <2>2. CASE f > l
    <3>1. f - l \in 1 .. n /\ l + (f - l) = f BY <2>2
    <3>2. functions'[f] = added[f - l] BY <1>3, <3>1
    <3>3. added[f - l].owner = t /\ added[f - l].super < l + (f - l) BY <1>1, <1>2, <3>1 DEF Adds
    <3> QED BY <3>1, <3>2, <3>3
  <2> QED BY <2>1, <2>2
<1> QED BY <1>3, <1>5, <1>6 DEF Shapes

LEMMA AddedCalls ==
  ASSUME Shapes, Tables, Calls, NEW t \in Types, NEW added \in Seq(AFunction), Adds(t, added),
         cached' = cached,
         \A k \in 1 .. Len(added) : added[k].name \in Methods =>
           /\ \A f \in DOMAIN functions : functions[f].owner = t => functions[f].name # added[k].name
           /\ \A j \in 1 .. Len(added) : added[j].name = added[k].name => j = k
  PROVE  Calls'
<1>1. PICK l \in Nat : l = Len(functions) /\ DOMAIN functions = 1 .. l BY ShapesKnown
<1>2. PICK n \in Nat : n = Len(added) OBVIOUS
<1>3. /\ \A f \in 1 .. l : functions'[f] = functions[f]
      /\ \A k \in 1 .. n : functions'[l + k] = added[k]
  BY <1>1, <1>2, Adding
<1>4. DOMAIN functions' = 1 .. l + n BY <1>1, <1>2, AddedIn
<1>5. \A k \in 1 .. n : added[k].owner = t BY <1>2 DEF Adds
<1>6. \A f \in 1 .. l + n :
        \/ f \in 1 .. l /\ functions'[f] = functions[f]
        \/ \E k \in 1 .. n : f = l + k /\ functions'[f] = added[k]
  <2> TAKE f \in 1 .. l + n
  <2>1. CASE f \in 1 .. l BY <1>3, <2>1
  <2>2. CASE f > l
    <3>1. f - l \in 1 .. n /\ f = l + (f - l) BY <2>2
    <3> QED BY <1>3, <3>1
  <2> QED BY <2>1, <2>2
<1>7. ASSUME NEW m \in Methods, cached'[m] # None
      PROVE  cached'[m] \in DOMAIN functions' /\ functions'[cached'[m]].name = m
  <2>1. cached[m] \in 1 .. l /\ functions[cached[m]].name = m BY <1>1, <1>7 DEF Calls
  <2> QED BY <1>3, <1>4, <2>1
<1>8. ASSUME NEW f \in DOMAIN functions', NEW g \in DOMAIN functions',
             functions'[f].owner = functions'[g].owner, functions'[f].name = functions'[g].name,
             functions'[f].name \in Methods
      PROVE  f = g
  <2>1. CASE f \in 1 .. l /\ g \in 1 .. l BY <1>1, <1>3, <1>8, <2>1 DEF Calls
  <2>2. CASE f \in 1 .. l /\ \E k \in 1 .. n : g = l + k /\ functions'[g] = added[k]
    BY <1>1, <1>2, <1>3, <1>5, <1>8, <2>2
  <2>3. CASE g \in 1 .. l /\ \E k \in 1 .. n : f = l + k /\ functions'[f] = added[k]
    BY <1>1, <1>2, <1>3, <1>5, <1>8, <2>3
  <2>4. ASSUME NEW k \in 1 .. n, NEW j \in 1 .. n, f = l + k, g = l + j,
               functions'[f] = added[k], functions'[g] = added[j]
        PROVE  f = g
    BY <1>2, <1>8, <2>4
  <2> QED BY <1>4, <1>6, <2>1, <2>2, <2>3, <2>4
<1> QED BY <1>7, <1>8 DEF Calls

LEMMA AddedFields ==
  ASSUME Shapes, Tables, Fields, NEW t \in Types, NEW added \in Seq(AFunction), Adds(t, added),
         \A k \in 1 .. Len(added), class \in ClassNames : added[k].name # Field(class)
  PROVE  Fields'
<1>1. PICK l \in Nat : l = Len(functions) /\ DOMAIN functions = 1 .. l BY ShapesKnown
<1>2. PICK n \in Nat : n = Len(added) OBVIOUS
<1>3. /\ \A f \in 1 .. l : functions'[f] = functions[f]
      /\ \A k \in 1 .. n : functions'[l + k] = added[k]
  BY <1>1, <1>2, Adding
<1>4. DOMAIN functions' = 1 .. l + n /\ types' = types BY <1>1, <1>2, AddedIn DEF Adds
<1>5. ASSUME NEW f \in 1 .. l + n, NEW class \in ClassNames, functions'[f].name = Field(class)
      PROVE  f \in 1 .. l
  <2>1. CASE f > l
    <3>1. f - l \in 1 .. n /\ l + (f - l) = f BY <2>1
    <3>2. functions'[f] = added[f - l] BY <1>3, <3>1
    <3> QED BY <1>2, <1>5, <3>1, <3>2
  <2> QED BY <2>1
<1> SUFFICES ASSUME NEW f \in 1 .. l + n, NEW class \in ClassNames, functions'[f].name = Field(class)
             PROVE  /\ class = types[functions'[f].owner].name
                    /\ \A g \in 1 .. l + n :
                         functions'[g].owner = functions'[f].owner
                         /\ functions'[g].name = functions'[f].name => g = f
  BY <1>4 DEF Fields, Field
<1>6. f \in 1 .. l /\ functions'[f] = functions[f] BY <1>3, <1>5
<1>7. class = types[functions[f].owner].name BY <1>1, <1>6 DEF Fields
<1>8. ASSUME NEW g \in 1 .. l + n, functions'[g].owner = functions'[f].owner,
             functions'[g].name = functions'[f].name
      PROVE  g = f
  <2>1. g \in 1 .. l BY <1>5, <1>8
  <2> QED BY <1>1, <1>3, <1>6, <1>8, <2>1 DEF Fields
<1> QED BY <1>6, <1>7, <1>8

LEMMA AddedSupers ==
  ASSUME Shapes, Tables, Supers, Shapes', NEW t \in Types, NEW added \in Seq(AFunction), Adds(t, added),
         \A k \in 1 .. Len(added) : added[k].super # None =>
           types[t].base # None /\ added[k].super = Lookup(types[t].base, added[k].name)
  PROVE  Supers'
<1>1. PICK l \in Nat : l = Len(functions) /\ DOMAIN functions = 1 .. l BY ShapesKnown
<1>2. PICK n \in Nat : n = Len(added) OBVIOUS
<1>3. /\ \A f \in 1 .. l : functions'[f] = functions[f]
      /\ \A k \in 1 .. n : functions'[l + k] = added[k]
  BY <1>1, <1>2, Adding
<1>8. \A u \in Types : \A m : u # t => Lookup(u, m)' = Lookup(u, m) BY AddedLookups
<1>4. DOMAIN functions' = 1 .. l + n /\ types' = types BY <1>1, <1>2, AddedIn DEF Adds
<1> SUFFICES ASSUME NEW f \in 1 .. l + n, functions'[f].super # None
             PROVE  /\ types[functions'[f].owner].base # None
                    /\ functions'[f].super = Lookup(types[functions[f].owner].base, functions[f].name)'
  BY <1>4 DEF Supers
<1> DEFINE o == functions'[f].owner
           b == types[o].base
           m == functions'[f].name
<1>5. o \in Types /\ b # None /\ functions'[f].super = Lookup(b, m)
  <2>1. CASE f \in 1 .. l BY <1>1, <1>3, <2>1 DEF Supers, Shapes
  <2>2. CASE f > l
    <3>1. f - l \in 1 .. n /\ l + (f - l) = f BY <2>2
    <3>2. functions'[f] = added[f - l] /\ added[f - l].owner = t BY <1>2, <1>3, <3>1 DEF Adds
    <3> QED BY <1>2, <3>1, <3>2
  <2> QED BY <2>1, <2>2
<1>6. b \in Types /\ b # t BY <1>5, ShapesKnown, ChainRange DEF Adds, Derived
<1>7. Lookup(types[functions[f].owner].base, functions[f].name)' = Lookup(b, m)
  <2>1. PICK c \in Types : c = b /\ c # t BY <1>6
  <2>2. PICK x : x = m OBVIOUS
  <2>3. Lookup(c, x)' = Lookup(c, x) BY <1>8, <2>1
  <2> QED BY <1>4, <2>1, <2>2, <2>3
<1> QED BY <1>5, <1>7

(* What the properties of the class that grows must be after the step.     *)
PropsOf(t) ==
  /\ DOMAIN property'[t] \subseteq Properties
  /\ \A p \in DOMAIN property'[t] :
       /\ property'[t][p].get = Lookup(t, Accessor(p, Get))'
       /\ Range(property'[t][p].set) = {Lookup(t, Accessor(p, Set))'} \ {None}
  /\ \A f \in DOMAIN functions' : InAfter(t, f) =>
       /\ functions'[f].name \notin DOMAIN property'[t]
       /\ \A p \in Properties, m \in {Get, Set} :
            functions'[f].name = Accessor(p, m) => p \in DOMAIN property'[t]

LEMMA AddedProps ==
  ASSUME Shapes, Tables, Props, Shapes', NEW t \in Types, NEW added \in Seq(AFunction), Adds(t, added),
         \A u \in Types : u # t => property'[u] = property[u],
         DOMAIN property[t] \subseteq DOMAIN property'[t], PropsOf(t)
  PROVE  Props'
<1>1. PICK l \in Nat : l = Len(functions) /\ DOMAIN functions = 1 .. l BY ShapesKnown
<1>2. PICK n \in Nat : n = Len(added) OBVIOUS
<1>3. Types' = Types /\ types' = types /\ \A f \in 1 .. l : functions'[f] = functions[f]
  BY <1>1, Adding DEF Adds
<1>4. /\ DOMAIN functions' = 1 .. l + n
      /\ \A u \in Types, f \in 1 .. l : InAfter(u, f) <=> In(u, f)
      /\ \A u \in Types, k \in 1 .. n : InAfter(u, l + k) <=> u = t
  BY <1>1, <1>2, AddedIn
<1>5. \A u \in Types : \A m : u # t => Lookup(u, m)' = Lookup(u, m) BY AddedLookups
<1>6. \A u \in Types : types[u].base # None =>
        types[u].base \in Types /\ types[u].base # t /\ DOMAIN property[types[u].base] \subseteq DOMAIN property[u]
  BY ShapesKnown, ChainRange DEF Adds, Derived, Props
<1> SUFFICES ASSUME NEW u \in Types
             PROVE  /\ types[u].base # None => DOMAIN property'[types[u].base] \subseteq DOMAIN property'[u]
                    /\ PropsOf(u)
  BY <1>3 DEF Props, PropsOf, In, InAfter
<1>7. CASE u = t BY <1>6, <1>7
<1>8. CASE u # t
  <2>1. property'[u] = property[u] BY <1>8
  <2>2. types[u].base # None => DOMAIN property'[types[u].base] \subseteq DOMAIN property'[u]
    BY <1>6, <2>1
  <2>3. \A f \in DOMAIN functions' : InAfter(u, f) => f \in 1 .. l /\ In(u, f) /\ functions'[f] = functions[f]
    <3> SUFFICES ASSUME NEW f \in 1 .. l + n, InAfter(u, f) PROVE f \in 1 .. l BY <1>3, <1>4
    <3>1. CASE f > l
      <4>1. f - l \in 1 .. n /\ l + (f - l) = f BY <3>1
      <4>2. InAfter(u, l + (f - l)) <=> u = t BY <1>4, <4>1
      <4> QED BY <1>8, <4>1, <4>2
    <3> QED BY <3>1
  <2>4. \A p \in DOMAIN property[u] :
          /\ property[u][p].get = Lookup(u, Accessor(p, Get))'
          /\ Range(property[u][p].set) = {Lookup(u, Accessor(p, Set))'} \ {None}
    BY <1>5, <1>8 DEF Props
  <2>5. \A f \in DOMAIN functions' : InAfter(u, f) =>
          /\ functions'[f].name \notin DOMAIN property[u]
          /\ \A p \in Properties, m \in {Get, Set} :
               functions'[f].name = Accessor(p, m) => p \in DOMAIN property[u]
    BY <1>1, <2>3 DEF Props
  <2>6. DOMAIN property[u] \subseteq Properties BY DEF Props
  <2> QED BY <2>1, <2>2, <2>4, <2>5, <2>6 DEF PropsOf
<1> QED BY <1>7, <1>8
-----------------------------------------------------------------------------
(* The steps.                                                              *)
(* The function of a name that a class inherits is the one of its base.    *)
LEMMA LookupAbove ==
  ASSUME Shapes, Tables, NEW t \in Types, NEW name, Lookup(t, name) # None,
         functions[Lookup(t, name)].owner # t
  PROVE  types[t].base # None /\ Lookup(types[t].base, name) = Lookup(t, name)
<1>1. PICK f \in Nat : f = Lookup(t, name) /\ IsLookup(t, name, f) BY LookupsAre DEF LookupsRight
<1>2. In(t, f) /\ functions[f].name = name /\ functions[f].owner # t BY <1>1 DEF IsLookup
<1>3. /\ types[t].base = None => Range(Chain[t]) = {t}
      /\ types[t].base # None =>
           types[t].base \in Types /\ Range(Chain[t]) = Range(Chain[types[t].base]) \cup {t}
  BY ShapesKnown, ChainRange
<1>4. types[t].base # None BY <1>2, <1>3 DEF In
<1>5. PICK b \in Types : b = types[t].base BY <1>3, <1>4
<1>6. \A g \in DOMAIN functions : In(b, g) => In(t, g) BY <1>3, <1>4, <1>5 DEF In
<1>7. In(b, f) BY <1>2, <1>3, <1>4, <1>5 DEF In
<1>8. IsLookup(b, name, f) BY <1>1, <1>6, <1>7 DEF IsLookup
<1>9. PICK g \in Nat : g = Lookup(b, name) /\ IsLookup(b, name, g) BY LookupsAre DEF LookupsRight
<1>10. f = g BY <1>8, <1>9, OneLookup
<1> QED BY <1>1, <1>4, <1>5, <1>9, <1>10

(* The first function of a name is there when the last one is.             *)
LEMMA FirstThere ==
  ASSUME Shapes, Tables, NEW t \in Types, NEW name, Lookup(t, name) # None
  PROVE  At(t, FirstOf(Places(t, name, Len(table[t])))) # None
<1>1. PICK l \in Nat : l = Len(table[t]) BY ShapesKnown
<1> DEFINE places == Places(t, name, l)
<1>2. places # {} BY <1>1 DEF Lookup, LastOf, At, None
<1>3. places \subseteq Nat /\ places \subseteq 1 .. l BY DEF Places
<1>4. Min(places) \in places BY <1>2, <1>3, Least DEF Min
<1>5. PICK i \in 1 .. l : i = Min(places) BY <1>3, <1>4
<1>6. table[t][i] \in DOMAIN functions BY <1>1, <1>5 DEF Tables, In
<1>7. table[t][i] # None BY <1>6, ShapesKnown DEF None
<1>8. At(t, FirstOf(places)) = table[t][i] BY <1>2, <1>5 DEF At, FirstOf, None
<1> QED BY <1>1, <1>7, <1>8

LEMMA FunctionDeclared ==
  ASSUME KeepsRules, IInv, NEW t \in Types, NEW name \in Names, NEW static \in BOOLEAN,
         NEW super \in BOOLEAN, DeclareFunction(t, name, static, super)
  PROVE  IInv'
<1>0. Shapes /\ Tables /\ Fields /\ Supers /\ Props /\ Calls BY DEF IInv
<1>1. PICK l \in Nat : l = Len(functions) /\ DOMAIN functions = 1 .. l BY <1>0, ShapesKnown
<1>2. PICK n \in Nat : n = Len(types) /\ Types = 1 .. n BY <1>0, ShapesKnown DEF TypesFit, Types
<1>3. ~ Derived(t)
  <2>1. CASE classUnit = None
    <3>1. "extend" \in Rules BY DEF KeepsRules
    <3>2. Rule("extend", ~ Derived(t)) BY <2>1 DEF DeclareFunction
    <3> QED BY <3>1, <3>2 DEF Rule
  <2>2. CASE classUnit = t
    <3>1. t # None /\ t = n BY <1>0, <1>2, <2>2 DEF None, Shapes
    <3>2. \A u \in Types : types[u].base < n BY <1>2, <3>1, <1>0, ShapesKnown DEF TypesFit
    <3> QED BY <3>1, <3>2, <1>2 DEF Derived
  <2> QED BY <2>1, <2>2 DEF DeclareFunction
<1>4. PICK m \in Nat : m = Len(table[t]) BY <1>0, ShapesKnown
<1>5. PICK above \in Nat : above = IF super THEN SuperOf(t, name, m + 1) ELSE None
  <2> SUFFICES ASSUME super PROVE SuperOf(t, name, m + 1) \in Nat BY DEF None
  <2>1. (m + 1) - 1 = m OBVIOUS
  <2>2. SuperOf(t, name, m + 1) = Lookup(t, name) BY <1>4, <2>1 DEF SuperOf, Lookup
  <2> QED BY <1>0, <2>2, LookupsAre DEF LookupsRight
<1>6. super => above = Lookup(t, name) /\ above # None
  <2>1. (m + 1) - 1 = m OBVIOUS
  <2> QED BY <1>4, <1>5, <2>1 DEF DeclareFunction, Place, SuperOf, Lookup
<1> DEFINE new == Function(t, name, static, m + 1, above)
           added == <<new>>
<1>7. new \in AFunction /\ Len(added) = 1 /\ added[1] = new /\ added \in Seq(AFunction)
  <2>1. new \in AFunction BY <1>2, <1>4, <1>5 DEF Function, AFunction, AllNames, Names
  <2> HIDE DEF new
  <2> QED BY <2>1
<1>8. new.owner = t /\ new.name = name /\ new.position = m + 1 /\ new.super = above BY DEF Function
<1> HIDE DEF new
<1>9. above <= l
  <2>1. CASE super
    <3>1. IsLookup(t, name, above) BY <1>0, <1>6, <2>1, LookupsAre DEF LookupsRight
    <3> QED BY <1>1, <1>6, <2>1, <3>1 DEF IsLookup, In
  <2>2. CASE ~ super BY <1>1, <1>5, <2>2 DEF None
  <2> QED BY <2>1, <2>2
<1>10. Adds(t, added)
  <2>1. PICK fs \in Seq(AFunction) : fs = functions BY <1>0 DEF Shapes
  <2>2. functions' = Append(functions, new)
    BY <1>4, <1>5 DEF DeclareFunction, Place, new
  <2>3. functions' = functions \o added BY <1>7, <2>1, <2>2, AppendIsConcat
  <2>4. PICK tb \in Seq(Nat) : tb = table[t] BY <1>0, ShapesKnown
  <2>5. [k \in 1 .. Len(added) |-> l + k] = <<l + 1>> BY <1>7
  <2>6. l + 1 \in Nat OBVIOUS
  <2>7. Append(tb, l + 1) = tb \o <<l + 1>> BY <2>4, <2>6, AppendIsConcat
  <2>8. table' = [table EXCEPT ![t] = Append(tb, l + 1)] BY <1>1, <2>4 DEF DeclareFunction
  <2>9. table' = [table EXCEPT ![t] = @ \o [k \in 1 .. Len(added) |-> Len(functions) + k]]
    BY <1>1, <2>4, <2>5, <2>7, <2>8
  <2>10. types' = types /\ l + 1 <= MaxFunctions
    BY <1>1, FunctionsAssumption DEF DeclareFunction
  <2>11. \A k \in 1 .. Len(added) :
           added[k].owner = t /\ added[k].position = Len(table[t]) + k /\ added[k].super < Len(functions) + k
    BY <1>1, <1>4, <1>7, <1>8, <1>9
  <2> QED BY <1>1, <1>3, <1>7, <2>3, <2>9, <2>10, <2>11 DEF Adds
<1>11. property' = property /\ cached' = cached /\ classUnit' = classUnit BY DEF DeclareFunction
<1>12. Shapes'
  <2>1. property' \in Seq(PropertyTables) /\ Len(property') = Len(property)
    BY <1>0, <1>11 DEF Shapes
  <2> QED BY <1>0, <1>7, <1>10, <1>11, <2>1, AddedShapes
<1>13. Tables' BY <1>0, <1>7, <1>10, AddedTables
<1>14. Calls'
  <2>1. ASSUME NEW f \in DOMAIN functions, functions[f].owner = t, functions[f].name = name
        PROVE  FALSE
    <3>1. In(t, f)
      <4>1. t \in Range(Chain[t]) BY <1>0, ShapesKnown, ChainRange
      <4> QED BY <2>1, <4>1 DEF In
    <3>2. PICK g \in Nat : g = Lookup(t, name) /\ IsLookup(t, name, g)
      BY <1>0, LookupsAre DEF LookupsRight
    <3>3. g # None /\ In(t, g) /\ t <= functions[g].owner BY <2>1, <3>1, <3>2 DEF IsLookup
    <3>4. functions[g].owner # t
      <4>1. At(t, FirstOf(Places(t, name, Len(table[t])))) # None BY <1>0, <3>2, <3>3, FirstThere
      <4>2. Declarable(t, name, static) BY DEF DeclareFunction
      <4> QED BY <3>2, <4>1, <4>2 DEF Declarable
    <3>5. t \in Nat /\ functions[g].owner \in 1 .. t BY <1>0, <3>3, ShapesKnown, ChainRange DEF In
    <3> QED BY <3>3, <3>4, <3>5
  <2>2. \A k \in 1 .. Len(added) : k = 1 /\ added[k].name = name BY <1>7, <1>8
  <2> QED BY <1>0, <1>7, <1>10, <1>11, <2>1, <2>2, AddedCalls
<1>15. /\ \A class \in ClassNames : name # Field(class)
       /\ \A p \in Properties, m_1 \in {Get, Set} : name # Accessor(p, m_1)
  BY MemberNamesAssumption
<1>16. Fields'
  <2>1. \A k \in 1 .. Len(added), class \in ClassNames : added[k].name # Field(class)
    BY <1>7, <1>8, <1>15
  <2> QED BY <1>0, <1>7, <1>10, <2>1, AddedFields
<1>17. Supers'
  <2>1. ASSUME above # None PROVE types[t].base # None /\ above = Lookup(types[t].base, name)
    <3>1. super /\ above = Lookup(t, name) BY <1>5, <1>6, <2>1 DEF None
    <3>2. functions[Lookup(t, name)].owner # t
      <4>1. At(t, FirstOf(Places(t, name, Len(table[t])))) # None BY <1>0, <2>1, <3>1, FirstThere
      <4>2. Declarable(t, name, static) BY DEF DeclareFunction
      <4> QED BY <4>1, <4>2 DEF Declarable
    <3> QED BY <1>0, <2>1, <3>1, <3>2, LookupAbove
  <2>2. \A k \in 1 .. Len(added) : added[k].super # None =>
          types[t].base # None /\ added[k].super = Lookup(types[t].base, added[k].name)
    BY <1>7, <1>8, <2>1
  <2> QED BY <1>0, <1>7, <1>10, <1>12, <2>2, AddedSupers
<1>18. Props'
  <2>1. \A p \in Properties, m_1 \in {Get, Set} : Lookup(t, Accessor(p, m_1))' = Lookup(t, Accessor(p, m_1))
    <3> TAKE p \in Properties, m_1 \in {Get, Set}
    <3>1. PICK x : x = Accessor(p, m_1) OBVIOUS
    <3>2. \A k \in 1 .. Len(added) : added[k].name # x BY <1>7, <1>8, <1>15, <3>1
    <3>3. Lookup(t, x)' = Lookup(t, x) BY <1>0, <1>7, <1>10, <1>12, <3>2, AddedLookups
    <3> QED BY <3>1, <3>3 DEF Accessor
  <2>2. \A p \in DOMAIN property'[t] :
          /\ property'[t][p].get = Lookup(t, Accessor(p, Get))'
          /\ Range(property'[t][p].set) = {Lookup(t, Accessor(p, Set))'} \ {None}
    BY <1>0, <1>11, <2>1 DEF Props
  <2>3. ASSUME NEW f \in DOMAIN functions', InAfter(t, f)
        PROVE  /\ functions'[f].name \notin DOMAIN property[t]
               /\ \A p \in Properties, m_1 \in {Get, Set} :
                    functions'[f].name = Accessor(p, m_1) => p \in DOMAIN property[t]
    <3>1. f \in 1 .. l + 1 BY <1>0, <1>1, <1>7, <1>10, AddedIn
    <3>2. CASE f \in 1 .. l
      <4>1. In(t, f) BY <1>0, <1>1, <1>7, <1>10, <2>3, <3>2, AddedIn
      <4>2. functions'[f] = functions[f] BY <1>0, <1>1, <1>7, <1>10, <3>2, Adding
      <4> QED BY <1>0, <1>1, <3>2, <4>1, <4>2 DEF Props
    <3>3. CASE f = l + 1
      <4>1. \A k \in 1 .. Len(added) : functions'[Len(functions) + k] = added[k]
        BY <1>0, <1>7, <1>10, Adding
      <4>4. functions'[l + 1] = new BY <1>1, <1>7, <4>1
      <4>2. name \notin DOMAIN property[t] BY DEF DeclareFunction
      <4> QED BY <1>8, <1>15, <3>3, <4>2, <4>4
    <3> QED BY <3>1, <3>2, <3>3
  <2>4. PropsOf(t) BY <1>0, <1>11, <2>2, <2>3 DEF PropsOf, Props
  <2> QED BY <1>0, <1>7, <1>10, <1>11, <1>12, <2>4, AddedProps
<1> QED BY <1>12, <1>13, <1>14, <1>16, <1>17, <1>18 DEF IInv

(* The class whose body is compiled is not extended yet.                   *)
LEMMA UnitIsFresh ==
  ASSUME Shapes, NEW t \in Types, classUnit = t
  PROVE  ~ Derived(t)
<1>1. PICK n \in Nat : n = Len(types) /\ Types = 1 .. n BY ShapesKnown DEF TypesFit, Types
<1>2. t # None /\ t = n BY <1>1 DEF None, Shapes
<1>3. \A u \in Types : types[u].base < n BY <1>1, <1>2, ShapesKnown DEF TypesFit
<1> QED BY <1>1, <1>2, <1>3 DEF Derived

(* The functions of a property: the getter first, the setter last.         *)
PropertyAdded(t, p, methods, added) ==
  /\ Len(added) \in {1, 2}
  /\ \A k \in 1 .. Len(added) :
       /\ added[k].super = None
       /\ \/ added[k].name = Accessor(p, Get) /\ Get \in methods /\ k = 1
          \/ added[k].name = Accessor(p, Set) /\ Set \in methods /\ k = Len(added)
  /\ Get \in methods => added[1].name = Accessor(p, Get)
  /\ Set \in methods => added[Len(added)].name = Accessor(p, Set)

WithProperty(t, p, methods, n) ==
  [property EXCEPT ![t] = [q \in DOMAIN @ \cup {p} |->
     IF q # p THEN @[q]
     ELSE [get |-> IF Get \in methods THEN Len(functions) + 1 ELSE None,
           set |-> IF Set \in methods THEN <<Len(functions) + n>> ELSE <<>>]]]

LEMMA PropertyAdds ==
  ASSUME Shapes, NEW t \in Types, NEW p \in Properties,
         NEW methods \in {{Get}, {Set}, {Get, Set}}, DeclareProperty(t, p, methods)
  PROVE  \E added \in Seq(AFunction) :
           /\ Adds(t, added) /\ PropertyAdded(t, p, methods, added)
           /\ property' = WithProperty(t, p, methods, Len(added))
<1>1. PICK l \in Nat : l = Len(functions) /\ DOMAIN functions = 1 .. l BY ShapesKnown
<1>2. PICK m \in Nat : m = Len(table[t]) BY ShapesKnown
<1>3. t \in Nat BY ShapesKnown, ChainRange
<1>4. Get # Set BY DEF Get, Set
<1>5. Cardinality(methods) = IF methods = {Get, Set} THEN 2 ELSE 1
  <2>1. IsFiniteSet({Get}) /\ Cardinality({Get}) = 1 /\ Cardinality({Set}) = 1 BY FS_Singleton
  <2>2. Cardinality({Get} \cup {Set}) = 2
    <3>1. PICK S : S = {Get} /\ IsFiniteSet(S) /\ Cardinality(S) = 1 /\ Set \notin S BY <1>4, <2>1
    <3>2. Cardinality(S \cup {Set}) = 1 + 1 BY <3>1, FS_AddElement
    <3> QED BY <3>1, <3>2
  <2>3. {Get} \cup {Set} = {Get, Set} OBVIOUS
  <2>4. {Get} # {Get, Set} /\ {Set} # {Get, Set} BY <1>4
  <2> QED BY <2>1, <2>2, <2>3, <2>4
<1> DEFINE new(k, a) == Function(t, Accessor(p, a), FALSE, m + k, None)
<1>6. \A k \in {1, 2}, a \in {Get, Set} :
        /\ new(k, a) \in AFunction /\ new(k, a).owner = t /\ new(k, a).name = Accessor(p, a)
        /\ new(k, a).position = m + k /\ new(k, a).super = None
  <2> TAKE k \in {1, 2}, a \in {Get, Set}
  <2>1. m + k \in Nat OBVIOUS
  <2>2. Accessor(p, a) \in AllNames BY DEF AllNames
  <2> QED BY <1>3, <2>1, <2>2 DEF Function, AFunction, None
<1> HIDE DEF new
<1>7. Place(t) - 1 = m BY <1>2 DEF Place
<1> DEFINE added == (IF Get \in methods THEN <<new(1, Get)>> ELSE <<>>)
                    \o (IF Set \in methods THEN <<new(Cardinality(methods), Set)>> ELSE <<>>)
<1>8. added = CASE methods = {Get} -> <<new(1, Get)>>
                [] methods = {Set} -> <<new(1, Set)>>
                [] methods = {Get, Set} -> <<new(1, Get)>> \o <<new(2, Set)>>
  <2>1. \A x : <<>> \o <<x>> = <<x>> /\ <<x>> \o <<>> = <<x>> OBVIOUS
  <2>3. CASE methods = {Get}
    <3>1. Get \in methods /\ Set \notin methods /\ methods # {Set} /\ methods # {Get, Set} BY <1>4, <2>3
    <3> QED BY <2>1, <2>3, <3>1
  <2>4. CASE methods = {Set}
    <3>1. Set \in methods /\ Get \notin methods /\ methods # {Get} /\ methods # {Get, Set} BY <1>4, <2>4
    <3> QED BY <1>5, <2>1, <2>4, <3>1
  <2>5. CASE methods = {Get, Set}
    <3>1. Set \in methods /\ Get \in methods /\ methods # {Get} /\ methods # {Set} BY <1>4, <2>5
    <3> QED BY <1>5, <2>5, <3>1
  <2> QED BY <2>3, <2>4, <2>5
<1>9. added \in Seq(AFunction) /\ PropertyAdded(t, p, methods, added)
      /\ \A k \in 1 .. Len(added) : added[k].owner = t /\ added[k].position = m + k
  <2>1. CASE methods = {Get}
    <3>1. added = <<new(1, Get)>> BY <1>4, <1>8, <2>1
    <3> HIDE DEF added
    <3>2. Len(added) = 1 /\ added[1] = new(1, Get) /\ added \in Seq(AFunction) BY <1>6, <3>1
    <3>3. Get \in methods /\ Set \notin methods BY <1>4, <2>1
    <3> QED BY <1>6, <3>2, <3>3 DEF PropertyAdded
  <2>2. CASE methods = {Set}
    <3>1. added = <<new(1, Set)>> BY <1>4, <1>8, <2>2
    <3> HIDE DEF added
    <3>2. Len(added) = 1 /\ added[1] = new(1, Set) /\ added \in Seq(AFunction) BY <1>6, <3>1
    <3>3. Set \in methods /\ Get \notin methods BY <1>4, <2>2
    <3> QED BY <1>6, <3>2, <3>3 DEF PropertyAdded
  <2>3. CASE methods = {Get, Set}
    <3>1. added = <<new(1, Get)>> \o <<new(2, Set)>> BY <1>4, <1>8, <2>3
    <3> HIDE DEF added
    <3>2. Len(added) = 2 /\ added[1] = new(1, Get) /\ added[2] = new(2, Set) /\ added \in Seq(AFunction)
      <4>1. PICK g \in Seq(AFunction) : g = <<new(1, Get)>> /\ Len(g) = 1 /\ g[1] = new(1, Get)
        <5>1. PICK x \in AFunction : x = new(1, Get) BY <1>6
        <5>2. <<x>> \in Seq(AFunction) /\ Len(<<x>>) = 1 /\ <<x>>[1] = x OBVIOUS
        <5> QED BY <5>1, <5>2
      <4>2. PICK s \in Seq(AFunction) : s = <<new(2, Set)>> /\ Len(s) = 1 /\ s[1] = new(2, Set)
        <5>1. PICK x \in AFunction : x = new(2, Set) BY <1>6
        <5>2. <<x>> \in Seq(AFunction) /\ Len(<<x>>) = 1 /\ <<x>>[1] = x OBVIOUS
        <5> QED BY <5>1, <5>2
      <4>3. /\ g \o s \in Seq(AFunction) /\ Len(g \o s) = Len(g) + Len(s)
            /\ \A i \in 1 .. Len(g) : (g \o s)[i] = g[i]
            /\ \A i \in 1 .. Len(s) : (g \o s)[Len(g) + i] = s[i]
        BY Joined
      <4>4. added = g \o s BY <3>1, <4>1, <4>2
      <4>5. added[1 + 1] = s[1] /\ added[1] = g[1] /\ Len(added) = 1 + 1 BY <4>1, <4>2, <4>3, <4>4
      <4> QED BY <4>1, <4>2, <4>3, <4>4, <4>5
    <3>3. Set \in methods /\ Get \in methods BY <2>3
    <3> QED BY <1>6, <3>2, <3>3 DEF PropertyAdded
  <2> QED BY <2>1, <2>2, <2>3
<1>10. /\ l + Len(added) <= MaxFunctions
       /\ functions' = functions \o added
       /\ table' = [table EXCEPT ![t] = @ \o [k \in 1 .. Len(added) |-> l + k]]
       /\ property' = WithProperty(t, p, methods, Len(added))
       /\ types' = types
  BY <1>1, <1>7 DEF DeclareProperty, new, WithProperty
<1> HIDE DEF added
<1>11. Adds(t, added)
  <2>1. ~ Derived(t) BY UnitIsFresh DEF DeclareProperty
  <2>2. \A k \in 1 .. Len(added) : added[k].super < l + k
    <3>1. Len(added) \in Nat BY <1>9
    <3> QED BY <1>9, <3>1 DEF PropertyAdded, None
  <2> QED BY <1>1, <1>2, <1>9, <1>10, <2>1, <2>2 DEF Adds
<1> QED BY <1>1, <1>9, <1>10, <1>11

LEMMA PropertyDeclared ==
  ASSUME IInv, NEW t \in Types, NEW p \in Properties,
         NEW methods \in {{Get}, {Set}, {Get, Set}}, DeclareProperty(t, p, methods)
  PROVE  IInv'
<1>0. Shapes /\ Tables /\ Fields /\ Supers /\ Props /\ Calls BY DEF IInv
<1>1. PICK l \in Nat : l = Len(functions) /\ DOMAIN functions = 1 .. l BY <1>0, ShapesKnown
<1>2. PICK added \in Seq(AFunction) :
        /\ Adds(t, added) /\ PropertyAdded(t, p, methods, added)
        /\ property' = WithProperty(t, p, methods, Len(added))
  BY <1>0, PropertyAdds
<1>3. PICK n \in {1, 2} : n = Len(added) BY <1>2 DEF PropertyAdded
<1>4. classUnit = t /\ cached' = cached /\ classUnit' = classUnit /\ PropertyFree(t, p)
  BY DEF DeclareProperty
<1>5. ~ Derived(t) BY <1>0, <1>4, UnitIsFresh
<1>6. /\ Get # Set
      /\ \A q \in Properties, a, b \in {Get, Set} : Accessor(p, a) = Accessor(q, b) <=> q = p /\ a = b
      /\ \A q, r \in Properties, a \in {Get, Set} : Accessor(r, a) # q
      /\ \A q \in Properties, a \in {Get, Set}, class \in ClassNames : Accessor(q, a) # Field(class)
  <2>1. Get # Set /\ Get # "@__field_initializer" /\ Set # "@__field_initializer" BY DEF Get, Set
  <2>2. \A q, r \in Properties, a \in {Get, Set} : Accessor(r, a) # q BY MemberNamesAssumption
  <2>3. \A q \in Properties, a \in {Get, Set}, class \in ClassNames : Accessor(q, a) # Field(class)
    BY <2>1 DEF Accessor, Field
  <2>4. \A q \in Properties, a, b \in {Get, Set} : Accessor(p, a) = Accessor(q, b) <=> q = p /\ a = b
    BY DEF Accessor
  <2> QED BY <2>1, <2>2, <2>3, <2>4
<1>7. PICK props \in PropertyTables : props = property[t] /\ DOMAIN props \subseteq Properties
  <2>1. t \in 1 .. Len(property) BY <1>0 DEF Shapes, Types
  <2>2. property[t] \in PropertyTables BY <1>0, <2>1, ElementOfSeq DEF Shapes
  <2> QED BY <2>2 DEF PropertyTables
<1> DEFINE entry == [get |-> IF Get \in methods THEN l + 1 ELSE None,
                     set |-> IF Set \in methods THEN <<l + n>> ELSE <<>>]
<1>8. PICK new \in PropertyTables :
        /\ new = [q \in DOMAIN props \cup {p} |-> IF q # p THEN props[q] ELSE entry]
        /\ DOMAIN new = DOMAIN props \cup {p}
        /\ \A q \in DOMAIN props : q # p => new[q] = props[q]
        /\ new[p] = entry
  <2>1. entry \in AProperty
    <3>1. l + 1 \in Nat /\ l + n \in Nat /\ None \in Nat BY <1>3 DEF None
    <3>2. (IF Set \in methods THEN <<l + n>> ELSE <<>>) \in Seq(Nat) BY <3>1
    <3>3. (IF Get \in methods THEN l + 1 ELSE None) \in Nat BY <3>1
    <3> QED BY <3>2, <3>3 DEF AProperty
  <2> HIDE DEF entry
  <2>2. \A q \in DOMAIN props : props[q] \in AProperty BY <1>7 DEF PropertyTables
  <2>3. [q \in DOMAIN props \cup {p} |-> IF q # p THEN props[q] ELSE entry]
          \in [DOMAIN props \cup {p} -> AProperty]
    BY <2>1, <2>2
  <2>4. DOMAIN props \cup {p} \in SUBSET Properties BY <1>7
  <2>5. [q \in DOMAIN props \cup {p} |-> IF q # p THEN props[q] ELSE entry] \in PropertyTables
    BY <2>3, <2>4 DEF PropertyTables
  <2> QED BY <2>5
<1>9. /\ property' \in Seq(PropertyTables) /\ Len(property') = Len(property)
      /\ \A u \in Types : u # t => property'[u] = property[u]
      /\ property'[t] = new
  <2>1. property' = [property EXCEPT ![t] = new] BY <1>1, <1>2, <1>3, <1>7, <1>8 DEF WithProperty
  <2> HIDE DEF entry
  <2> QED BY <1>0, <2>1 DEF Shapes, Types
<1>10. /\ Lookup(t, Accessor(p, Get)) = None /\ Lookup(t, Accessor(p, Set)) = None
  <2>1. ASSUME NEW a \in {Get, Set}, Lookup(t, Accessor(p, a)) # None PROVE FALSE
    <3>1. PICK f \in Nat : f = Lookup(t, Accessor(p, a)) /\ IsLookup(t, Accessor(p, a), f)
      BY <1>0, LookupsAre DEF LookupsRight
    <3>2. f \in DOMAIN functions /\ In(t, f) /\ functions[f].name = Accessor(p, a)
      BY <2>1, <3>1 DEF IsLookup, In
    <3>3. p \in DOMAIN property[t] BY <1>0, <3>2 DEF Props
    <3> QED BY <1>4, <3>3 DEF PropertyFree
  <2> QED BY <2>1
<1>11. Shapes' BY <1>0, <1>2, <1>4, <1>9, AddedShapes
<1>12. Tables' BY <1>0, <1>2, AddedTables
<1>13. Calls'
  <2>1. \A k \in 1 .. Len(added) : added[k].name \notin Methods
    BY <1>2, MemberNamesAssumption DEF PropertyAdded, Names
  <2> QED BY <1>0, <1>2, <1>4, <2>1, AddedCalls
<1>14. \A k \in 1 .. n : \E a \in methods : a \in {Get, Set} /\ added[k].name = Accessor(p, a)
  BY <1>2, <1>3 DEF PropertyAdded
<1>15. Fields'
  <2>1. \A k \in 1 .. Len(added), class \in ClassNames : added[k].name # Field(class)
    BY <1>3, <1>6, <1>14
  <2> QED BY <1>0, <1>2, <2>1, AddedFields
<1>16. Supers'
  <2>1. \A k \in 1 .. Len(added) : added[k].super # None =>
          types[t].base # None /\ added[k].super = Lookup(types[t].base, added[k].name)
    BY <1>2 DEF PropertyAdded
  <2> QED BY <1>0, <1>2, <1>11, <2>1, AddedSupers
<1>17. /\ \A u \in Types : \A name :
            u # t \/ (\A k \in 1 .. n : added[k].name # name) => Lookup(u, name)' = Lookup(u, name)
       /\ \A k \in 1 .. n :
            (\A j \in 1 .. n : added[j].name = added[k].name => j = k) =>
              Lookup(t, added[k].name)' = l + k
  BY <1>0, <1>1, <1>2, <1>3, <1>11, AddedLookups
<1>18. ASSUME NEW q \in Properties, NEW a \in {Get, Set}, q # p \/ a \notin methods
       PROVE  Lookup(t, Accessor(q, a))' = Lookup(t, Accessor(q, a))
  <2>1. PICK x : x = Accessor(q, a) OBVIOUS
  <2>2. \A k \in 1 .. n : added[k].name # x BY <1>6, <1>14, <1>18, <2>1
  <2>3. Lookup(t, x)' = Lookup(t, x) BY <1>17, <2>2
  <2> QED BY <2>1, <2>3 DEF Accessor
<1>19. ASSUME Get \in methods PROVE Lookup(t, Accessor(p, Get))' = l + 1
  <2>1. added[1].name = Accessor(p, Get) /\ 1 \in 1 .. n BY <1>2, <1>3, <1>19 DEF PropertyAdded
  <2>2. \A j \in 1 .. n : added[j].name = Accessor(p, Get) => j = 1
    BY <1>2, <1>3, <1>6 DEF PropertyAdded
  <2>3. Lookup(t, added[1].name)' = l + 1 BY <1>17, <2>1, <2>2
  <2>4. PICK x : x = added[1].name OBVIOUS
  <2> QED BY <2>1, <2>3, <2>4 DEF Accessor, Get
<1>20. ASSUME Set \in methods PROVE Lookup(t, Accessor(p, Set))' = l + n
  <2>1. added[n].name = Accessor(p, Set) /\ n \in 1 .. n BY <1>2, <1>3, <1>20 DEF PropertyAdded
  <2>2. \A j \in 1 .. n : added[j].name = Accessor(p, Set) => j = n
    BY <1>2, <1>3, <1>6 DEF PropertyAdded
  <2>3. Lookup(t, added[n].name)' = l + n BY <1>17, <2>1, <2>2
  <2> QED BY <2>1, <2>3 DEF Accessor, Set
<1>21. \A f \in Nat : Range(<<f>>) = {f} /\ Range(<<>>) = {} BY DEF Range
<1>22. \A q \in DOMAIN property'[t] :
         /\ property'[t][q].get = Lookup(t, Accessor(q, Get))'
         /\ Range(property'[t][q].set) = {Lookup(t, Accessor(q, Set))'} \ {None}
  <2> TAKE q \in DOMAIN property'[t]
  <2>1. CASE q # p
    <3>1. q \in DOMAIN property[t] /\ property'[t][q] = property[t][q] BY <1>7, <1>8, <1>9, <2>1
    <3>2. q \in Properties BY <1>7, <3>1
    <3>3. /\ Lookup(t, Accessor(q, Get))' = Lookup(t, Accessor(q, Get))
          /\ Lookup(t, Accessor(q, Set))' = Lookup(t, Accessor(q, Set))
      BY <1>18, <2>1, <3>2
    <3>4. /\ property[t][q].get = Lookup(t, Accessor(q, Get))
          /\ Range(property[t][q].set) = {Lookup(t, Accessor(q, Set))} \ {None}
      BY <1>0, <3>1 DEF Props
    <3> QED BY <3>1, <3>3, <3>4
  <2>2. CASE q = p
    <3>1. property'[t][q] = entry BY <1>8, <1>9, <2>2
    <3> HIDE DEF entry
    <3>2. entry.get = (IF Get \in methods THEN l + 1 ELSE None)
          /\ entry.set = (IF Set \in methods THEN <<l + n>> ELSE <<>>)
      BY DEF entry
    <3>3. entry.get = Lookup(t, Accessor(p, Get))' BY <1>10, <1>18, <1>19, <3>2
    <3>4. Range(entry.set) = {Lookup(t, Accessor(p, Set))'} \ {None}
      <4>1. CASE Set \in methods
        <5>1. l + n \in Nat /\ l + n # None BY <1>3 DEF None
        <5> QED BY <1>20, <1>21, <3>2, <4>1, <5>1
      <4>2. CASE Set \notin methods BY <1>10, <1>18, <1>21, <3>2, <4>2
      <4> QED BY <4>1, <4>2
    <3>5. Lookup(t, Accessor(q, Get))' = Lookup(t, Accessor(p, Get))'
          /\ Lookup(t, Accessor(q, Set))' = Lookup(t, Accessor(p, Set))'
      BY <2>2 DEF Accessor
    <3> QED BY <3>1, <3>3, <3>4, <3>5
  <2> QED BY <2>1, <2>2
<1>23. ASSUME NEW f \in DOMAIN functions', InAfter(t, f)
       PROVE  /\ functions'[f].name \notin DOMAIN property'[t]
              /\ \A q \in Properties, a \in {Get, Set} :
                   functions'[f].name = Accessor(q, a) => q \in DOMAIN property'[t]
  <2>1. f \in 1 .. l + n BY <1>0, <1>1, <1>2, <1>3, AddedIn
  <2>2. DOMAIN property'[t] = DOMAIN property[t] \cup {p} BY <1>7, <1>8, <1>9
  <2>3. CASE f \in 1 .. l
    <3>1. In(t, f) BY <1>0, <1>1, <1>2, <1>23, <2>3, AddedIn
    <3>2. functions'[f] = functions[f] BY <1>0, <1>1, <1>2, <2>3, Adding
    <3>3. functions[f].name # p
      <4>1. IsLookup(t, p, None)
        <5>1. Lookup(t, p) = None BY <1>4 DEF PropertyFree
        <5>2. IsLookup(t, p, Lookup(t, p)) BY <1>0, LookupsAre DEF LookupsRight
        <5> QED BY <5>1, <5>2
      <4> QED BY <1>1, <2>3, <3>1, <4>1 DEF IsLookup
    <3> QED BY <1>0, <1>1, <2>2, <2>3, <3>1, <3>2, <3>3 DEF Props
  <2>4. CASE f > l
    <3>1. f - l \in 1 .. n /\ l + (f - l) = f BY <2>1, <2>4
    <3>2. \A k \in 1 .. n : functions'[l + k] = added[k] BY <1>0, <1>1, <1>2, <1>3, Adding
    <3>3. functions'[f] = added[f - l] BY <3>1, <3>2
    <3>4. PICK a \in methods : a \in {Get, Set} /\ functions'[f].name = Accessor(p, a)
      BY <1>14, <3>1, <3>3
    <3> QED BY <1>6, <1>7, <2>2, <3>4
  <2> QED BY <2>1, <2>3, <2>4
<1>24. DOMAIN property[t] \subseteq DOMAIN property'[t] /\ DOMAIN property'[t] \subseteq Properties
  BY <1>7, <1>8, <1>9
<1>25. PropsOf(t) BY <1>22, <1>23, <1>24 DEF PropsOf
<1>26. Props' BY <1>0, <1>2, <1>9, <1>11, <1>24, <1>25, AddedProps
<1> QED BY <1>11, <1>12, <1>13, <1>15, <1>16, <1>26 DEF IInv

(* Registering a class whose name is new.                                  *)
LEMMA ClassRegistered ==
  ASSUME IInv, NEW name \in ClassNames, NEW base, NEW inherited, NEW own,
         NewClass(name, base, inherited, own), \A u \in Types : types[u].name # name,
         cached' = cached, classUnit' \in {None, Len(types) + 1},
         Len(functions) + Len(own) <= MaxFunctions,
         property' = Append(property, IF base = None THEN [p \in {} |-> None] ELSE Copied(base)),
         own # <<>> => own[1].name = Field(name) /\ own[1].super = None
  PROVE  IInv'
<1>0. Shapes /\ Tables /\ Fields /\ Supers /\ Props /\ Calls BY DEF IInv
<1>1. PICK n \in Nat : n = Len(types) /\ Types = 1 .. n
  BY <1>0, ShapesKnown DEF TypesFit, Types
<1>2. PICK l \in Nat : l = Len(functions) /\ DOMAIN functions = 1 .. l BY <1>0, ShapesKnown
<1>3. PICK o \in {0, 1} : o = Len(own) /\ (own = <<>> <=> o = 0)
  <2>1. own = <<>> \/ \E own_1 : own = <<own_1>> BY DEF NewClass
  <2>2. own = <<>> => Len(own) = 0 OBVIOUS
  <2>3. (\E own_1 : own = <<own_1>>) => Len(own) = 1 OBVIOUS
  <2> QED BY <2>1, <2>2, <2>3
<1>4. /\ types' \in Seq(AType) /\ Len(types') = n + 1
      /\ \A t \in 1 .. n : t \in Types' /\ types'[t] = types[t] /\ Chain'[t] = Chain[t]
      /\ types'[n + 1].name = name /\ types'[n + 1].base = base
      /\ functions' \in Seq(AFunction) /\ DOMAIN functions' = 1 .. l + o
      /\ Len(functions') = l + o
      /\ \A f \in 1 .. l : functions'[f] = functions[f]
      /\ own # <<>> => functions'[l + 1] = own[1]
      /\ table' \in Seq(Seq(Nat)) /\ Len(table') = n + 1
      /\ \A t \in 1 .. n : table'[t] = table[t]
      /\ TypesFit'
  BY <1>0, <1>1, <1>2, <1>3, Registering
<1>5. /\ Types' = 1 .. n \cup {n + 1}
      /\ \A u \in 1 .. n : \A f \in DOMAIN functions' : InAfter(u, f) <=> f \in 1 .. l /\ In(u, f)
      /\ \A f \in DOMAIN functions' : InAfter(n + 1, f) <=> (f \in 1 .. l => base # None /\ In(base, f))
      /\ \A f \in DOMAIN functions' : f \notin 1 .. l => f = l + 1 /\ own # <<>> /\ functions'[f] = own[1]
  BY <1>0, <1>1, <1>2, RegisteredIn
<1>6. /\ base = None \/ base \in 1 .. n
      /\ own # <<>> => own[1].owner = n + 1 /\ own[1].name = Field(name) /\ own[1].super = None
  BY <1>1 DEF NewClass
<1>7. \A f \in 1 .. l : functions[f].owner \in 1 .. n /\ functions[f].super < f /\ functions[f].super \in Nat
  BY <1>0, <1>1, <1>2, ShapesKnown DEF Shapes, AFunction
<1>8. \A u \in 1 .. n : property[u] \in PropertyTables /\ DOMAIN property[u] \subseteq Properties
  <2> TAKE u \in 1 .. n
  <2>1. u \in 1 .. Len(property) BY <1>0, <1>1 DEF Shapes
  <2>2. property[u] \in PropertyTables BY <1>0, <2>1, ElementOfSeq DEF Shapes
  <2> QED BY <2>2 DEF PropertyTables
<1>9. PICK new \in PropertyTables :
        /\ new = IF base = None THEN [p \in {} |-> None] ELSE Copied(base)
        /\ base = None => DOMAIN new = {}
        /\ base # None => new = property[base]
  <2>1. CASE base = None
    <3>1. [p \in {} |-> None] \in [{} -> AProperty] OBVIOUS
    <3>2. [p \in {} |-> None] \in PropertyTables BY <3>1 DEF PropertyTables
    <3> QED BY <2>1, <3>2
  <2>2. CASE base # None
    <3>1. PICK P \in SUBSET Properties : property[base] \in [P -> AProperty]
      BY <1>6, <1>8, <2>2 DEF PropertyTables
    <3>2. Copied(base) = property[base] BY <3>1 DEF Copied
    <3> QED BY <1>6, <1>8, <2>2, <3>2
  <2> QED BY <2>1, <2>2
<1>10. /\ property' \in Seq(PropertyTables) /\ Len(property') = n + 1
       /\ \A u \in 1 .. n : property'[u] = property[u]
       /\ property'[n + 1] = new
  <2>1. PICK ps \in Seq(PropertyTables) : ps = property /\ Len(ps) = n BY <1>0, <1>1 DEF Shapes
  <2>2. property' = Append(ps, new) BY <1>9, <2>1
  <2> QED BY <2>1, <2>2, AppendProperties
<1>11. \A m \in Methods :
         cached[m] # None => cached[m] \in 1 .. l /\ functions[cached[m]].name = m
  BY <1>0, <1>2 DEF Calls
<1>12. Shapes'
  <2>1. \A t \in Types' : types'[t].base < t BY <1>4 DEF TypesFit
  <2>2. \A t, u \in Types' : types'[t].name = types'[u].name => t = u
    <3>1. \A t, u \in 1 .. n : types[t].name = types[u].name => t = u BY <1>0, <1>1 DEF Shapes
    <3>2. \A u \in 1 .. n : types[u].name # name BY <1>1
    <3>3. \A t \in Types' : (t \in 1 .. n /\ types'[t] = types[t]) \/ (t = n + 1 /\ types'[t].name = name)
      BY <1>4, <1>5
    <3> QED BY <3>1, <3>2, <3>3
  <2>3. \A f \in DOMAIN functions' : functions'[f].owner \in Types' /\ functions'[f].super < f
    <3> TAKE f \in DOMAIN functions'
    <3>1. CASE f \in 1 .. l BY <1>4, <1>5, <1>7, <3>1
    <3>2. CASE f \notin 1 .. l
      <4>1. f = l + 1 /\ functions'[f].owner = n + 1 /\ functions'[f].super = 0
        BY <1>5, <1>6, <3>2 DEF None
      <4> QED BY <1>5, <4>1
    <3> QED BY <3>1, <3>2
  <2>4. classUnit' # None => classUnit' \in Types' /\ classUnit' = Len(types')
    BY <1>1, <1>4, <1>5
  <2>5. cached' \in [Methods -> Nat] BY <1>0 DEF Shapes
  <2>6. classUnit' \in Nat BY <1>1 DEF None
  <2>7. Len(functions') <= MaxFunctions BY <1>2, <1>3, <1>4
  <2> QED BY <1>4, <1>10, <2>1, <2>2, <2>3, <2>4, <2>5, <2>6, <2>7 DEF Shapes
<1>13. Tables' BY <1>0, RegisteredTables
<1>14. /\ \A u \in 1 .. n : \A m : Lookup(u, m)' = Lookup(u, m)
       /\ \A m : m # Field(name) => Lookup(n + 1, m)' = IF base = None THEN None ELSE Lookup(base, m)
  <2>1. /\ \A u \in Types : \A m : Lookup(u, m)' = Lookup(u, m)
        /\ \A t \in {Len(types) + 1} : \A m : (own # <<>> => own[1].name # m) =>
             Lookup(t, m)' = IF base = None THEN None ELSE Lookup(base, m)
    BY <1>0, <1>12, RegisteredLookups
  <2> QED BY <1>1, <1>6, <2>1
<1>15. Calls'
  <2>1. ASSUME NEW m \in Methods, cached'[m] # None
        PROVE  cached'[m] \in DOMAIN functions' /\ functions'[cached'[m]].name = m
    <3>1. PICK f \in 1 .. l : f = cached[m] /\ f = cached'[m] /\ functions[f].name = m BY <1>11, <2>1
    <3>2. f \in 1 .. l + o /\ functions'[f] = functions[f] BY <1>4, <3>1
    <3> QED BY <1>4, <3>1, <3>2
  <2>2. ASSUME NEW f \in DOMAIN functions', functions'[f].name \in Methods PROVE f \in 1 .. l
    BY <1>5, <1>6, <2>2, MemberNamesAssumption DEF Names
  <2>3. ASSUME NEW f \in DOMAIN functions', NEW g \in DOMAIN functions',
               functions'[f].owner = functions'[g].owner, functions'[f].name = functions'[g].name,
               functions'[f].name \in Methods
        PROVE  f = g
    <3>1. f \in 1 .. l /\ g \in 1 .. l BY <2>2, <2>3
    <3> QED BY <1>0, <1>2, <1>4, <2>3, <3>1 DEF Calls
  <2> QED BY <2>1, <2>3 DEF Calls
<1>16. \A class \in ClassNames : Field(class) = Field(name) => class = name BY DEF Field
<1>17. Fields'
  <2> SUFFICES ASSUME NEW f \in DOMAIN functions', NEW class \in ClassNames, functions'[f].name = Field(class)
               PROVE  /\ class = types'[functions'[f].owner].name
                      /\ \A g \in DOMAIN functions' :
                           functions'[g].owner = functions'[f].owner
                           /\ functions'[g].name = functions'[f].name => g = f
    BY DEF Fields, Field
  <2>1. CASE f \in 1 .. l
    <3>1. /\ class = types[functions[f].owner].name
          /\ \A g \in 1 .. l : functions[g].owner = functions[f].owner
                               /\ functions[g].name = functions[f].name => g = f
      <4>1. f \in DOMAIN functions /\ functions[f].name = Field(class) BY <1>2, <1>4, <2>1
      <4>2. Fields BY <1>0
      <4> QED BY <1>2, <4>1, <4>2 DEF Fields
    <3>2. \A g \in DOMAIN functions' : g \notin 1 .. l => functions'[g].owner = n + 1
      BY <1>5, <1>6
    <3>3. functions[f].owner \in 1 .. n /\ functions[f].owner # n + 1 BY <1>7, <2>1
    <3>4. \A g \in DOMAIN functions' :
            functions'[g].owner = functions[f].owner => g \in 1 .. l /\ functions'[g] = functions[g]
      BY <1>4, <3>2, <3>3
    <3>5. functions'[f] = functions[f] BY <1>4, <2>1
    <3>6. types'[functions[f].owner] = types[functions[f].owner] BY <1>4, <3>3
    <3> QED BY <3>1, <3>4, <3>5, <3>6
  <2>2. CASE f \notin 1 .. l
    <3>1. f = l + 1 /\ functions'[f].owner = n + 1 /\ functions'[f].name = Field(name)
      BY <1>5, <1>6, <2>2
    <3>2. \A g \in 1 .. l : functions'[g].owner # n + 1
      <4> TAKE g \in 1 .. l
      <4>1. functions'[g] = functions[g] /\ functions[g].owner \in 1 .. n BY <1>4, <1>7
      <4>2. n + 1 \notin 1 .. n OBVIOUS
      <4> QED BY <4>1, <4>2
    <3>3. \A g \in DOMAIN functions' : functions'[g].owner = n + 1 => g = f BY <1>5, <3>1, <3>2
    <3>4. class = name BY <1>16, <2>2, <3>1
    <3> QED BY <1>4, <3>1, <3>3, <3>4
  <2> QED BY <2>1, <2>2
<1>18. Supers'
  <2> SUFFICES ASSUME NEW f \in DOMAIN functions', functions'[f].super # None
               PROVE  /\ types'[functions'[f].owner].base # None
                      /\ functions'[f].super = Lookup(types[functions[f].owner].base, functions[f].name)'
    BY DEF Supers
  <2>1. f \in 1 .. l BY <1>5, <1>6
  <2>2. functions'[f] = functions[f] BY <1>4, <2>1
  <2>3. PICK u \in 1 .. n : u = functions[f].owner /\ types'[u] = types[u] BY <1>4, <1>7, <2>1
  <2>4. types[u].base # None /\ functions[f].super = Lookup(types[u].base, functions[f].name)
    BY <1>0, <1>2, <2>1, <2>2, <2>3 DEF Supers
  <2>5. PICK b \in 1 .. n : b = types[u].base BY <1>0, <1>1, <2>3, <2>4, ShapesKnown, ChainRange
  <2>6. PICK m : m = functions[f].name OBVIOUS
  <2>7. Lookup(b, m)' = Lookup(b, m) BY <1>14, <2>5
  <2>8. Lookup(types[functions[f].owner].base, functions[f].name)' = Lookup(b, m)
    BY <2>2, <2>3, <2>5, <2>6, <2>7
  <2> QED BY <2>2, <2>3, <2>4, <2>5, <2>6, <2>8
<1>19. \A u \in 1 .. n : PropsOf(u)
  <2> TAKE u \in 1 .. n
  <2>1. \A f \in DOMAIN functions' : InAfter(u, f) =>
          f \in 1 .. l /\ In(u, f) /\ functions'[f] = functions[f]
    BY <1>4, <1>5
  <2>2. property'[u] = property[u] BY <1>10
  <2>3. \A p \in DOMAIN property[u] :
          /\ property[u][p].get = Lookup(u, Accessor(p, Get))'
          /\ Range(property[u][p].set) = {Lookup(u, Accessor(p, Set))'} \ {None}
    <3> TAKE p \in DOMAIN property[u]
    <3>1. PICK g : g = Accessor(p, Get) OBVIOUS
    <3>2. PICK s : s = Accessor(p, Set) OBVIOUS
    <3>3. Lookup(u, g)' = Lookup(u, g) /\ Lookup(u, s)' = Lookup(u, s) BY <1>14
    <3>4. Lookup(u, Accessor(p, Get))' = Lookup(u, g) /\ Lookup(u, Accessor(p, Set))' = Lookup(u, s)
      BY <3>1, <3>2, <3>3 DEF Accessor
    <3>5. property[u][p].get = Lookup(u, g) /\ Range(property[u][p].set) = {Lookup(u, s)} \ {None}
      BY <1>0, <1>1, <3>1, <3>2 DEF Props
    <3> QED BY <3>4, <3>5
  <2>4. \A f \in DOMAIN functions' : InAfter(u, f) =>
          /\ functions'[f].name \notin DOMAIN property[u]
          /\ \A p \in Properties, m \in {Get, Set} :
               functions'[f].name = Accessor(p, m) => p \in DOMAIN property[u]
    BY <1>0, <1>1, <1>2, <2>1 DEF Props
  <2> QED BY <1>8, <2>2, <2>3, <2>4 DEF PropsOf
<1>20. /\ \A p \in Properties, m \in {Get, Set} : Accessor(p, m) # Field(name)
       /\ \A p \in Properties : Field(name) # p
  <2>1. Get # "@__field_initializer" /\ Set # "@__field_initializer" BY DEF Get, Set
  <2> QED BY <2>1, MemberNamesAssumption DEF Accessor, Field
<1>21. DOMAIN new \subseteq Properties BY DEF PropertyTables
<1>22. PropsOf(n + 1)
  <2>1. \A p \in DOMAIN new :
          /\ new[p].get = Lookup(n + 1, Accessor(p, Get))'
          /\ Range(new[p].set) = {Lookup(n + 1, Accessor(p, Set))'} \ {None}
    <3> TAKE p \in DOMAIN new
    <3>1. base \in 1 .. n /\ new = property[base] BY <1>6, <1>9
    <3>2. p \in Properties BY <1>21
    <3>3. \A m \in {Get, Set} : Lookup(n + 1, Accessor(p, m))' = Lookup(base, Accessor(p, m))
      <4> TAKE m \in {Get, Set}
      <4>1. PICK x : x = Accessor(p, m) /\ x # Field(name) BY <1>20, <3>2
      <4>2. Lookup(n + 1, x)' = Lookup(base, x) BY <1>1, <1>14, <3>1, <4>1 DEF None
      <4> QED BY <4>1, <4>2 DEF Accessor
    <3>4. /\ new[p].get = Lookup(base, Accessor(p, Get))
          /\ Range(new[p].set) = {Lookup(base, Accessor(p, Set))} \ {None}
      BY <1>0, <1>1, <3>1 DEF Props
    <3>5. /\ Lookup(n + 1, Accessor(p, Get))' = Lookup(base, Accessor(p, Get))
          /\ Lookup(n + 1, Accessor(p, Set))' = Lookup(base, Accessor(p, Set))
      BY <3>3
    <3> QED BY <3>4, <3>5
  <2>2. ASSUME NEW f \in DOMAIN functions', InAfter(n + 1, f)
        PROVE  /\ functions'[f].name \notin DOMAIN new
               /\ \A p \in Properties, m \in {Get, Set} :
                    functions'[f].name = Accessor(p, m) => p \in DOMAIN new
    <3>1. CASE f \in 1 .. l
      <4>1. base # None /\ In(base, f) /\ functions'[f] = functions[f] BY <1>4, <1>5, <2>2, <3>1
      <4>2. base \in 1 .. n /\ new = property[base] BY <1>6, <1>9, <4>1
      <4> QED BY <1>0, <1>1, <1>2, <3>1, <4>1, <4>2 DEF Props
    <3>2. CASE f \notin 1 .. l
      <4>1. functions'[f].name = Field(name) BY <1>5, <1>6, <3>2
      <4> QED BY <1>20, <1>21, <4>1
    <3> QED BY <3>1, <3>2
  <2> QED BY <1>10, <1>21, <2>1, <2>2 DEF PropsOf
<1>23. Props'
  <2> SUFFICES ASSUME NEW u \in Types'
               PROVE  /\ types'[u].base # None => DOMAIN property'[types'[u].base] \subseteq DOMAIN property'[u]
                      /\ PropsOf(u)
    BY DEF Props, PropsOf, In, InAfter
  <2>1. CASE u \in 1 .. n
    <3>1. types'[u] = types[u] /\ property'[u] = property[u] BY <1>4, <1>10, <2>1
    <3>2. types[u].base # None =>
            types[u].base \in 1 .. n /\ DOMAIN property[types[u].base] \subseteq DOMAIN property[u]
      BY <1>0, <1>1, <2>1, ShapesKnown, ChainRange DEF Props
    <3> QED BY <1>10, <1>19, <2>1, <3>1, <3>2
  <2>2. CASE u = n + 1
    <3>1. types'[u].base = base BY <1>4, <2>2
    <3>2. base # None => property'[base] = new BY <1>6, <1>9, <1>10
    <3> QED BY <1>10, <1>22, <2>2, <3>1, <3>2
  <2> QED BY <1>5, <2>1, <2>2
<1> QED BY <1>12, <1>13, <1>15, <1>17, <1>18, <1>23 DEF IInv

LEMMA InitHolds == Init => IInv
<1> SUFFICES ASSUME Init PROVE IInv OBVIOUS
<1>1. types = <<>> /\ table = <<>> /\ functions = <<>> /\ property = <<>> /\ classUnit = None
      /\ cached = NothingHeld
  BY DEF Init
<1>2. Types = {} /\ DOMAIN functions = {} /\ Len(functions) = 0 BY <1>1 DEF Types
<1>3. cached \in [Methods -> Nat] BY <1>1 DEF NothingHeld, None
<1>4. MaxFunctions \in Nat BY FunctionsAssumption
<1>5. Shapes BY <1>1, <1>2, <1>3, <1>4 DEF Shapes, None
<1>6. Tables /\ Fields /\ Supers /\ Props BY <1>2 DEF Tables, Fields, Supers, Props
<1>7. Calls BY <1>1, <1>2 DEF Calls, NothingHeld
<1> QED BY <1>5, <1>6, <1>7 DEF IInv

(* Steps that leave the types, the functions and their tables alone.       *)
LEMMA TablesKept ==
  ASSUME IInv, types' = types, table' = table, functions' = functions, property' = property
  PROVE  /\ Types' = Types /\ Tables' /\ Fields' /\ Supers' /\ Props'
         /\ \A t \in Types : \A m : Lookup(t, m)' = Lookup(t, m)
<1>0. Shapes /\ Tables /\ Fields /\ Supers /\ Props BY DEF IInv
<1>1. Types' = Types BY DEF Types
<1>2. \A t \in Types : Chain'[t] = Chain[t]
  <2>1. TypesFit' BY <1>0, <1>1, ShapesKnown DEF TypesFit
  <2> QED BY <1>0, <1>1, <2>1, ShapesKnown, ChainStays
<1>3. \A t \in Types : \A f : InAfter(t, f) <=> In(t, f) BY <1>2 DEF In, InAfter
<1>4. Tables' BY <1>0, <1>1, <1>2 DEF Tables, In
<1>5. Fields' BY <1>0 DEF Fields, Field
<1>6. \A t, m : Lookup(t, m)' = Lookup(t, m)
  <2> TAKE t, m
  <2>1. (Places(t, m, Len(table[t])))' = Places(t, m, Len(table[t])) BY DEF Places
  <2> QED BY <2>1 DEF Lookup, At
<1>7. Supers'
  <2> SUFFICES ASSUME NEW f \in DOMAIN functions, functions[f].super # None
               PROVE  /\ types[functions[f].owner].base # None
                      /\ functions[f].super = Lookup(types[functions[f].owner].base, functions[f].name)'
    BY DEF Supers
  <2>1. PICK b : b = types[functions[f].owner].base OBVIOUS
  <2>2. PICK m : m = functions[f].name OBVIOUS
  <2>3. b # None /\ functions[f].super = Lookup(b, m) BY <1>0, <2>1, <2>2 DEF Supers
  <2>4. Lookup(types[functions[f].owner].base, functions[f].name)' = Lookup(b, m)'
    BY <2>1, <2>2
  <2> QED BY <1>6, <2>1, <2>3, <2>4
<1>8. \A t \in Types : PropsOf(t)
  <2> TAKE t \in Types
  <2>1. DOMAIN property[t] \subseteq Properties BY <1>0 DEF Props
  <2>2. \A p \in DOMAIN property[t] :
          /\ property[t][p].get = Lookup(t, Accessor(p, Get))'
          /\ Range(property[t][p].set) = {Lookup(t, Accessor(p, Set))'} \ {None}
    <3> TAKE p \in DOMAIN property[t]
    <3>1. PICK g : g = Accessor(p, Get) OBVIOUS
    <3>2. PICK s : s = Accessor(p, Set) OBVIOUS
    <3>3. Lookup(t, g)' = Lookup(t, g) /\ Lookup(t, s)' = Lookup(t, s) BY <1>6
    <3>4. Lookup(t, Accessor(p, Get))' = Lookup(t, g) /\ Lookup(t, Accessor(p, Set))' = Lookup(t, s)
      BY <3>1, <3>2, <3>3 DEF Accessor
    <3>5. property[t][p].get = Lookup(t, g) /\ Range(property[t][p].set) = {Lookup(t, s)} \ {None}
      BY <1>0, <3>1, <3>2 DEF Props
    <3> QED BY <3>4, <3>5
  <2>3. \A f \in DOMAIN functions : InAfter(t, f) =>
          /\ functions[f].name \notin DOMAIN property[t]
          /\ \A p \in Properties, m \in {Get, Set} :
               functions[f].name = Accessor(p, m) => p \in DOMAIN property[t]
    BY <1>0, <1>3 DEF Props
  <2> QED BY <2>1, <2>2, <2>3 DEF PropsOf
<1>9. Props'
  <2>1. \A u \in Types : types[u].base # None => DOMAIN property[types[u].base] \subseteq DOMAIN property[u]
    BY <1>0 DEF Props
  <2> QED BY <1>1, <1>8, <2>1 DEF Props, PropsOf, In, InAfter
<1> QED BY <1>1, <1>4, <1>5, <1>6, <1>7, <1>9

LEMMA CallsKept ==
  ASSUME IInv, UNCHANGED <<types, table, functions, property, cached>>, classUnit' \in {None, classUnit}
  PROVE  IInv'
<1>0. Shapes /\ Calls BY DEF IInv
<1>1. /\ types' = types /\ table' = table /\ functions' = functions /\ property' = property
      /\ cached' = cached
  OBVIOUS
<1>2. /\ Types' = Types /\ Tables' /\ Fields' /\ Supers' /\ Props'
      /\ \A t \in Types : \A m : Lookup(t, m)' = Lookup(t, m)
  BY <1>1, TablesKept
<1>3. Shapes'
  <2>2. classUnit' \in Nat BY <1>0 DEF Shapes, None
  <2>3. classUnit' # None => classUnit' \in Types' /\ classUnit' = Len(types')
    BY <1>0, <1>1, <1>2 DEF Shapes
  <2> QED BY <1>0, <1>1, <1>2, <2>2, <2>3 DEF Shapes
<1>4. Calls' BY <1>0, <1>1 DEF Calls
<1> QED BY <1>2, <1>3, <1>4 DEF IInv

LEMMA MemberCalled ==
  ASSUME IInv, NEW t \in Types, NEW name \in Methods, CallMember(t, name)
  PROVE  IInv'
<1>0. Shapes /\ Tables /\ Calls BY DEF IInv
<1>1. /\ types' = types /\ table' = table /\ functions' = functions /\ property' = property
      /\ classUnit = None /\ classUnit' = classUnit /\ Lookup(t, name) # None
  BY DEF CallMember
<1>2. /\ Types' = Types /\ Tables' /\ Fields' /\ Supers' /\ Props'
      /\ \A u \in Types : \A m : Lookup(u, m)' = Lookup(u, m)
  BY <1>1, TablesKept
<1>3. PICK f \in Nat : f = Lookup(t, name) BY <1>0, LookupsAre DEF LookupsRight
<1>4. cached' = [cached EXCEPT ![name] = f] BY <1>3 DEF CallMember
<1>5. cached' \in [Methods -> Nat] /\ cached'[name] = f
      /\ \A m \in Methods : m # name => cached'[m] = cached[m]
  BY <1>0, <1>4 DEF Shapes
<1>6. Shapes' BY <1>0, <1>1, <1>2, <1>5 DEF Shapes
<1>7. Calls'
  <2>1. f \in DOMAIN functions /\ functions[f].name = name
    <3>1. f # None /\ IsLookup(t, name, f) BY <1>0, <1>1, <1>3, LookupsAre DEF LookupsRight
    <3> QED BY <3>1 DEF IsLookup, In
  <2>2. \A m \in Methods :
          cached'[m] # None => cached'[m] \in DOMAIN functions /\ functions[cached'[m]].name = m
    BY <1>0, <1>5, <2>1 DEF Calls
  <2> QED BY <1>0, <1>1, <2>2 DEF Calls
<1> QED BY <1>2, <1>6, <1>7 DEF IInv

LEMMA Cleared == ASSUME KeepsRules, Clear PROVE IInv'
<1>1. Init' => IInv' BY InitHolds, PTL
<1>2. "clear" \in Rules BY DEF KeepsRules
<1>3. cached' = [n \in Methods |-> None] BY <1>2 DEF Clear
<1>4. Init' BY <1>3 DEF Clear, Init, NothingHeld
<1> QED BY <1>1, <1>4

LEMMA TypeRegistered ==
  ASSUME IInv, NEW name \in ClassNames, NEW base \in Types \cup {None}, RegisterType(name, base)
  PROVE  IInv'
<1>0. Shapes BY DEF IInv
<1>1. PICK n \in Nat : n = Len(types) /\ Types = 1 .. n
  BY <1>0, ShapesKnown DEF TypesFit, Types
<1>2. PICK l \in Nat : l = Len(functions) BY <1>0, ShapesKnown
<1>3. PICK inherited \in Seq(Nat) : inherited = Inherited(base)
  <2>1. CASE base = None
    <3>1. <<>> \in Seq(Nat) OBVIOUS
    <3> QED BY <2>1, <3>1 DEF Inherited
  <2>2. CASE base # None
    <3>1. table[base] \in Seq(Nat) BY <1>0, <2>2, ShapesKnown
    <3> QED BY <2>2, <3>1 DEF Inherited
  <2> QED BY <2>1, <2>2
<1>4. PICK m \in Nat : m = Len(inherited) OBVIOUS
<1> DEFINE new == Function(n + 1, Field(name), FALSE, m + 1, None)
           own == <<new>>
<1>5. new \in AFunction /\ new.owner = n + 1 /\ new.position = m + 1 /\ new.name = Field(name)
      /\ new.super = None
  <2>1. Field(name) \in AllNames /\ n + 1 \in Nat /\ m + 1 \in Nat BY DEF AllNames
  <2> QED BY <2>1 DEF Function, AFunction, None
<1>6. /\ types' = Append(types, [name |-> name, base |-> base])
      /\ functions' = Append(functions, new)
      /\ table' = Append(table, Append(inherited, l + 1))
      /\ property' = Append(property, IF base = None THEN [p \in {} |-> None] ELSE Copied(base))
      /\ classUnit' = n + 1 /\ cached' = cached
  BY <1>1, <1>2, <1>3, <1>4 DEF RegisterType, new
<1> HIDE DEF new
<1>7. own[1] = new /\ Len(own) = 1 OBVIOUS
<1>8. NewClass(name, base, inherited, own)
  <2>1. \E own_1 \in AFunction : own = <<own_1>> BY <1>5
  <2>2. inherited = IF base = None THEN <<>> ELSE table[base] BY <1>3 DEF Inherited
  <2> QED BY <1>1, <1>2, <1>4, <1>5, <1>6, <1>7, <2>1, <2>2 DEF NewClass
<1>9. \A u \in Types : types[u].name # name BY DEF RegisterType
<1>10. Len(functions) + Len(own) <= MaxFunctions
  BY <1>2, <1>7, FunctionsAssumption DEF RegisterType
<1>11. own # <<>> => own[1].name = Field(name) /\ own[1].super = None BY <1>5, <1>7
<1> HIDE DEF own
<1> QED BY <1>1, <1>6, <1>8, <1>9, <1>10, <1>11, ClassRegistered

LEMMA HalfRegistered ==
  ASSUME IInv, NEW name \in ClassNames, RegisterHalf(name)
  PROVE  IInv'
<1>0. Shapes BY DEF IInv
<1>1. PICK l \in Nat : l = Len(functions) /\ l <= MaxFunctions BY <1>0, ShapesKnown DEF Shapes
<1>2. PICK own : own = <<>> OBVIOUS
<1>3. Len(own) = 0 BY <1>2
<1>4. NewClass(name, None, <<>>, own) BY <1>2 DEF NewClass, RegisterHalf
<1>5. Len(functions) + Len(own) <= MaxFunctions BY <1>1, <1>3
<1>6. /\ cached' = cached /\ classUnit' \in {None, Len(types) + 1}
      /\ property' = Append(property, IF None = None THEN [p \in {} |-> None] ELSE Copied(None))
      /\ \A u \in Types : types[u].name # name
  BY DEF RegisterHalf
<1> QED BY <1>2, <1>4, <1>5, <1>6, ClassRegistered

LEMMA NextHolds == ASSUME KeepsRules, IInv, [Next]_vars PROVE IInv'
<1>1. CASE UNCHANGED vars BY <1>1, CallsKept DEF vars
<1>2. ASSUME NEW n \in ClassNames, RegisterHalf(n) PROVE IInv' BY <1>2, HalfRegistered
<1>3. ASSUME NEW n \in ClassNames, NEW b \in Types \cup {None}, RegisterType(n, b) PROVE IInv'
  BY <1>3, TypeRegistered
<1>4. ASSUME NEW t \in Types, NEW n \in Names, NEW s \in BOOLEAN, NEW u \in BOOLEAN,
             DeclareFunction(t, n, s, u /\ n \in Methods)
      PROVE IInv'
  <2>1. PICK v \in BOOLEAN : v = (u /\ n \in Methods) OBVIOUS
  <2> QED BY <1>4, <2>1, FunctionDeclared
<1>5. ASSUME NEW t \in Types, Refused(t) PROVE IInv' BY <1>5, CallsKept DEF Refused
<1>6. ASSUME NEW t \in Types, NEW p \in Properties, NEW ms \in {{Get}, {Set}, {Get, Set}},
             DeclareProperty(t, p, ms)
      PROVE IInv'
  BY <1>6, PropertyDeclared
<1>7. ASSUME NEW t \in Types, NEW n \in Methods, CallMember(t, n) PROVE IInv' BY <1>7, MemberCalled
<1>8. CASE EndClass BY <1>8, CallsKept DEF EndClass
<1>9. CASE Clear BY <1>9, Cleared
<1> QED BY <1>1, <1>2, <1>3, <1>4, <1>5, <1>6, <1>7, <1>8, <1>9 DEF Next
-----------------------------------------------------------------------------
(* What the runs check.                                                    *)
LEMMA Inductive == KeepsRules => (Spec => []IInv)
<1> SUFFICES ASSUME KeepsRules PROVE Spec => []IInv OBVIOUS
<1>1. IInv /\ [Next]_vars => IInv' BY NextHolds
<1> QED BY <1>1, InitHolds, PTL DEF Spec

LEMMA InitialisersOrdered ==
  ASSUME IInv, NEW t \in Types
  PROVE  /\ Range(Initialisers(t)) \ {None} =
              {f \in Range(table[t]) : functions[f].name \in {Field(n) : n \in ClassNames}}
         /\ \A i, j \in DOMAIN Initialisers(t) :
              i < j /\ Initialisers(t)[i] # None /\ Initialisers(t)[j] # None =>
                functions[Initialisers(t)[i]].position < functions[Initialisers(t)[j]].position
<1>0. Shapes /\ Tables /\ Fields BY DEF IInv
<1>1. PICK l \in Nat : l = Len(functions) /\ DOMAIN functions = 1 .. l BY <1>0, ShapesKnown
<1>2. PICK m \in Nat : m = Len(table[t]) BY <1>0, ShapesKnown
<1>3. PICK n \in Nat : n = Len(types) /\ Types = 1 .. n
  BY <1>0, ShapesKnown DEF TypesFit, Types
<1>4. PICK c \in Seq(Nat) :
        c = Chain[t] /\ (\A i \in DOMAIN c : c[i] \in Types)
        /\ (\A i, j \in DOMAIN c : i < j => c[i] < c[j])
        /\ DOMAIN c \subseteq Nat
  <2>1. t \in 1 .. n /\ Chain[t] \in Seq(1 .. t)
        /\ \A i, j \in 1 .. Len(Chain[t]) : i < j => Chain[t][i] < Chain[t][j]
    BY <1>0, <1>3, ShapesKnown, ChainShape
  <2>2. PICK c \in Seq(1 .. t) : c = Chain[t] BY <2>1
  <2>3. DOMAIN c = 1 .. Len(c) /\ Len(c) \in Nat BY <2>2
  <2>4. \A i \in DOMAIN c : c[i] \in 1 .. t BY <2>3, ElementOfSeq
  <2>6. \A i \in DOMAIN c : c[i] \in Types BY <1>3, <2>1, <2>4
  <2>7. \A i, j \in DOMAIN c : i < j => c[i] < c[j] BY <2>1, <2>2, <2>3
  <2>8. DOMAIN c \subseteq Nat BY <2>3
  <2>5. c \in Seq(Nat)
    <3>1. 1 .. t \subseteq Nat OBVIOUS
    <3> QED BY <2>2, <3>1, Widen
  <2> QED BY <2>2, <2>5, <2>6, <2>7, <2>8
<1> DEFINE s == Initialisers(t)
<1>5. DOMAIN s = DOMAIN c /\ \A i \in DOMAIN c : s[i] = Lookup(t, Field(types[c[i]].name))
  BY <1>4 DEF Initialisers
<1>6. \A i \in DOMAIN c : s[i] \in Nat /\ IsLookup(t, Field(types[c[i]].name), s[i])
  BY <1>0, <1>5, LookupsAre DEF LookupsRight
<1>7. \A i \in DOMAIN c : types[c[i]].name \in ClassNames
  BY <1>0, <1>4, ShapesKnown DEF AType
(* The initialiser found for a class of the chain is the class's own.      *)
<1>8. \A i \in DOMAIN c : s[i] # None =>
        s[i] \in 1 .. l /\ In(t, s[i]) /\ functions[s[i]].owner = c[i]
        /\ functions[s[i]].name = Field(types[c[i]].name)
  <2> SUFFICES ASSUME NEW i \in DOMAIN c, s[i] # None
               PROVE  s[i] \in 1 .. l /\ In(t, s[i]) /\ functions[s[i]].owner = c[i]
                      /\ functions[s[i]].name = Field(types[c[i]].name)
    OBVIOUS
  <2>1. s[i] \in 1 .. l /\ In(t, s[i]) /\ functions[s[i]].name = Field(types[c[i]].name)
    BY <1>1, <1>6 DEF IsLookup, In
  <2>2. types[c[i]].name = types[functions[s[i]].owner].name BY <1>0, <1>1, <1>7, <2>1 DEF Fields
  <2>3. functions[s[i]].owner \in Types BY <1>0, <1>1, <2>1 DEF Shapes
  <2>4. functions[s[i]].owner = c[i] BY <1>0, <1>4, <2>2, <2>3 DEF Shapes
  <2> QED BY <2>1, <2>4
<1> HIDE DEF s
<1>9. \A f \in 1 .. l : In(t, f) <=> f \in Range(table[t])
  <2>1. Range(table[t]) = {table[t][i] : i \in 1 .. m}
    <3>1. DOMAIN table[t] = 1 .. m BY <1>0, <1>2, ShapesKnown
    <3> QED BY <3>1 DEF Range
  <2>2. /\ \A i \in 1 .. m : In(t, table[t][i])
        /\ \A f \in 1 .. l : In(t, f) => \E i \in 1 .. m : table[t][i] = f
    BY <1>0, <1>1, <1>2 DEF Tables
  <2> QED BY <2>1, <2>2
<1>10. Range(table[t]) \subseteq 1 .. l
  <2>1. DOMAIN table[t] = 1 .. m BY <1>0, <1>2, ShapesKnown
  <2>2. \A i \in 1 .. m : table[t][i] \in 1 .. l BY <1>0, <1>1, <1>2 DEF Tables, In
  <2> QED BY <2>1, <2>2 DEF Range
<1>11. Range(s) = {s[i] : i \in DOMAIN c} BY <1>5 DEF Range
<1>12. \A f \in Range(s) \ {None} :
         f \in Range(table[t]) /\ functions[f].name \in {Field(class) : class \in ClassNames}
  <2> TAKE f \in Range(s) \ {None}
  <2>1. PICK i \in DOMAIN c : f = s[i] BY <1>11
  <2>2. f \in 1 .. l /\ In(t, f) /\ functions[f].name = Field(types[c[i]].name) BY <1>8, <2>1
  <2>3. f \in Range(table[t]) BY <1>9, <2>2
  <2>4. types[c[i]].name \in ClassNames BY <1>7
  <2> QED BY <2>2, <2>3, <2>4
<1>13. ASSUME NEW f \in Range(table[t]), NEW class \in ClassNames, functions[f].name = Field(class)
       PROVE  f \in Range(s) \ {None}
  <2>1. f \in 1 .. l /\ In(t, f) BY <1>9, <1>10
  <2>2. functions[f].owner \in Range(c) BY <1>4, <2>1 DEF In
  <2>3. PICK i \in DOMAIN c : c[i] = functions[f].owner BY <2>2 DEF Range
  <2>4. class = types[c[i]].name BY <1>0, <1>1, <1>13, <2>1, <2>3 DEF Fields
  <2>5. s[i] # None
    <3>1. s[i] = None => functions[f].name # Field(class) BY <1>1, <1>6, <2>1, <2>4 DEF IsLookup
    <3> QED BY <1>13, <3>1
  <2>6. s[i] = f
    <3>1. s[i] \in 1 .. l /\ functions[s[i]].owner = functions[f].owner
          /\ functions[s[i]].name = functions[f].name
      BY <1>8, <1>13, <2>3, <2>4, <2>5
    <3> QED BY <1>0, <1>1, <1>13, <2>1, <3>1 DEF Fields
  <2> QED BY <1>11, <2>5, <2>6
<1>14. ASSUME NEW i \in DOMAIN c, NEW j \in DOMAIN c, i < j, s[i] # None, s[j] # None
       PROVE  functions[s[i]].position < functions[s[j]].position
  <2>1. c[i] < c[j] /\ c[i] \in Nat /\ c[j] \in Nat BY <1>4, <1>14
  <2>2. functions[s[i]].owner = c[i] /\ functions[s[j]].owner = c[j] BY <1>8, <1>14
  <2>0. /\ s[i] \in 1 .. l /\ In(t, s[i]) /\ s[j] \in 1 .. l /\ In(t, s[j]) BY <1>8, <1>14
  <2>10. \A f \in 1 .. l : In(t, f) => \E k \in 1 .. m : table[t][k] = f BY <1>0, <1>1, <1>2 DEF Tables
  <2>3. PICK a \in 1 .. m : table[t][a] = s[i] BY <2>0, <2>10
  <2>4. PICK b \in 1 .. m : table[t][b] = s[j] BY <2>0, <2>10
  <2>5. functions[s[i]].position = a /\ functions[s[j]].position = b
    BY <1>0, <1>2, <2>3, <2>4 DEF Tables
  <2>6. ~ (b < a)
    <3> SUFFICES ASSUME b < a PROVE FALSE OBVIOUS
    <3>1. functions[table[t][b]].owner <= functions[table[t][a]].owner BY <1>0, <1>2 DEF Tables
    <3> QED BY <2>1, <2>2, <2>3, <2>4, <3>1
  <2>7. a # b BY <2>1, <2>2, <2>3, <2>4
  <2> QED BY <2>5, <2>6, <2>7
<1>15. Range(s) \ {None} = {f \in Range(table[t]) : functions[f].name \in {Field(class) : class \in ClassNames}}
  BY <1>12, <1>13
<1> QED BY <1>5, <1>14, <1>15 DEF s

(* The tables that registerType copies say what extends means: a name      *)
(* found from the end of a table (getSymbolMemberFunction) is the nearest  *)
(* class's function, functions stand at their idx_position in every class  *)
(* that has them, properties are inherited whole, new runs every           *)
(* initialiser in order, and no name is both a property and a function.    *)
THEOREM TablesInheritAlways == KeepsRules => (Spec => []TablesInherit)
<1> SUFFICES ASSUME KeepsRules PROVE Spec => []TablesInherit OBVIOUS
<1>1. IInv => TablesInherit
  <2> SUFFICES ASSUME IInv PROVE TablesInherit OBVIOUS
  <2>0. Shapes /\ Tables /\ Fields /\ Supers /\ Props /\ Calls BY DEF IInv
  <2>1. PICK n \in Nat : n = Len(types) /\ Types = 1 .. n
    BY <2>0, ShapesKnown DEF TypesFit, Types
  <2>2. PICK l \in Nat : l = Len(functions) /\ DOMAIN functions = 1 .. l BY <2>0, ShapesKnown
  <2>3. \A t \in Types : \A i \in DOMAIN table[t] : i \in 1 .. Len(table[t]) /\ In(t, table[t][i])
    <3> TAKE t \in Types
    <3>1. DOMAIN table[t] = 1 .. Len(table[t]) BY <2>0, ShapesKnown
    <3> QED BY <2>0, <3>1 DEF Tables
  <2>4. \A t \in Types : \A f \in Range(table[t]) : f \in 1 .. l /\ In(t, f)
    BY <2>2, <2>3 DEF Range, In
  <2>5. TypeOK
    <3>1. \A t \in Types : types[t].name \in ClassNames /\ types[t].base \in 0 .. (t - 1)
      <4> TAKE t \in Types
      <4>1. types[t] \in AType /\ types[t].base < t /\ t \in Nat
        BY <2>0, <2>1, ShapesKnown DEF Shapes
      <4> QED BY <4>1 DEF AType
    <3>2. DOMAIN table = Types /\ DOMAIN property = Types BY <2>0 DEF Shapes, Types
    <3>3. Len(functions) <= MaxFunctions /\ classUnit \in 0 .. Len(types)
      BY <2>0, <2>1 DEF Shapes, None
    <3>4. \A f \in DOMAIN functions : functions[f].super \in 0 .. (f - 1)
      <4> TAKE f \in DOMAIN functions
      <4>1. functions[f] \in AFunction /\ functions[f].super < f /\ f \in Nat
        BY <2>0, <2>2, ShapesKnown DEF Shapes
      <4> QED BY <4>1 DEF AFunction
    <3>5. \A m \in Methods : cached[m] \in DOMAIN functions \cup {None} BY <2>0 DEF Calls
    <3> QED BY <2>2, <2>4, <3>1, <3>2, <3>3, <3>4, <3>5 DEF TypeOK
  <2>6. FindsNearest BY <2>0, FoundIsNearest DEF FindsNearest
  <2>7. PlacesHold
    <3> SUFFICES ASSUME NEW f \in DOMAIN functions, NEW t \in Types, f \in Range(table[t])
                 PROVE  table[t][functions[f].position] = f
      BY DEF PlacesHold
    <3>1. PICK i \in DOMAIN table[t] : table[t][i] = f BY DEF Range
    <3>2. functions[f].position = i BY <2>0, <2>3, <3>1 DEF Tables
    <3> QED BY <3>1, <3>2
  <2>8. PropertiesWhole
    <3> SUFFICES ASSUME NEW t \in Types
                 PROVE  /\ types[t].base # None => DOMAIN property[types[t].base] \subseteq DOMAIN property[t]
                        /\ \A p \in DOMAIN property[t] :
                             /\ property[t][p].get = Nearest(t, Accessor(p, Get))
                             /\ Range(property[t][p].set) = {Nearest(t, Accessor(p, Set))} \ {None}
      BY DEF PropertiesWhole
    <3>1. \A name : Nearest(t, name) = Lookup(t, name) BY <2>0, FoundIsNearest
    <3> QED BY <2>0, <3>1 DEF Props
  <2>9. InitialisesAll BY InitialisersOrdered DEF InitialisesAll
  <2>10. NamesDistinct BY <2>0, <2>2, <2>4 DEF NamesDistinct, Props
  <2> QED BY <2>5, <2>6, <2>7, <2>8, <2>9, <2>10 DEF TablesInherit
<1> QED BY <1>1, Inductive, PTL

(* super() always runs the function of that name that an object of the     *)
(* base would run.                                                         *)
THEOREM SuperAlwaysStepsUp == KeepsRules => (Spec => []SuperStepsUp)
<1> SUFFICES ASSUME KeepsRules PROVE Spec => []SuperStepsUp OBVIOUS
<1>1. IInv => SuperStepsUp
  <2> SUFFICES ASSUME IInv, NEW f \in DOMAIN functions, functions[f].super # None
               PROVE  /\ types[functions[f].owner].base # None
                      /\ functions[f].super = Nearest(types[functions[f].owner].base, functions[f].name)
    BY DEF SuperStepsUp
  <2>1. Shapes /\ Tables /\ Supers BY DEF IInv
  <2>2. PICK t \in Types : t = functions[f].owner BY <2>1 DEF Shapes
  <2>3. types[t].base # None /\ functions[f].super = Lookup(types[t].base, functions[f].name)
    BY <2>1, <2>2 DEF Supers
  <2>4. types[t].base \in Types BY <2>1, <2>3, ShapesKnown, ChainRange
  <2>5. Nearest(types[t].base, functions[f].name) = Lookup(types[t].base, functions[f].name)
    BY <2>1, <2>4, FoundIsNearest
  <2> QED BY <2>2, <2>3, <2>5
<1> QED BY <1>1, Inductive, PTL

(* o.f() runs the function that the nearest class of the object declares.  *)
(* What the instruction remembers from another object is the right one for *)
(* every object of a class that has it, unless a nearer class declares the *)
(* name too; whatever is declared, registered and called in between.       *)
THEOREM CallsStayMostDerived == KeepsRules => (Spec => []CallsMostDerived)
<1> SUFFICES ASSUME KeepsRules PROVE Spec => []CallsMostDerived OBVIOUS
<1>1. IInv => CallsMostDerived
  <2> SUFFICES ASSUME IInv, NEW t \in Types, NEW n \in Methods,
                      NEW f, f = Found(t, n), f # Nearest(t, n)
               PROVE  /\ f # None /\ f = cached[n] /\ functions[f].name = n
                      /\ functions[f].owner \in Range(Chain[t]) =>
                           \E u \in Range(Chain[t]) : u > functions[f].owner /\ Declared(u, n) # {}
    BY DEF CallsMostDerived
  <2>1. Shapes /\ Tables /\ Calls BY DEF IInv
  <2>2. PICK g \in Nat : g = Lookup(t, n) /\ IsLookup(t, n, g) BY <2>1, LookupsAre DEF LookupsRight
  <2>3. Nearest(t, n) = g BY <2>1, <2>2, FoundIsNearest
  <2>4. f = cached[n] /\ f # None BY <2>2, <2>3 DEF Found
  <2>5. f \in DOMAIN functions /\ functions[f].name = n BY <2>1, <2>4 DEF Calls
  <2>6. ASSUME functions[f].owner \in Range(Chain[t])
        PROVE  \E u \in Range(Chain[t]) : u > functions[f].owner /\ Declared(u, n) # {}
    <3>1. In(t, f) BY <2>5, <2>6 DEF In
    <3>2. g # None BY <2>2, <2>5, <3>1 DEF IsLookup
    <3>3. In(t, g) /\ functions[g].name = n /\ functions[f].owner <= functions[g].owner
      BY <2>2, <2>5, <3>1, <3>2 DEF IsLookup
    <3>4. functions[f].owner # functions[g].owner
      BY <2>1, <2>3, <2>5, <3>3 DEF Calls, In
    <3>5. functions[f].owner \in Nat /\ functions[g].owner \in Nat
      BY <2>1, <2>5, <3>3, ShapesKnown DEF AFunction, In
    <3>6. functions[g].owner > functions[f].owner BY <3>3, <3>4, <3>5
    <3>7. g \in Declared(functions[g].owner, n) BY <3>3 DEF Declared, In
    <3> QED BY <3>3, <3>6, <3>7 DEF In
  <2> QED BY <2>4, <2>5, <2>6
<1> QED BY <1>1, Inductive, PTL
-----------------------------------------------------------------------------
(* Natives.                                                                *)
(* What the search accepts is converted, but for a float that an int* is   *)
(* declared for.                                                           *)
LEMMA AcceptedConverts ==
  ASSUME NEW v \in ValueKinds, NEW p \in ParamKinds, Accepts(v, p)
  PROVE  Converts(v, p) \/ (v = "float" /\ p = "int*")
BY DEF ValueKinds, ParamKinds, Accepts, Converts, Accepted, Convertible, Castable, Bases, Chars

LEMMA CastAccepted ==
  ASSUME NEW v \in ValueKinds, NEW p \in ParamKinds, Casts(v, p), p \in Untyped(v)
  PROVE  Accepts(v, p)
BY DEF ValueKinds, ParamKinds, Accepts, Casts, Accepted, Castable, Bases, Chars, Untyped

LEMMA ConvertedFits ==
  ASSUME NEW v \in ValueKinds, NEW p \in ParamKinds, Converts(v, p), p \in Untyped(v)
  PROVE  Fits(v, p)
BY DEF ValueKinds, ParamKinds, Converts, Convertible, Castable, Bases, Chars, Untyped, Fits

LEMMA CastIsConverted == ASSUME NEW v, NEW p, Casts(v, p) PROVE Converts(v, p)
BY DEF Casts, Converts, Convertible
-----------------------------------------------------------------------------
ANative == [name : NativeNames, params : Signatures, deduce : BOOLEAN]

(* What was saved is still there, and saved functions call something.      *)
SavedKnown ==
  /\ saved.natives \in 0 .. Len(natives)
  /\ saved.functions \subseteq Functions \ {MainFunction}
  /\ \A f \in saved.functions : code[f] # NoNative

(* Types and marks, without any rule.                                      *)
Base == NativesTyped /\ MarkedWhenShared /\ SavedKnown

(* Natives of one name can be told apart.                                  *)
Overloads ==
  \A m, n \in Registered :
    m < n /\ natives[m].name = natives[n].name => Disjoint(natives[m].params, natives[n].params)

LEMMA NativesAre ==
  ASSUME NativesTyped
  PROVE  /\ Len(natives) \in Nat /\ Registered = 1 .. Len(natives)
         /\ \A n \in Registered : natives[n] \in ANative
         /\ \A f \in Functions : code[f] \in NativeNames \cup {NoNative}
         /\ DOMAIN code = Functions /\ DOMAIN lastCall = Functions
         /\ MaxNatives \in Nat /\ FreedNative \notin Registered
<1>1. natives \in Seq(ANative) /\ Len(natives) \in Nat
  <2>1. natives \in Seq(ANative) BY Zenon DEF NativesTyped, ANative
  <2> QED BY <2>1
<1>2. \A n \in Registered : natives[n] \in ANative BY <1>1 DEF Registered
<1>3. MaxNatives \in Nat /\ Len(natives) <= MaxNatives BY NativesAssumption DEF NativesTyped
<1>4. FreedNative \notin Registered BY <1>1, <1>3 DEF Registered, FreedNative
<1>5. /\ \A f \in Functions : code[f] \in NativeNames \cup {NoNative}
      /\ DOMAIN code = Functions /\ DOMAIN lastCall = Functions
  BY DEF NativesTyped
<1> QED BY <1>1, <1>2, <1>3, <1>4, <1>5 DEF Registered

(* A bounded set of places has a last one.                                 *)
LEMMA GreatestId ==
  ASSUME NEW l \in Nat, NEW S \in SUBSET (1 .. l), S # {}
  PROVE  Max(S) \in S
<1> DEFINE R == {r \in Nat \X Nat : r[1] < r[2]}
           T == {l - x : x \in S}
<1>1. IsWellFoundedOn(R, Nat) BY NatLessThanWellFounded DEF OpToRel
<1>2. T \subseteq Nat /\ T # {}
  <2>1. \A x \in S : l - x \in Nat OBVIOUS
  <2> QED BY <2>1
<1> HIDE DEF R
<1>3. PICK m \in T : \A k \in T : ~ (<<k, m>> \in R) BY <1>1, <1>2, WFMin
<1>4. \A k \in T : k >= m
  <2> TAKE k \in T
  <2>1. k \in Nat /\ m \in Nat BY <1>2
  <2>2. ~ (<<k, m>> \in R) BY <1>3
  <2>3. ~ (k < m) BY <2>1, <2>2 DEF R
  <2> QED BY <2>1, <2>3
<1>5. PICK x \in S : m = l - x OBVIOUS
<1>6. \A y \in S : x >= y
  <2> TAKE y \in S
  <2>1. l - y >= l - x BY <1>4, <1>5
  <2>2. x \in Int /\ y \in Int OBVIOUS
  <2> HIDE DEF T
  <2> QED BY <2>1, <2>2
<1> QED BY <1>6 DEF Max

(* The function a call without memory finds, and what the call chooses.    *)
LEMMA FindKnown ==
  ASSUME NativesTyped, NEW name, NEW args
  PROVE  Find(name, args) # NoNative =>
           /\ Find(name, args) \in Named(name)
           /\ All(Accepts, args, natives[Find(name, args)].params)
<1> DEFINE found == {n \in Named(name) : All(Accepts, args, natives[n].params)}
<1>1. found \subseteq 1 .. Len(natives) BY DEF Named, Registered
<1>2. CASE found = {} BY <1>2 DEF Find
<1>3. CASE found # {}
  <2>1. PICK l \in Nat : l = Len(natives) BY NativesAre
  <2>2. Max(found) \in found BY <1>1, <1>3, <2>1, GreatestId
  <2>3. Find(name, args) = Max(found) BY <1>3 DEF Find
  <2> HIDE DEF found
  <2>4. Find(name, args) \in found BY <2>2, <2>3
  <2> QED BY <2>4 DEF found
<1> QED BY <1>2, <1>3

LEMMA BoundKnown ==
  ASSUME NEW name, Named(name) # {}
  PROVE  Bound(name) \in Named(name)
BY DEF Bound

LEMMA ChosenKnown ==
  ASSUME NativesTyped, NEW f \in Functions, NEW args, Callable(f)
  PROVE  /\ Chosen(f, args) \in Registered \cup {NoNative}
         /\ Chosen(f, args) # NoNative =>
              \/ Chosen(f, args) \in Named(code[f])
              \/ Chosen(f, args) = lastCall[f] /\ Again(f, args)
         /\ Remembered(f, args) \in {lastCall[f]} \cup (Named(code[f]) \ {NoNative})
<1>1. Named(code[f]) \subseteq Registered BY DEF Named
<1>2. Bound(code[f]) \in Named(code[f]) BY BoundKnown DEF Callable
<1>3. Find(code[f], args) # NoNative => Find(code[f], args) \in Named(code[f]) BY FindKnown
<1>4. Again(f, args) => lastCall[f] \in Registered BY DEF Again
<1> QED BY <1>1, <1>2, <1>3, <1>4 DEF Chosen, Remembered
-----------------------------------------------------------------------------
(* What the actions that change the table of natives leave.                *)
LEMMA RegisteringNative ==
  ASSUME NativesTyped, NEW name \in NativeNames, NEW params \in Signatures,
         RegisterFunction(name, params)
  PROVE  /\ natives' \in Seq(ANative) /\ Len(natives') = Len(natives) + 1
         /\ Len(natives') <= MaxNatives
         /\ \A n \in Registered :
              /\ natives'[n].name = natives[n].name /\ natives'[n].params = natives[n].params
              /\ natives'[n].deduce = (natives[n].deduce \/ natives[n].name = name)
         /\ natives'[Len(natives) + 1] =
              [name |-> name, params |-> params, deduce |-> Named(name) # {}]
<1> DEFINE before == [n \in Registered |->
                        IF natives[n].name = name THEN [natives[n] EXCEPT !.deduce = TRUE]
                                                  ELSE natives[n]]
           new == [name |-> name, params |-> params, deduce |-> Named(name) # {}]
<1>1. PICK l \in Nat : l = Len(natives) BY NativesAre
<1>2. \A n \in 1 .. l : natives[n] \in ANative BY <1>1, NativesAre
<1>3. \A n \in 1 .. l :
        /\ before[n] \in ANative
        /\ before[n].name = natives[n].name /\ before[n].params = natives[n].params
        /\ before[n].deduce = (natives[n].deduce \/ natives[n].name = name)
  BY <1>1, <1>2 DEF ANative, Registered
<1>4. before \in Seq(ANative) /\ Len(before) = l
  <2>1. before \in [1 .. l -> ANative]
    <3>1. before = [n \in 1 .. l |-> before[n]] BY <1>1 DEF Registered
    <3> HIDE DEF before
    <3> QED BY <1>3, <3>1
  <2> HIDE DEF before
  <2> QED BY <2>1
<1>5. new \in ANative BY DEF ANative
<1>6. natives' = Append(before, new) BY DEF RegisterFunction
<1> HIDE DEF before, new
<1>7. natives' \in Seq(ANative) /\ Len(natives') = l + 1 /\ natives'[l + 1] = new
      /\ \A n \in 1 .. l : natives'[n] = before[n]
  BY <1>4, <1>5, <1>6, AppendProperties
<1>8. l + 1 <= MaxNatives BY <1>1, NativesAssumption DEF RegisterFunction
<1> QED BY <1>1, <1>3, <1>7, <1>8 DEF Registered, new

LEMMA Clearing ==
  ASSUME Base, ClearNatives
  PROVE  /\ natives' \in Seq(ANative) /\ Len(natives') = saved.natives
         /\ saved.natives \in Nat /\ saved.natives <= Len(natives)
         /\ \A n \in 1 .. saved.natives : natives'[n] = natives[n]
<1>1. PICK l \in Nat : l = Len(natives) BY NativesAre DEF Base
<1>2. PICK k \in Nat : k = saved.natives /\ k <= l BY <1>1 DEF Base, SavedKnown
<1>3. \A n \in 1 .. k : natives[n] \in ANative BY <1>1, <1>2, NativesAre DEF Base
<1>4. natives' = SubSeq(natives, 1, k) BY <1>2 DEF ClearNatives
<1> QED BY <1>1, <1>2, <1>3, <1>4, SubSeqProperties
-----------------------------------------------------------------------------
(* Types, marks and what was saved, by no rule.                            *)
LEMMA BaseInit == NativesInit => Base
<1> SUFFICES ASSUME NativesInit PROVE Base OBVIOUS
<1>1. natives = <<>> /\ Len(natives) = 0 BY DEF NativesInit
<1>2. NativesTyped
  <2>1. natives \in Seq([name : NativeNames, params : Signatures, deduce : BOOLEAN]) BY <1>1
  <2>2. Len(natives) <= MaxNatives BY <1>1, NativesAssumption
  <2>3. code \in [Functions -> NativeNames \cup {NoNative}]
        /\ lastCall \in [Functions -> 0 .. FreedNative]
        /\ \A f \in Functions : lastCall[f] = NoNative
    BY NativesAssumption DEF NativesInit, NoNative, FreedNative
  <2>4. outcome \in [ran : 0 .. MaxNatives, args : ArgLists \cup {<<>>},
                     error : {"none", "not found", "arguments", "conversion"}]
    <3>1. 0 \in 0 .. MaxNatives BY NativesAssumption
    <3> QED BY <3>1 DEF NativesInit, Idle, NoNative
  <2> QED BY <2>1, <2>2, <2>3, <2>4 DEF NativesTyped
<1>3. MarkedWhenShared BY <1>1 DEF MarkedWhenShared, Registered
<1>4. SavedKnown
  <2>1. saved.natives = 0 /\ saved.functions = {} BY DEF NativesInit
  <2> QED BY <1>1, <2>1 DEF SavedKnown
<1> QED BY <1>2, <1>3, <1>4 DEF Base

OutcomeType == [ran : 0 .. MaxNatives, args : ArgLists \cup {<<>>},
                error : {"none", "not found", "arguments", "conversion"}]

LEMMA IdleTyped == Idle \in OutcomeType
<1>1. 0 \in 0 .. MaxNatives BY NativesAssumption
<1> QED BY <1>1 DEF Idle, NoNative, OutcomeType

(* What is left to show of a step for NativesTyped.                        *)
LEMMA TypedStep ==
  ASSUME natives' \in Seq(ANative), Len(natives') <= MaxNatives,
         code' \in [Functions -> NativeNames \cup {NoNative}],
         lastCall' \in [Functions -> 0 .. FreedNative],
         \A f \in Functions : lastCall'[f] # NoNative => code'[f] # NoNative,
         outcome' \in OutcomeType
  PROVE  NativesTyped'
BY Zenon DEF NativesTyped, ANative, OutcomeType

LEMMA TypedParts ==
  ASSUME NativesTyped
  PROVE  /\ natives \in Seq(ANative) /\ Len(natives) <= MaxNatives
         /\ code \in [Functions -> NativeNames \cup {NoNative}]
         /\ lastCall \in [Functions -> 0 .. FreedNative]
         /\ \A f \in Functions : lastCall[f] # NoNative => code[f] # NoNative
         /\ outcome \in OutcomeType
BY Zenon DEF NativesTyped, ANative, OutcomeType

LEMMA NamesAreSome == \A name \in NativeNames : name # NoNative
BY NamesAssumption

LEMMA BaseRegister ==
  ASSUME Base, NEW name \in NativeNames, NEW params \in Signatures, RegisterFunction(name, params)
  PROVE  Base'
<1>1. PICK l \in Nat : l = Len(natives) BY NativesAre DEF Base
<1>2. /\ natives' \in Seq(ANative) /\ Len(natives') = l + 1 /\ l + 1 <= MaxNatives
      /\ \A n \in 1 .. l :
              /\ natives'[n].name = natives[n].name
              /\ natives'[n].deduce = (natives[n].deduce \/ natives[n].name = name)
      /\ natives'[l + 1] = [name |-> name, params |-> params, deduce |-> Named(name) # {}]
  BY <1>1, RegisteringNative DEF Base, Registered
<1>3. code' = code /\ lastCall' = lastCall /\ saved' = saved /\ outcome' = Idle BY DEF RegisterFunction
<1>4. NativesTyped' BY <1>2, <1>3, TypedParts, IdleTyped, TypedStep DEF Base
<1>5. SavedKnown' BY <1>1, <1>2, <1>3 DEF Base, SavedKnown
<1>6. MarkedWhenShared'
  <2>1. /\ natives'[l + 1].name = name
        /\ natives'[l + 1].deduce = (Named(name) # {})
    BY <1>2
  <2>2. \A n \in 1 .. l : natives[n].name = name => Named(name) # {} BY <1>1 DEF Named, Registered
  <2> SUFFICES ASSUME NEW m \in 1 .. (l + 1), NEW n \in 1 .. (l + 1), m # n,
                      natives'[m].name = natives'[n].name
               PROVE  natives'[m].deduce
    BY <1>2 DEF MarkedWhenShared, Registered
  <2>3. CASE m = l + 1
    <3>1. n \in 1 .. l BY <2>3
    <3> QED BY <1>2, <2>1, <2>2, <2>3, <3>1
  <2>4. CASE m \in 1 .. l /\ n = l + 1
    <3>1. natives[m].name = name BY <1>2, <2>1, <2>4
    <3> QED BY <1>2, <2>4, <3>1
  <2>5. CASE m \in 1 .. l /\ n \in 1 .. l
    <3>1. natives[m].name = natives[n].name BY <1>2, <2>5
    <3>2. natives[m].deduce BY <1>1, <2>5, <3>1 DEF Base, MarkedWhenShared, Registered
    <3> QED BY <1>2, <2>5, <3>2
  <2> QED BY <2>3, <2>4, <2>5
<1> QED BY <1>4, <1>5, <1>6 DEF Base

LEMMA BaseCall ==
  ASSUME Base, NEW f \in Functions, NEW args \in ArgLists, CallNative(f, args)
  PROVE  Base'
<1>1. /\ natives' = natives /\ code' = code /\ saved' = saved /\ Callable(f)
      /\ lastCall' = [lastCall EXCEPT ![f] = Remembered(f, args)]
      /\ outcome' = Execute(Chosen(f, args), args)
  BY DEF CallNative
<1>2. PICK l \in Nat : l = Len(natives) /\ l <= MaxNatives BY NativesAre, TypedParts DEF Base
<1>3. Remembered(f, args) \in 0 .. FreedNative /\ (Remembered(f, args) # NoNative => code[f] # NoNative)
  <2>1. Remembered(f, args) \in {lastCall[f]} \cup 1 .. l
    BY <1>1, <1>2, ChosenKnown DEF Base, Named, Registered
  <2>2. 1 .. l \subseteq 0 .. FreedNative BY <1>2, NativesAssumption DEF FreedNative
  <2>3. lastCall[f] \in 0 .. FreedNative BY TypedParts DEF Base
  <2>4. code[f] # NoNative BY <1>1 DEF Callable
  <2> QED BY <2>1, <2>2, <2>3, <2>4
<1>4. /\ lastCall' \in [Functions -> 0 .. FreedNative]
      /\ \A g \in Functions : lastCall'[g] # NoNative => code'[g] # NoNative
  BY <1>1, <1>3, TypedParts DEF Base
<1>5. outcome' \in OutcomeType
  <2>1. Chosen(f, args) \in Registered \cup {NoNative} BY <1>1, ChosenKnown DEF Base
  <2>2. Chosen(f, args) \in 0 .. MaxNatives BY <1>2, <2>1, NativesAssumption DEF Registered, NoNative
  <2>3. PICK n \in 0 .. MaxNatives : n = Chosen(f, args) BY <2>2
  <2>4. Execute(n, args) \in OutcomeType BY DEF Execute, OutcomeType
  <2> QED BY <1>1, <2>3, <2>4
<1>6. NativesTyped' BY <1>1, <1>4, <1>5, TypedParts, TypedStep DEF Base
<1>7. SavedKnown' /\ MarkedWhenShared'
  BY <1>1 DEF Base, SavedKnown, MarkedWhenShared, Registered
<1> QED BY <1>6, <1>7 DEF Base

LEMMA BaseClear == ASSUME Base, ClearNatives PROVE Base'
<1>1. /\ natives' \in Seq(ANative) /\ Len(natives') = saved.natives
      /\ saved.natives \in Nat /\ saved.natives <= Len(natives)
      /\ \A n \in 1 .. saved.natives : natives'[n] = natives[n]
  BY Clearing
<1>2. /\ code' = [f \in Functions |-> IF f \in saved.functions THEN code[f] ELSE NoNative]
      /\ lastCall' = [f \in Functions |-> Kept(f)]
      /\ outcome' = Idle /\ saved' = saved
  BY DEF ClearNatives
<1>3. Len(natives) \in Nat /\ Len(natives) <= MaxNatives BY NativesAre, TypedParts DEF Base
<1>4. \A f \in Functions : Kept(f) \in 0 .. FreedNative
  <2> TAKE f \in Functions
  <2>1. lastCall[f] \in 0 .. FreedNative BY TypedParts DEF Base
  <2>2. FreedNative \in 0 .. FreedNative /\ NoNative \in 0 .. FreedNative
    BY NativesAssumption DEF FreedNative, NoNative
  <2> QED BY <2>1, <2>2 DEF Kept
<1>5. \A f \in Functions : lastCall'[f] # NoNative => code'[f] # NoNative
  BY <1>2 DEF Kept, Base, SavedKnown
<1>6. code' \in [Functions -> NativeNames \cup {NoNative}] BY <1>2, TypedParts DEF Base
<1>7. Len(natives') <= MaxNatives BY <1>1, <1>3, NativesAssumption
<1>8. NativesTyped' BY <1>1, <1>2, <1>4, <1>5, <1>6, <1>7, IdleTyped, TypedStep
<1>9. SavedKnown' BY <1>1, <1>2 DEF Base, SavedKnown
<1>10. MarkedWhenShared' BY <1>1, <1>3 DEF Base, MarkedWhenShared, Registered
<1> QED BY <1>8, <1>9, <1>10 DEF Base

THEOREM BaseStep == Base /\ [NativesNext]_nativeVars => Base'
<1> SUFFICES ASSUME Base, [NativesNext]_nativeVars PROVE Base' OBVIOUS
<1>1. CASE \E name \in NativeNames, params \in Signatures : RegisterFunction(name, params)
  BY <1>1, BaseRegister
<1>2. ASSUME NEW name \in NativeNames, CompileMain(name) PROVE Base'
  <2>1. /\ code' = [code EXCEPT ![MainFunction] = name]
        /\ lastCall' = [lastCall EXCEPT ![MainFunction] = NoNative]
        /\ outcome' = Idle /\ natives' = natives /\ saved' = saved
    BY <1>2 DEF CompileMain
  <2>2. NoNative \in 0 .. FreedNative BY NativesAssumption DEF FreedNative, NoNative
  <2>3. NativesTyped' BY <2>1, <2>2, TypedParts, IdleTyped, TypedStep, MainFunctionAssumption DEF Base
  <2>4. SavedKnown' /\ MarkedWhenShared'
    BY <2>1, TypedParts DEF Base, SavedKnown, MarkedWhenShared, Registered
  <2> QED BY <2>3, <2>4 DEF Base
<1>3. ASSUME NEW f \in Functions, NEW name \in NativeNames, DeclareScript(f, name) PROVE Base'
  <2>1. /\ code' = [code EXCEPT ![f] = name] /\ lastCall' = lastCall
        /\ outcome' = Idle /\ natives' = natives /\ saved' = saved
    BY <1>3 DEF DeclareScript
  <2>2. NativesTyped' BY <2>1, TypedParts, IdleTyped, TypedStep, NamesAreSome DEF Base
  <2>3. SavedKnown' /\ MarkedWhenShared'
    BY <2>1, TypedParts, NamesAreSome DEF Base, SavedKnown, MarkedWhenShared, Registered
  <2> QED BY <2>2, <2>3 DEF Base
<1>4. CASE \E f \in Functions, args \in ArgLists : CallNative(f, args) BY <1>4, BaseCall
<1>5. CASE SaveState
  <2>1. /\ saved' = [natives |-> Len(natives),
                     functions |-> {f \in Functions \ {MainFunction} : code[f] # NoNative}]
        /\ outcome' = Idle /\ natives' = natives /\ code' = code /\ lastCall' = lastCall
    BY <1>5 DEF SaveState
  <2>2. NativesTyped' BY <2>1, TypedParts, IdleTyped, TypedStep DEF Base
  <2>3. MarkedWhenShared' BY <2>1 DEF Base, MarkedWhenShared, Registered
  <2>4. SavedKnown'
    <3>1. saved'.natives = Len(natives)
          /\ saved'.functions = {f \in Functions \ {MainFunction} : code[f] # NoNative}
      BY <2>1
    <3>2. Len(natives) \in Nat BY NativesAre DEF Base
    <3> QED BY <2>1, <3>1, <3>2 DEF SavedKnown
  <2> QED BY <2>2, <2>3, <2>4 DEF Base
<1>6. CASE ClearNatives BY <1>6, BaseClear
<1>7. CASE UNCHANGED nativeVars
  BY <1>7 DEF nativeVars, Base, NativesTyped, MarkedWhenShared, SavedKnown, Registered
<1> QED BY <1>1, <1>2, <1>3, <1>4, <1>5, <1>6, <1>7 DEF NativesNext
-----------------------------------------------------------------------------
(* What instructions remember: functions that have called are not redefined *)
(* and do not outlive what they call.                                      *)
CodeStays == {"same code", "clear"} \subseteq CallRules

LEMMA CodeInit == NativesInit => RunsTheCode
BY DEF NativesInit, RunsTheCode

LEMMA CodeStep ==
  ASSUME CodeStays, Base, RunsTheCode, [NativesNext]_nativeVars
  PROVE  RunsTheCode'
<1>1. PICK l \in Nat : l = Len(natives) BY NativesAre DEF Base
<1>2. \A f \in Functions : code[f] \in NativeNames \cup {NoNative} BY NativesAre DEF Base
<1>3. DOMAIN code = Functions /\ DOMAIN lastCall = Functions BY NativesAre DEF Base
<1>4. ASSUME NEW name \in NativeNames, NEW params \in Signatures, RegisterFunction(name, params)
      PROVE  RunsTheCode'
  <2>1. /\ Len(natives') = l + 1
        /\ \A n \in 1 .. l : natives'[n].name = natives[n].name
        /\ code' = code /\ lastCall' = lastCall
    BY <1>1, <1>4, RegisteringNative DEF Base, Registered, RegisterFunction
  <2>2. Registered \subseteq Registered' BY <1>1, <2>1 DEF Registered
  <2>3. \A name_1 : Named(name_1) \subseteq Named(name_1)' BY <1>1, <2>1, <2>2 DEF Named, Registered
  <2> QED BY <1>1, <2>1, <2>2, <2>3 DEF RunsTheCode, Registered
<1>5. ASSUME NEW name \in NativeNames, CompileMain(name) PROVE RunsTheCode'
  BY <1>2, <1>3, <1>5, MainFunctionAssumption DEF CompileMain, RunsTheCode, Named, Registered
<1>6. ASSUME NEW f \in Functions, NEW name \in NativeNames, DeclareScript(f, name) PROVE RunsTheCode'
  <2>1. /\ code' = [code EXCEPT ![f] = name] /\ lastCall' = lastCall /\ natives' = natives
        /\ Named(name) # {} /\ lastCall[f] = NoNative
    BY <1>6 DEF DeclareScript, Keeps, CodeStays
  <2> QED BY <1>3, <2>1 DEF RunsTheCode, Named, Registered
<1>7. ASSUME NEW f \in Functions, NEW args \in ArgLists, CallNative(f, args) PROVE RunsTheCode'
  <2>1. /\ natives' = natives /\ code' = code /\ Callable(f)
        /\ lastCall' = [lastCall EXCEPT ![f] = Remembered(f, args)]
    BY <1>7 DEF CallNative
  <2>2. Remembered(f, args) \in {lastCall[f]} \cup Named(code[f]) BY <2>1, ChosenKnown DEF Base
  <2> QED BY <1>3, <2>1, <2>2 DEF RunsTheCode, Named, Registered
<1>8. CASE SaveState
  BY <1>8 DEF SaveState, RunsTheCode, Named, Registered
<1>9. CASE ClearNatives
  <2>1. PICK k \in Nat : k = saved.natives /\ k <= l BY <1>1 DEF Base, SavedKnown
  <2>2. /\ Len(natives') = k
        /\ \A n \in 1 .. k : natives'[n] = natives[n]
        /\ code' = [f \in Functions |-> IF f \in saved.functions THEN code[f] ELSE NoNative]
        /\ lastCall' = [f \in Functions |-> Kept(f)]
    BY <1>9, <2>1, Clearing DEF ClearNatives
  <2>3. \A f \in saved.functions : \A n \in Named(code[f]) : n <= k
    BY <1>9, <2>1 DEF ClearNatives, Keeps, KeepsClear, CodeStays
  <2>4. Registered' = 1 .. k BY <2>2 DEF Registered
  <2>5. ASSUME NEW f \in Functions, code'[f] # NoNative PROVE Named(code[f])' # {}
    <3>1. f \in saved.functions /\ code'[f] = code[f] BY <2>2, <2>5
    <3>2. PICK n \in Named(code[f]) : n <= k BY <2>2, <2>3, <2>5, <3>1 DEF RunsTheCode
    <3>3. n \in 1 .. k /\ natives'[n].name = code'[f] BY <1>1, <2>2, <3>1, <3>2 DEF Named, Registered
    <3> QED BY <2>4, <3>3 DEF Named
  <2>6. ASSUME NEW f \in Functions, lastCall'[f] # NoNative
        PROVE  lastCall'[f] \in 1 .. k /\ natives'[lastCall'[f]].name = code'[f]
    <3>1. f \in saved.functions /\ code'[f] = code[f] BY <2>2, <2>6 DEF Kept
    <3>2. lastCall'[f] = Kept(f) BY <2>2
    <3>3. lastCall[f] # NoNative
      <4>1. CASE lastCall[f] = NoNative
        <5>1. lastCall[f] = 0 /\ ~(0 > k) BY <2>1, <4>1 DEF NoNative
        <5>2. Kept(f) = lastCall[f] BY <2>1, <3>1, <5>1 DEF Kept
        <5> QED BY <2>6, <3>2, <4>1, <5>2
      <4> QED BY <4>1
    <3>4. lastCall[f] \in Named(code[f]) BY <3>3 DEF RunsTheCode, Named
    <3>5. PICK n \in 1 .. l : n = lastCall[f] /\ n <= k BY <1>1, <2>3, <3>1, <3>4 DEF Named, Registered
    <3>6. lastCall'[f] = n BY <2>1, <3>1, <3>2, <3>5 DEF Kept
    <3> QED BY <2>2, <3>1, <3>4, <3>5, <3>6 DEF Named
  <2> QED BY <2>4, <2>5, <2>6 DEF RunsTheCode
<1>10. CASE UNCHANGED nativeVars BY <1>10 DEF nativeVars, RunsTheCode, Named, Registered
<1> QED BY <1>4, <1>5, <1>6, <1>7, <1>8, <1>9, <1>10 DEF NativesNext
-----------------------------------------------------------------------------
(* Natives of one name that are told apart when they are registered stay so.*)
LEMMA OverloadsInit == NativesInit => Overloads
BY DEF NativesInit, Overloads, Registered

LEMMA OverloadsStep ==
  ASSUME "disjoint" \in CallRules, Base, Overloads, [NativesNext]_nativeVars
  PROVE  Overloads'
<1>1. PICK l \in Nat : l = Len(natives) BY NativesAre DEF Base
<1>2. ASSUME NEW name \in NativeNames, NEW params \in Signatures, RegisterFunction(name, params)
      PROVE  Overloads'
  <2>1. /\ Len(natives') = l + 1
        /\ \A n \in 1 .. l : natives'[n].name = natives[n].name /\ natives'[n].params = natives[n].params
        /\ natives'[l + 1].name = name /\ natives'[l + 1].params = params
    <3>1. natives'[l + 1] = [name |-> name, params |-> params, deduce |-> Named(name) # {}]
      BY <1>1, <1>2, RegisteringNative DEF Base
    <3>2. /\ Len(natives') = l + 1
          /\ \A n \in 1 .. l : natives'[n].name = natives[n].name /\ natives'[n].params = natives[n].params
      BY <1>1, <1>2, RegisteringNative DEF Base, Registered
    <3> QED BY <3>1, <3>2
  <2>2. \A n \in Named(name) : Disjoint(natives[n].params, params) BY <1>2 DEF RegisterFunction, Keeps
  <2> SUFFICES ASSUME NEW m \in 1 .. (l + 1), NEW n \in 1 .. (l + 1), m < n,
                      natives'[m].name = natives'[n].name
               PROVE  Disjoint(natives'[m].params, natives'[n].params)
    BY <2>1 DEF Overloads, Registered, Disjoint
  <2>3. m \in 1 .. l BY <1>1
  <2>4. CASE n \in 1 .. l
    BY <1>1, <2>1, <2>3, <2>4 DEF Overloads, Registered
  <2>5. CASE n = l + 1
    <3>1. m \in Named(name) BY <1>1, <2>1, <2>3, <2>5 DEF Named, Registered
    <3>2. natives'[m].params = natives[m].params /\ natives'[n].params = params BY <2>1, <2>3, <2>5
    <3>3. Disjoint(natives[m].params, params) BY <2>2, <3>1
    <3> QED BY <3>2, <3>3
  <2> QED BY <2>4, <2>5
<1>3. CASE ClearNatives
  <2>1. PICK k \in Nat : k = saved.natives /\ k <= l BY <1>1 DEF Base, SavedKnown
  <2>2. Len(natives') = k /\ \A n \in 1 .. k : natives'[n] = natives[n]
    BY <1>3, <2>1, Clearing
  <2>3. Registered' = 1 .. k /\ \A n \in 1 .. k : n \in Registered
    BY <1>1, <2>1, <2>2 DEF Registered
  <2>4. \A m, n \in 1 .. k :
          m < n /\ natives[m].name = natives[n].name => Disjoint(natives[m].params, natives[n].params)
    BY <2>3 DEF Overloads
  <2>5. \A m, n \in 1 .. k :
          m < n /\ natives'[m].name = natives'[n].name => Disjoint(natives'[m].params, natives'[n].params)
    BY <2>2, <2>4
  <2> QED BY <2>3, <2>5 DEF Overloads, Disjoint
<1>4. CASE natives' = natives BY <1>4 DEF Overloads, Registered, Disjoint
<1> QED BY <1>2, <1>3, <1>4
  DEF NativesNext, CompileMain, DeclareScript, CallNative, SaveState, nativeVars
-----------------------------------------------------------------------------
(* The arguments of a call that the rules allow, beside the parameters of  *)
(* any native of the name.                                                 *)
LEMMA Beside ==
  ASSUME NativesTyped, NEW name, NEW args \in ArgLists, KeepsTyped(name, args),
         NEW n \in Named(name), Len(args) = Len(natives[n].params),
         NEW k \in 1 .. Len(args)
  PROVE  /\ args[k] \in ValueKinds /\ natives[n].params[k] \in ParamKinds
         /\ natives[n].params[k] \in Untyped(args[k])
         /\ KeepsFloat(name, args) => ~(args[k] = "float" /\ natives[n].params[k] = "int*")
<1>1. n \in Registered BY DEF Named
<1>2. natives[n].params \in Seq(ParamKinds) BY <1>1, NativesAre, KindsAssumption DEF ANative
<1>3. args \in Seq(ValueKinds) BY KindsAssumption
<1>4. args[k] \in ValueKinds BY <1>3, ElementOfSeq
<1>5. natives[n].params[k] \in ParamKinds BY <1>2, ElementOfSeq
<1>6. natives[n].params[k] \in TypesAt(name, k)
  <2>1. Len(natives[n].params) >= k BY <1>3
  <2> QED BY <2>1 DEF TypesAt
<1>7. natives[n].params[k] \in Untyped(args[k]) BY <1>6 DEF KeepsTyped
<1> QED BY <1>4, <1>5, <1>6, <1>7 DEF KeepsFloat

(* The choice at an instruction is the one that a first call would make.   *)
LEMMA AgainIsFound ==
  ASSUME Base, RunsTheCode, Overloads, NEW f \in Functions, NEW args \in ArgLists,
         Again(f, args), KeepsTyped(code[f], args)
  PROVE  lastCall[f] = Find(code[f], args)
<1>1. PICK l \in Nat : l = Len(natives) BY NativesAre DEF Base
<1>2. PICK n \in 1 .. l : n = lastCall[f] BY <1>1 DEF Again, Registered
<1>3. n \in Named(code[f])
  BY <1>1, <1>2, NativesAssumption DEF RunsTheCode, Named, Registered, NoNative
<1>4. Len(args) = Len(natives[n].params)
      /\ \A k \in 1 .. Len(args) : Casts(args[k], natives[n].params[k])
  BY <1>2 DEF Again, All
<1>5. \A k \in 1 .. Len(args) : Accepts(args[k], natives[n].params[k])
  <2> TAKE k \in 1 .. Len(args)
  <2> QED BY <1>3, <1>4, Beside, CastAccepted DEF Base
<1>6. All(Accepts, args, natives[n].params) BY <1>4, <1>5 DEF All
<1>7. ASSUME NEW m \in Named(code[f]), All(Accepts, args, natives[m].params) PROVE m = n
  <2>1. m \in 1 .. l /\ natives[m].name = natives[n].name BY <1>1, <1>3 DEF Named, Registered
  <2>2. Len(args) = Len(natives[m].params)
        /\ \A k \in 1 .. Len(args) : Accepts(args[k], natives[m].params[k])
    BY <1>7 DEF All
  <2>3. ASSUME NEW k \in 1 .. Len(args)
        PROVE  ~ Apart(natives[m].params[k], natives[n].params[k])
               /\ ~ Apart(natives[n].params[k], natives[m].params[k])
    <3>1. args[k] \in ValueKinds BY <1>3, <1>4, Beside DEF Base
    <3>2. Takes(args[k], natives[m].params[k]) /\ Takes(args[k], natives[n].params[k])
      BY <1>5, <2>2, <2>3 DEF Takes
    <3> QED BY <3>1, <3>2 DEF Apart
  <2>4. ~ Disjoint(natives[m].params, natives[n].params) /\ ~ Disjoint(natives[n].params, natives[m].params)
    BY <1>4, <2>2, <2>3 DEF Disjoint
  <2>5. ~ (m < n) /\ ~ (n < m) BY <1>1, <2>1, <2>4 DEF Overloads, Registered
  <2> QED BY <2>1, <2>5
<1> DEFINE found == {m \in Named(code[f]) : All(Accepts, args, natives[m].params)}
<1>8. found = {n} BY <1>3, <1>6, <1>7
<1>9. Max(found) = n
  <2>1. {n} \subseteq 1 .. l /\ {n} # {} OBVIOUS
  <2>2. Max({n}) \in {n} BY <2>1, GreatestId
  <2> QED BY <1>8, <2>2
<1> QED BY <1>2, <1>8, <1>9 DEF Find

LEMMA ChoosesAfresh ==
  ASSUME Base, RunsTheCode, Overloads
  PROVE  SameAsFirst
BY AgainIsFound DEF SameAsFirst, Chosen

(* What a call finds or takes again is converted to the declared types.    *)
LEMMA CallFits ==
  ASSUME CodeStays, {"typed", "float"} \subseteq CallRules, Base, RunsTheCode,
         NEW f \in Functions, NEW args \in ArgLists, CallNative(f, args)
  PROVE  ArgumentsFit'
<1>1. /\ natives' = natives /\ Callable(f) /\ outcome' = Execute(Chosen(f, args), args)
      /\ KeepsTyped(code[f], args) /\ KeepsFloat(code[f], args)
  BY DEF CallNative, Keeps
<1> DEFINE n == Chosen(f, args)
<1>2. CASE n = NoNative
  <2>1. outcome'.ran = NoNative BY <1>1, <1>2 DEF Execute
  <2> QED BY <2>1 DEF ArgumentsFit, FoundConverts, PassesTyped
<1>3. CASE n # NoNative
  <2>1. n \in Named(code[f])
    BY <1>1, <1>3, ChosenKnown, RunsTheCode DEF Base, RunsTheCode, Named
  <2>2. /\ outcome'.ran = n /\ outcome'.args = args
        /\ outcome'.error = IF Len(natives[n].params) # Len(args) THEN "arguments"
                            ELSE IF All(Converts, args, natives[n].params) THEN "none"
                            ELSE "conversion"
    BY <1>1, <1>3 DEF Execute
  <2> HIDE DEF n
  <2>3. All(Converts, args, natives[n].params) => All(Fits, args, natives[n].params)
    <3> SUFFICES ASSUME All(Converts, args, natives[n].params), NEW k \in 1 .. Len(args)
                 PROVE  Fits(args[k], natives[n].params[k])
      BY DEF All
    <3>1. Len(args) = Len(natives[n].params) /\ Converts(args[k], natives[n].params[k]) BY DEF All
    <3> QED BY <1>1, <2>1, <3>1, Beside, ConvertedFits DEF Base
  <2>4. PassesTyped'
    <3>1. outcome'.error = "none" => All(Converts, args, natives[n].params) BY <2>2
    <3>2. outcome'.error = "none" => All(Fits, args, natives[n].params) BY <2>3, <3>1
    <3> QED BY <1>1, <2>2, <3>2 DEF PassesTyped, All, Fits
  <2>5. natives[n].deduce => outcome'.error = "none"
    <3> SUFFICES ASSUME natives[n].deduce PROVE All(Converts, args, natives[n].params)
      BY <2>2 DEF All
    <3>1. CASE Again(f, args) /\ n = lastCall[f]
      BY <3>1, CastIsConverted DEF Again, All
    <3>2. CASE n = Find(code[f], args)
      <4>1. All(Accepts, args, natives[n].params) BY <1>3, <3>2, FindKnown DEF Base
      <4>2. Len(args) = Len(natives[n].params) BY <4>1 DEF All
      <4> SUFFICES ASSUME NEW k \in 1 .. Len(args) PROVE Converts(args[k], natives[n].params[k])
        BY <4>2 DEF All
      <4>3. Accepts(args[k], natives[n].params[k]) BY <4>1 DEF All
      <4> QED BY <1>1, <2>1, <4>2, <4>3, Beside, AcceptedConverts DEF Base
    <3>3. n = Bound(code[f]) \/ (Again(f, args) /\ n = lastCall[f]) \/ n = Find(code[f], args)
      BY DEF n, Chosen
    <3>4. n = Bound(code[f]) => \/ Again(f, args) /\ n = lastCall[f]
                                \/ n = Find(code[f], args)
      BY DEF n, Chosen
    <3> QED BY <3>1, <3>2, <3>3, <3>4
  <2>6. FoundConverts' BY <1>1, <2>2, <2>5 DEF FoundConverts
  <2> QED BY <2>4, <2>6 DEF ArgumentsFit
<1> QED BY <1>2, <1>3

LEMMA FitsStep ==
  ASSUME CodeStays, {"typed", "float"} \subseteq CallRules, Base, RunsTheCode, ArgumentsFit,
         [NativesNext]_nativeVars
  PROVE  ArgumentsFit'
<1>1. CASE \E f \in Functions, args \in ArgLists : CallNative(f, args) BY <1>1, CallFits
<1>2. CASE outcome' = Idle
  BY <1>2 DEF Idle, ArgumentsFit, FoundConverts, PassesTyped
<1>3. CASE UNCHANGED nativeVars
  BY <1>3 DEF nativeVars, ArgumentsFit, FoundConverts, PassesTyped, All, Fits
<1> QED BY <1>1, <1>2, <1>3
  DEF NativesNext, RegisterFunction, CompileMain, DeclareScript, SaveState, ClearNatives
-----------------------------------------------------------------------------
(* Types are as declared, and all natives of a name are marked as soon as  *)
(* there are two, whatever host and scripts do.                            *)
THEOREM MarksAndTypes == NativesSpec => [](NativesTyped /\ MarkedWhenShared)
<1>1. NativesSpec => []Base BY BaseInit, BaseStep, PTL DEF NativesSpec
<1>2. Base => NativesTyped /\ MarkedWhenShared BY DEF Base
<1> QED BY <1>1, <1>2, PTL

(* A call of a native runs one of the name in the code, and the one that a *)
(* first call with these arguments would find, if functions that have      *)
(* called are not redefined, do not outlive what they call, and natives of *)
(* a name can be told apart.                                               *)
THEOREM CallsAreRight ==
  {"same code", "clear", "disjoint"} \subseteq CallRules => (NativesSpec => []CallsStayRight)
<1> SUFFICES ASSUME {"same code", "clear", "disjoint"} \subseteq CallRules
             PROVE  NativesSpec => []CallsStayRight
  OBVIOUS
<1> DEFINE NInv == Base /\ RunsTheCode /\ Overloads
<1>1. CodeStays /\ "disjoint" \in CallRules BY DEF CodeStays
<1>2. NativesInit => NInv BY BaseInit, CodeInit, OverloadsInit
<1>3. NInv /\ [NativesNext]_nativeVars => NInv' BY <1>1, BaseStep, CodeStep, OverloadsStep
<1>4. NInv => CallsStayRight BY ChoosesAfresh DEF Base, CallsStayRight
<1> QED BY <1>2, <1>3, <1>4, PTL DEF NativesSpec

(* The three tables agree on every call: an overloaded native that was     *)
(* found, or is taken again, converts its arguments, to values of the      *)
(* declared types.                                                         *)
THEOREM CallsFit ==
  {"same code", "clear", "typed", "float"} \subseteq CallRules => (NativesSpec => []ArgumentsFit)
<1> SUFFICES ASSUME {"same code", "clear", "typed", "float"} \subseteq CallRules
             PROVE  NativesSpec => []ArgumentsFit
  OBVIOUS
<1> DEFINE NInv == Base /\ RunsTheCode /\ ArgumentsFit
<1>1. CodeStays /\ {"typed", "float"} \subseteq CallRules BY DEF CodeStays
<1>2. NativesInit => NInv
  <2>1. NativesInit => outcome.ran = NoNative
    <3>1. NativesInit => outcome = Idle BY DEF NativesInit
    <3>2. Idle.ran = NoNative BY DEF Idle
    <3> QED BY <3>1, <3>2
  <2>2. outcome.ran = NoNative => ArgumentsFit BY DEF ArgumentsFit, FoundConverts, PassesTyped
  <2> QED BY <2>1, <2>2, BaseInit, CodeInit
<1>3. NInv /\ [NativesNext]_nativeVars => NInv' BY <1>1, BaseStep, CodeStep, FitsStep
<1> QED BY <1>2, <1>3, PTL DEF NativesSpec
=============================================================================
