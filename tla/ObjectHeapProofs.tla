-------------------------- MODULE ObjectHeapProofs --------------------------
(***************************************************************************)
(* Proofs about ObjectHeap, for any number of objects, fields, variables   *)
(* and blocks.                                                             *)
(***************************************************************************)
EXTENDS ObjectHeap, SequenceTheorems, FiniteSetTheorems, TLAPS

LEMMA OneMore ==
  ASSUME NEW S, IsFiniteSet(S), NEW x, x \notin S
  PROVE  Cardinality(S \cup {x}) = Cardinality(S) + 1 /\ Cardinality(S) \in Nat
BY FS_AddElement, FS_CardinalityType

LEMMA OneFewer ==
  ASSUME NEW S, IsFiniteSet(S), NEW x \in S
  PROVE  Cardinality(S \ {x}) = Cardinality(S) - 1 /\ Cardinality(S) \in Nat
BY FS_RemoveElement, FS_CardinalityType

LEMMA OneOrMore == ASSUME NEW n \in Nat, n >= 1 PROVE n = 1 \/ n > 1
OBVIOUS

(* A sequence as it is, in the type of its elements.                       *)
LEMMA SeqIs ==
  ASSUME NEW T, NEW s \in Seq(T)
  PROVE  Len(s) \in Nat /\ DOMAIN s = 1 .. Len(s) /\ \A i \in 1 .. Len(s) : s[i] \in T
BY LenProperties, ElementOfSeq

(* What is put in front of a sequence, or of its tail.                     *)
LEMMA InFront ==
  ASSUME NEW T, NEW w \in Seq(T), NEW ops \in Seq(T), NEW v, v = ops \o w
  PROVE  /\ v \in Seq(T) /\ Len(v) = Len(ops) + Len(w)
         /\ \A i \in 1 .. Len(ops) : v[i] = ops[i]
         /\ \A i \in Len(ops) + 1 .. Len(v) : v[i] = w[i - Len(ops)]
<1>1. v \in Seq(T) /\ Len(v) = Len(ops) + Len(w) BY ConcatProperties
<1>2. \A i \in 1 .. Len(v) : v[i] = IF i <= Len(ops) THEN ops[i] ELSE w[i - Len(ops)]
  BY ConcatProperties
<1>3. Len(ops) \in Nat /\ Len(w) \in Nat BY SeqIs
<1> QED BY <1>1, <1>2, <1>3

LEMMA TailIs ==
  ASSUME NEW T, NEW w \in Seq(T), w # <<>>
  PROVE  /\ Tail(w) \in Seq(T) /\ Len(Tail(w)) = Len(w) - 1 /\ Len(w) > 0
         /\ \A i \in 1 .. Len(w) - 1 : Tail(w)[i] = w[i + 1]
         /\ Head(w) = w[1] /\ w[1] \in T
<1>1. Len(w) \in Nat /\ Len(w) > 0 BY EmptySeq, LenProperties
<1>2. /\ Tail(w) \in Seq(T) /\ Len(Tail(w)) = Len(w) - 1
      /\ \A i \in 1 .. Len(Tail(w)) : Tail(w)[i] = w[i + 1]
  BY HeadTailProperties
<1>3. Head(w) = w[1] BY DEF Head
<1>4. w[1] \in T BY <1>1, ElementOfSeq
<1> QED BY <1>1, <1>2, <1>3, <1>4
-----------------------------------------------------------------------------
(* The entries of work.                                                    *)
Value == {<<"object", o>> : o \in Object} \cup {<<"slot", x, f>> : x \in Object, f \in Field}
         \cup {<<"variable", v>> : v \in Variable} \cup {<<"nothing">>}
Op == [op : {"create", "destroy", "unlink"}, obj : Object]
      \cup [op : {"store"}, at : Place, obj : Object \cup {Null}]
      \cup [op : {"assign", "link"}, slot : Object \X Field, obj : Object]
      \cup [op : {"unref"}, obj : Object, block : Block \cup {0}]
      \cup [op : {"sweep"}, block : Block, ret : SUBSET Object]
      \cup [op : {"pop"}, ret : SUBSET Object]
      \cup [op : {"return"}, ret : SUBSET Object, value : Value]
      \cup [op : {"unwind"}, arg : Object \cup {Null}]
      \cup [op : {"deref", "globals"}]

First(op) == work # <<>> /\ work[1].op = op
Last == work[Len(work)]
Ends(op) == work # <<>> /\ Last.op = op
Given(o) == IF First("unref") /\ work[1].obj = o THEN 1 ELSE 0
Creates(o) == First("create") /\ work[1].obj = o
Unlinks(o) == \E i \in 1 .. Len(work) : work[i].op = "unlink" /\ work[i].obj = o
Holding(o) == {p \in Place : var[p] = o}

(* A count is what holds the object, what is about to give it up and what  *)
(* calls that did not start left.                                          *)
CountIs(o) ==
  n_shares[o] = Cardinality(Holding(o)) + Cardinality(Slots(o)) + Given(o) + stray[o]
CountsAre == \A o \in Object : CountIs(o)

(* An object is free, loose, held, a temporary or being destroyed.         *)
KindIs(o) ==
  /\ o \notin live => created[o] = 0 /\ \A f \in Field : field[o][f] = Null
  /\ created[o] = 0 => n_shares[o] = 0 /\ home[o] = 0
  /\ home[o] # 0 => n_shares[o] = 0
  /\ o \in Dying => created[o] # 0 /\ n_shares[o] = 0 /\ home[o] = 0
  /\ created[o] # 0 /\ n_shares[o] = 0 => home[o] # 0 \/ o \in Dying
  /\ Creates(o) => o \in live /\ created[o] = 0
  /\ o \in live /\ created[o] = 0 => Creates(o) \/ (Ends("return") /\ Last.value = <<"object", o>>)
KindsAre == \A o \in Object : KindIs(o)

(* The map has what slots refer to, and what is being unlinked.            *)
InMap(o) == /\ Slots(o) # {} => o \in cyclic
            /\ o \in cyclic => Slots(o) # {} \/ Unlinks(o)
MapIs == \A o \in Object : InMap(o)

(* The order of entries: creating and giving up come first, a statement    *)
(* ends with a sweep, the end of a block, a return or the unwinding.       *)
EntryIs(e, i) ==
  /\ i > 1 => e.op \notin {"create", "unref"}
  /\ i = Len(work) => e.op \in {"sweep", "pop", "return", "unwind"}
  /\ e.op \in {"return", "unwind"} => i = Len(work)
  /\ e.op \in {"pop", "sweep"} =>
       \/ i = Len(work) /\ e.ret = {}
       \/ i = Len(work) - 1 /\ Ends("return") /\ e.ret = Last.ret
       \/ i = Len(work) - 1 /\ Ends("unwind") /\ e.ret = {}
  /\ e.op = "store" => Ends("sweep") /\ Last.block = depth /\ e.at[1] <= depth
  /\ e.op \in {"assign", "link"} => i = Len(work) - 1 /\ Ends("sweep") /\ Last.block = depth
  /\ e.op = "link" => field[e.slot[1]][e.slot[2]] = Null
  /\ e.op \in {"unlink", "deref", "globals"} => Ends("sweep") /\ Last.block = 1
  /\ e.op = "unref" => e.block = 0 \/ (Ends("sweep") /\ Last.block = e.block)
  /\ e.op = "create" =>
       \/ Ends("sweep") /\ Last.block = depth
       \/ Len(work) = 2 /\ Ends("return") /\ depth >= base
       \/ Len(work) = 2 /\ Ends("unwind")
  /\ e.op = "pop" => \/ i = Len(work) /\ depth > base
                     \/ Ends("return") /\ depth >= base
                     \/ Ends("unwind") /\ depth > 1
  /\ e.op = "return" =>
       /\ frames # <<>> /\ depth >= base - 1
       /\ e.value[1] = "object" => e.ret = {e.value[2]}
       /\ e.value[1] # "object" => e.ret = {}
WorkAre ==
  /\ work \in Seq(Op)
  /\ \A i \in 1 .. Len(work) : EntryIs(work[i], i)
  /\ \A i, j \in 1 .. Len(work) :
       work[i].op = "destroy" /\ work[j].op = "destroy" /\ work[i].obj = work[j].obj => i = j

(* Temporaries wait for a sweep that comes.                                *)
SweepWaits == Len(work) > 1 /\ work[Len(work) - 1].op = "sweep"
PoolsAre ==
  \A o \in Object : home[o] # 0 =>
    \/ Ends("sweep") /\ home[o] = Last.block
    \/ /\ Ends("return") \/ Ends("unwind")
       /\ IF SweepWaits THEN home[o] = work[Len(work) - 1].block
          ELSE home[o] = depth /\ (Ends("return") => depth >= base)

(* Blocks belong to functions, a result goes to a block of the caller, and *)
(* blocks that were left are empty.                                        *)
FramesAre ==
  \A i \in 1 .. Len(frames) :
    /\ frames[i].base > 1
    /\ frames[i].to # Null => frames[i].to[1] < frames[i].base
    /\ \A j \in 1 .. i - 1 : frames[j].base < frames[i].base
DepthIs ==
  /\ work = <<>> \/ Ends("sweep") \/ Ends("pop") => depth >= base
  /\ \A p \in Place : p[1] > depth => var[p] = Null

IInv == /\ TypeOK /\ WorkAre /\ CountsAre /\ KindsAre /\ MapIs /\ PoolsAre /\ FramesAre /\ DepthIs
-----------------------------------------------------------------------------
(* The entries, one by one.                                                *)
LEMMA OpIs ==
  ASSUME NEW e \in Op
  PROVE  /\ e.op \in {"create", "destroy", "unlink", "store", "assign", "link", "unref", "sweep",
                      "pop", "return", "unwind", "deref", "globals"}
         /\ e.op \in {"create", "destroy", "unlink", "assign", "link", "unref"} => e.obj \in Object
         /\ e.op = "store" => e.at \in Place /\ e.obj \in Object \cup {Null}
         /\ e.op \in {"assign", "link"} => e.slot \in Object \X Field
         /\ e.op = "unref" => e.block \in Block \cup {0}
         /\ e.op = "sweep" => e.block \in Block
         /\ e.op \in {"sweep", "pop", "return"} => e.ret \subseteq Object
         /\ e.op = "return" => e.value \in Value
         /\ e.op = "unwind" => e.arg \in Object \cup {Null}
BY DEF Op

LEMMA ValueIs ==
  ASSUME NEW v \in Value
  PROVE  /\ v[1] \in {"object", "slot", "variable", "nothing"}
         /\ v[1] = "object" => v = <<"object", v[2]>> /\ v[2] \in Object
         /\ v[1] = "slot" => v[2] \in Object /\ v[3] \in Field
         /\ v[1] = "variable" => v[2] \in Variable
BY DEF Value

LEMMA ObjectOps ==
  \A o \in Object :
    /\ Create(o) \in Op /\ Create(o).op = "create" /\ Create(o).obj = o
    /\ Destroy(o) \in Op /\ Destroy(o).op = "destroy" /\ Destroy(o).obj = o
    /\ Unlink(o) \in Op /\ Unlink(o).op = "unlink" /\ Unlink(o).obj = o
    /\ \A b \in Block \cup {0} :
         /\ Unref(o, b) \in Op /\ Unref(o, b).op = "unref"
         /\ Unref(o, b).obj = o /\ Unref(o, b).block = b
BY DEF Create, Destroy, Unlink, Unref, Op

LEMMA SlotOps ==
  \A x \in Object, f \in Field, o \in Object :
    /\ Assign(x, f, o) \in Op /\ Assign(x, f, o).op = "assign"
    /\ Assign(x, f, o).slot = <<x, f>> /\ Assign(x, f, o).obj = o
    /\ Link(x, f, o) \in Op /\ Link(x, f, o).op = "link"
    /\ Link(x, f, o).slot = <<x, f>> /\ Link(x, f, o).obj = o
BY DEF Assign, Link, Op

LEMMA StoreOps ==
  \A p \in Place, o \in Object \cup {Null} :
    Store(p, o) \in Op /\ Store(p, o).op = "store" /\ Store(p, o).at = p /\ Store(p, o).obj = o
BY DEF Store, Op

LEMMA BlockOps ==
  ASSUME NEW ret, ret \subseteq Object
  PROVE  /\ PopScope(ret) \in Op /\ PopScope(ret).op = "pop" /\ PopScope(ret).ret = ret
         /\ \A b \in Block : /\ Sweep(b, ret) \in Op /\ Sweep(b, ret).op = "sweep"
                             /\ Sweep(b, ret).block = b /\ Sweep(b, ret).ret = ret
         /\ \A v \in Value : /\ Return(ret, v) \in Op /\ Return(ret, v).op = "return"
                             /\ Return(ret, v).ret = ret /\ Return(ret, v).value = v
BY DEF PopScope, Sweep, Return, Op

LEMMA OtherOps ==
  /\ \A o \in Object \cup {Null} :
       Unwind(o) \in Op /\ Unwind(o).op = "unwind" /\ Unwind(o).arg = o
  /\ Deref \in Op /\ Deref.op = "deref"
  /\ Globals \in Op /\ Globals.op = "globals"
BY DEF Unwind, Deref, Globals, Op

(* work after ops were put in front of it, or of all of it but the first.  *)
After(ops, d) ==
  /\ work' \in Seq(Op) /\ Len(work') = Len(ops) + Len(work) - d
  /\ \A i \in 1 .. Len(ops) : work'[i] = ops[i]
  /\ \A i \in Len(ops) + 1 .. Len(work') : work'[i] = work[i - Len(ops) + d]

LEMMA PushedIs == ASSUME work \in Seq(Op), NEW ops \in Seq(Op), work' = ops \o work PROVE After(ops, 0)
<1>1. PICK v : v = ops \o work OBVIOUS
<1>2. /\ v \in Seq(Op) /\ Len(v) = Len(ops) + Len(work)
      /\ \A i \in 1 .. Len(ops) : v[i] = ops[i]
      /\ \A i \in Len(ops) + 1 .. Len(v) : v[i] = work[i - Len(ops)]
  BY <1>1, InFront
<1>3. Len(work) \in Nat /\ Len(ops) \in Nat BY SeqIs
<1>4. work' = v BY <1>1
<1>5. \A i \in Len(ops) + 1 .. Len(v) : v[i] = work[i - Len(ops) + 0] BY <1>2, <1>3
<1> QED BY <1>2, <1>3, <1>4, <1>5 DEF After

LEMMA ThenIs ==
  ASSUME work \in Seq(Op), work # <<>>, NEW ops \in Seq(Op), Then(ops)
  PROVE  After(ops, 1) /\ work[1] \in Op /\ Current = work[1] /\ Len(work) > 0
<1>1. PICK t : t = Tail(work) OBVIOUS
<1>2. /\ t \in Seq(Op) /\ Len(t) = Len(work) - 1 /\ Len(work) > 0
      /\ \A i \in 1 .. Len(work) - 1 : t[i] = work[i + 1]
      /\ Head(work) = work[1] /\ work[1] \in Op
  BY <1>1, TailIs
<1>3. PICK v : v = ops \o t OBVIOUS
<1>4. /\ v \in Seq(Op) /\ Len(v) = Len(ops) + Len(t)
      /\ \A i \in 1 .. Len(ops) : v[i] = ops[i]
      /\ \A i \in Len(ops) + 1 .. Len(v) : v[i] = t[i - Len(ops)]
  <2>1. t \in Seq(Op) BY <1>2
  <2> QED BY <1>3, <2>1, InFront
<1>5. Len(work) \in Nat /\ Len(ops) \in Nat BY SeqIs
<1>6. Len(v) = Len(ops) + Len(work) - 1 BY <1>2, <1>4, <1>5
<1>7. \A i \in Len(ops) + 1 .. Len(v) : v[i] = work[i - Len(ops) + 1]
  <2> TAKE i \in Len(ops) + 1 .. Len(v)
  <2>1. i - Len(ops) \in 1 .. Len(work) - 1 BY <1>5, <1>6
  <2> QED BY <1>2, <1>4, <2>1
<1>8. work' = v BY <1>1, <1>3 DEF Then
<1> QED BY <1>2, <1>4, <1>6, <1>7, <1>8 DEF After, Current
-----------------------------------------------------------------------------
(* What variables and slots hold, counted.                                 *)
LEMMA PlacesFinite == IsFiniteSet(Place) /\ IsFiniteSet(Object \X Field) /\ IsFiniteSet(Object)
<1>1. IsFiniteSet(Object) /\ IsFiniteSet(Field) /\ IsFiniteSet(Variable) BY FiniteAssumption
<1>2. IsFiniteSet(Block) BY DepthAssumption, FS_Interval DEF Block
<1>3. IsFiniteSet(Object \X Field) BY <1>1, FS_Product
<1>4. IsFiniteSet(Block \X Variable) BY <1>1, <1>2, FS_Product
<1> QED BY <1>1, <1>3, <1>4 DEF Place

LEMMA StrayIs == ASSUME IInv, NEW o \in Object PROVE stray[o] \in Nat
BY DEF IInv, TypeOK

LEMMA HoldersCounted ==
  ASSUME NEW o
  PROVE  /\ IsFiniteSet(Holding(o)) /\ Cardinality(Holding(o)) \in Nat
         /\ IsFiniteSet(Slots(o)) /\ Cardinality(Slots(o)) \in Nat
         /\ Cardinality(Holding(o)) = 0 <=> \A p \in Place : var[p] # o
         /\ Cardinality(Slots(o)) = 0 <=> Slots(o) = {}
<1>1. Holding(o) \subseteq Place /\ Slots(o) \subseteq Object \X Field BY DEF Holding, Slots
<1>2. IsFiniteSet(Holding(o)) /\ IsFiniteSet(Slots(o)) BY <1>1, PlacesFinite, FS_Subset
<1>3. Cardinality(Holding(o)) \in Nat /\ Cardinality(Slots(o)) \in Nat BY <1>2, FS_CardinalityType
<1>4. /\ Cardinality(Holding(o)) = 0 <=> Holding(o) = {}
      /\ Cardinality(Slots(o)) = 0 <=> Slots(o) = {}
  BY <1>2, FS_EmptySet
<1>5. Holding(o) = {} <=> \A p \in Place : var[p] # o BY DEF Holding
<1> QED BY <1>2, <1>3, <1>4, <1>5

(* One variable takes another object.                                      *)
LEMMA VarSet ==
  ASSUME var \in [Place -> Object \cup {Null}], NEW p \in Place, NEW b \in Object \cup {Null},
         b # var[p], var' = [var EXCEPT ![p] = b]
  PROVE  /\ var' \in [Place -> Object \cup {Null}] /\ var'[p] = b
         /\ \A q \in Place : q # p => var'[q] = var[q]
         /\ \A o \in Object :
              Cardinality(Holding(o)') = IF o = b THEN Cardinality(Holding(o)) + 1
                                         ELSE IF o = var[p] THEN Cardinality(Holding(o)) - 1
                                         ELSE Cardinality(Holding(o))
<1>1. /\ var' \in [Place -> Object \cup {Null}] /\ var'[p] = b
      /\ \A q \in Place : q # p => var'[q] = var[q]
  OBVIOUS
<1>2. ASSUME NEW o \in Object
      PROVE  Cardinality(Holding(o)') = IF o = b THEN Cardinality(Holding(o)) + 1
                                        ELSE IF o = var[p] THEN Cardinality(Holding(o)) - 1
                                        ELSE Cardinality(Holding(o))
  <2>1. CASE o = b
    <3>1. Holding(o)' = Holding(o) \cup {p} /\ p \notin Holding(o) BY <1>1, <2>1 DEF Holding
    <3> QED BY <2>1, <3>1, HoldersCounted, OneMore
  <2>2. CASE o = var[p]
    <3>1. Holding(o)' = Holding(o) \ {p} /\ p \in Holding(o) BY <1>1, <2>2 DEF Holding
    <3> QED BY <2>2, <3>1, HoldersCounted, OneFewer
  <2>3. CASE o # b /\ o # var[p]
    <3>1. Holding(o)' = Holding(o) BY <1>1, <2>3 DEF Holding
    <3> QED BY <2>3, <3>1
  <2> QED BY <2>1, <2>2, <2>3
<1> QED BY <1>1, <1>2

(* One field takes another object, or none.                                *)
LEMMA FieldChanged ==
  ASSUME field \in [Object -> [Field -> Object \cup {Null}]],
         NEW x \in Object, NEW f \in Field, NEW b \in Object \cup {Null},
         field' = [field EXCEPT ![x] = [field[x] EXCEPT ![f] = b]]
  PROVE  /\ field' \in [Object -> [Field -> Object \cup {Null}]] /\ field'[x][f] = b
         /\ \A y \in Object, g \in Field : <<y, g>> # <<x, f>> => field'[y][g] = field[y][g]
<1>1. field'[x] = [field[x] EXCEPT ![f] = b] /\ \A y \in Object : y # x => field'[y] = field[y] OBVIOUS
<1>2. field[x] \in [Field -> Object \cup {Null}] OBVIOUS
<1> QED BY <1>1, <1>2

LEMMA FieldSet ==
  ASSUME field \in [Object -> [Field -> Object \cup {Null}]],
         NEW x \in Object, NEW f \in Field, NEW b \in Object \cup {Null}, b # field[x][f],
         field'[x][f] = b,
         \A y \in Object, g \in Field : <<y, g>> # <<x, f>> => field'[y][g] = field[y][g]
  PROVE  \A o \in Object :
              /\ Slots(o)' = IF o = b THEN Slots(o) \cup {<<x, f>>} ELSE Slots(o) \ {<<x, f>>}
              /\ o # field[x][f] /\ o # b => Slots(o)' = Slots(o)
              /\ Cardinality(Slots(o)') = IF o = b THEN Cardinality(Slots(o)) + 1
                                          ELSE IF o = field[x][f] THEN Cardinality(Slots(o)) - 1
                                          ELSE Cardinality(Slots(o))
<1>1. /\ field'[x][f] = b
      /\ \A y \in Object, g \in Field : <<y, g>> # <<x, f>> => field'[y][g] = field[y][g]
  OBVIOUS
<1>2. ASSUME NEW o \in Object
      PROVE  /\ Slots(o)' = IF o = b THEN Slots(o) \cup {<<x, f>>} ELSE Slots(o) \ {<<x, f>>}
             /\ o # field[x][f] /\ o # b => Slots(o)' = Slots(o)
             /\ Cardinality(Slots(o)') = IF o = b THEN Cardinality(Slots(o)) + 1
                                         ELSE IF o = field[x][f] THEN Cardinality(Slots(o)) - 1
                                         ELSE Cardinality(Slots(o))
  <2>1. \A y \in Object, g \in Field : <<y, g>> \in Slots(o) <=> field[y][g] = o BY DEF Slots
  <2>2. \A y \in Object, g \in Field : <<y, g>> \in Slots(o)' <=> field'[y][g] = o BY DEF Slots
  <2>3. Slots(o) \subseteq Object \X Field /\ Slots(o)' \subseteq Object \X Field BY DEF Slots
  <2>4. CASE o = b
    <3>1. Slots(o)' = Slots(o) \cup {<<x, f>>} /\ <<x, f>> \notin Slots(o)
      BY <1>1, <2>1, <2>2, <2>3, <2>4
    <3> QED BY <2>4, <3>1, HoldersCounted, OneMore
  <2>5. CASE o = field[x][f]
    <3>1. Slots(o)' = Slots(o) \ {<<x, f>>} /\ <<x, f>> \in Slots(o)
      BY <1>1, <2>1, <2>2, <2>3, <2>5
    <3> QED BY <2>5, <3>1, HoldersCounted, OneFewer
  <2>6. CASE o # b /\ o # field[x][f]
    <3>1. ASSUME NEW y \in Object, NEW g \in Field PROVE field'[y][g] = o <=> field[y][g] = o
      <4>1. CASE <<y, g>> = <<x, f>> BY <1>1, <2>6, <4>1
      <4>2. CASE <<y, g>> # <<x, f>> BY <1>1, <4>2
      <4> QED BY <4>1, <4>2
    <3>2. \A s \in Object \X Field : s \in Slots(o)' <=> s \in Slots(o)
      <4>1. \A s \in Object \X Field : s \in Slots(o) <=> field[s[1]][s[2]] = o BY DEF Slots
      <4>2. \A s \in Object \X Field : s \in Slots(o)' <=> field'[s[1]][s[2]] = o BY DEF Slots
      <4>3. \A s \in Object \X Field : s[1] \in Object /\ s[2] \in Field OBVIOUS
      <4> QED BY <3>1, <4>1, <4>2, <4>3
    <3>4. Slots(o)' = Slots(o) BY <2>3, <3>2
    <3>3. <<x, f>> \notin Slots(o) BY <2>1, <2>6
    <3> QED BY <2>6, <3>3, <3>4
  <2> QED BY <2>4, <2>5, <2>6
<1> QED BY <1>2
-----------------------------------------------------------------------------
(* What stays in work when something is put in front.                      *)
Has(op, o) == \E i \in 1 .. Len(work) : work[i].op = op /\ work[i].obj = o

LEMMA DyingHas ==
  /\ \A o : o \in Dying <=> Has("destroy", o)
  /\ \A o : Unlinks(o) <=> Has("unlink", o)
BY DEF Dying, Pending, Has, Unlinks

LEMMA DyingHasAfter == (\A o : o \in Dying <=> Has("destroy", o))'
<1>1. \A o : o \in Dying <=> Has("destroy", o) BY DyingHas
<1> QED BY <1>1, PTL

LEMMA HasAfter ==
  ASSUME work \in Seq(Op), NEW ops \in Seq(Op), NEW d \in {0, 1}, d <= Len(work), After(ops, d),
         NEW op, NEW o
  PROVE  Has(op, o)' <=> \/ \E i \in 1 .. Len(ops) : ops[i].op = op /\ ops[i].obj = o
                         \/ \E i \in 1 + d .. Len(work) : work[i].op = op /\ work[i].obj = o
<1>1. Len(work) \in Nat /\ Len(ops) \in Nat BY SeqIs
<1>2. /\ Len(work') = Len(ops) + Len(work) - d
      /\ \A i \in 1 .. Len(ops) : work'[i] = ops[i]
      /\ \A i \in Len(ops) + 1 .. Len(work') : work'[i] = work[i - Len(ops) + d]
  BY DEF After
<1>3. Has(op, o)' <=> \E i \in 1 .. Len(work') : work'[i].op = op /\ work'[i].obj = o BY DEF Has
<1>4. ASSUME NEW i \in 1 .. Len(work'), work'[i].op = op, work'[i].obj = o
      PROVE  \/ \E k \in 1 .. Len(ops) : ops[k].op = op /\ ops[k].obj = o
             \/ \E k \in 1 + d .. Len(work) : work[k].op = op /\ work[k].obj = o
  <2>1. CASE i <= Len(ops)
    <3>1. i \in 1 .. Len(ops) BY <1>1, <2>1
    <3> QED BY <1>2, <1>4, <3>1
  <2>2. CASE i > Len(ops)
    <3>1. i \in Len(ops) + 1 .. Len(work') /\ i - Len(ops) + d \in 1 + d .. Len(work) BY <1>1, <1>2, <2>2
    <3>2. PICK k \in 1 + d .. Len(work) : k = i - Len(ops) + d BY <3>1
    <3>3. work'[i] = work[k] BY <1>2, <3>1, <3>2
    <3> QED BY <1>4, <3>3
  <2> QED BY <1>1, <2>1, <2>2
<1>5. ASSUME NEW k \in 1 .. Len(ops), ops[k].op = op, ops[k].obj = o PROVE Has(op, o)'
  <2>1. k \in 1 .. Len(work') BY <1>1, <1>2
  <2> QED BY <1>2, <1>3, <1>5, <2>1
<1>6. ASSUME NEW k \in 1 + d .. Len(work), work[k].op = op, work[k].obj = o PROVE Has(op, o)'
  <2>0. k + Len(ops) - d \in Len(ops) + 1 .. Len(work')
    <3>1. k \in Nat /\ k >= 1 + d /\ k <= Len(work) BY <1>1
    <3> HIDE DEF After
    <3> QED BY <1>1, <1>2, <3>1
  <2>1. PICK i \in Len(ops) + 1 .. Len(work') : i = k + Len(ops) - d BY <2>0
  <2>2. i - Len(ops) + d = k /\ i \in 1 .. Len(work') BY <1>1, <1>2, <2>1
  <2>3. work'[i] = work[k] BY <1>2, <2>1, <2>2
  <2> QED BY <1>3, <1>6, <2>2, <2>3
<1> QED BY <1>3, <1>4, <1>5, <1>6

(* The entry in front.                                                     *)
LEMMA FrontAfter ==
  ASSUME WorkAre, NEW ops \in Seq(Op), NEW d \in {0, 1}, d <= Len(work), After(ops, d),
         d = 0 => ops # <<>>, NEW o
  PROVE  /\ Given(o)' = IF ops # <<>> /\ ops[1].op = "unref" /\ ops[1].obj = o THEN 1 ELSE 0
         /\ Creates(o)' <=> ops # <<>> /\ ops[1].op = "create" /\ ops[1].obj = o
<1>1. Len(work) \in Nat /\ Len(ops) \in Nat /\ work \in Seq(Op) BY SeqIs DEF WorkAre
<1>2. /\ Len(work') = Len(ops) + Len(work) - d
      /\ \A i \in 1 .. Len(ops) : work'[i] = ops[i]
      /\ \A i \in Len(ops) + 1 .. Len(work') : work'[i] = work[i - Len(ops) + d]
      /\ work' \in Seq(Op)
  BY DEF After
<1>3. (work' # <<>> <=> Len(work') > 0) /\ (ops # <<>> <=> Len(ops) > 0) BY <1>2, EmptySeq, SeqIs
<1>4. CASE ops # <<>>
  <2>1. work'[1] = ops[1] /\ work' # <<>> BY <1>1, <1>2, <1>3, <1>4
  <2> QED BY <1>4, <2>1 DEF Given, Creates, First
<1>5. CASE ops = <<>> /\ Len(work) > 1
  <2>1. Len(ops) = 0 /\ d = 1 BY <1>1, <1>3, <1>5
  <2>2. work'[1] = work[2] BY <1>1, <1>2, <1>5, <2>1
  <2>3. work[2].op \notin {"create", "unref"} BY <1>1, <1>5 DEF WorkAre, EntryIs
  <2> QED BY <1>5, <2>2, <2>3 DEF Given, Creates, First
<1>6. CASE ops = <<>> /\ ~ (Len(work) > 1)
  <2>1. Len(work') = 0 BY <1>1, <1>2, <1>3, <1>6
  <2>2. work' = <<>> BY <1>2, <1>3, <2>1
  <2> QED BY <1>6, <2>2 DEF Given, Creates, First
<1> QED BY <1>4, <1>5, <1>6

(* The last entry, and those that stay.                                    *)
LEMMA LastAfter ==
  ASSUME work \in Seq(Op), NEW ops \in Seq(Op), NEW d \in {0, 1}, d < Len(work), After(ops, d)
  PROVE  /\ work' # <<>> /\ Last' = Last
         /\ \A op : Ends(op)' <=> Ends(op)
         /\ work # <<>> /\ Len(work') > Len(ops)
<1>1. Len(work) \in Nat /\ Len(ops) \in Nat BY SeqIs
<1>2. /\ Len(work') = Len(ops) + Len(work) - d
      /\ \A i \in Len(ops) + 1 .. Len(work') : work'[i] = work[i - Len(ops) + d]
      /\ work' \in Seq(Op)
  BY DEF After
<1>3. Len(work') \in Len(ops) + 1 .. Len(work') /\ Len(work') - Len(ops) + d = Len(work) BY <1>1, <1>2
<1>4. Last' = Last BY <1>2, <1>3 DEF Last
<1>5. work' # <<>> /\ work # <<>> BY <1>1, <1>2, <1>3, EmptySeq
<1>6. Len(work') > Len(ops) BY <1>1, <1>2
<1> QED BY <1>4, <1>5, <1>6 DEF Ends

LEMMA KeptAfter ==
  ASSUME WorkAre, NEW ops \in Seq(Op), NEW d \in {0, 1}, d < Len(work), After(ops, d),
         d = 0 => ops # <<>> /\ work[1].op \notin {"create", "unref"},
         depth' = depth, frames' = frames,
         \A i \in 1 + d .. Len(work) :
           work[i].op = "link" => field'[work[i].slot[1]][work[i].slot[2]] = Null,
         NEW i \in Len(ops) + 1 .. Len(work')
  PROVE  EntryIs(work[i], i)'
<1>1. Len(work) \in Nat /\ Len(ops) \in Nat /\ work \in Seq(Op) BY SeqIs DEF WorkAre
<1>2. /\ Len(work') = Len(ops) + Len(work) - d
      /\ work'[i] = work[i - Len(ops) + d]
  BY DEF After
<1>3. PICK j \in 1 + d .. Len(work) : j = i - Len(ops) + d BY <1>1, <1>2
<1>4. EntryIs(work[j], j) /\ work'[i] = work[j] BY <1>1, <1>2, <1>3 DEF WorkAre
<1>5. /\ Last' = Last /\ \A op : Ends(op)' <=> Ends(op)
  BY <1>1, LastAfter
<1>6. /\ i = Len(work') <=> j = Len(work)
      /\ i = Len(work') - 1 <=> j = Len(work) - 1
      /\ i > 1 /\ j = 1 => d = 0
  BY <1>1, <1>2, <1>3
<1>7. work[j].op \notin {"create", "unref"}
  <2>1. CASE j = 1
    <3>1. d = 0 BY <1>3, <2>1
    <3> QED BY <2>1, <3>1
  <2>2. CASE j > 1 BY <1>4, <2>2 DEF EntryIs
  <2> QED BY <1>1, <1>3, <2>1, <2>2
<1>8. base' = base BY DEF base
<1>9. work[j].op = "link" => field'[work[j].slot[1]][work[j].slot[2]] = Null OBVIOUS
<1>10. PICK e : e = work[j] OBVIOUS
<1>11. EntryIs(e, i)'
  <2>1. EntryIs(e, j) BY <1>4, <1>10
  <2>2. e.op \notin {"create", "unref"} BY <1>7, <1>10
  <2>3. e.op = "link" => field'[e.slot[1]][e.slot[2]] = Null BY <1>9, <1>10
  <2> QED BY <1>5, <1>6, <1>8, <2>1, <2>2, <2>3 DEF EntryIs
<1> QED BY <1>4, <1>10, <1>11
-----------------------------------------------------------------------------
(* Short lists of operations.                                              *)
LEMMA NoOps == <<>> \in Seq(Op) /\ Len(<<>>) = 0
OBVIOUS

LEMMA OneOp ==
  ASSUME NEW a \in Op
  PROVE  <<a>> \in Seq(Op) /\ Len(<<a>>) = 1 /\ <<a>>[1] = a /\ <<a>> # <<>>
OBVIOUS

LEMMA TwoOps ==
  ASSUME NEW a \in Op, NEW b \in Op
  PROVE  /\ <<a, b>> \in Seq(Op) /\ Len(<<a, b>>) = 2 /\ <<a, b>> # <<>>
         /\ <<a, b>>[1] = a /\ <<a, b>>[2] = b
OBVIOUS

LEMMA ThreeOps ==
  ASSUME NEW a \in Op, NEW b \in Op, NEW c \in Op
  PROVE  /\ <<a, b, c>> \in Seq(Op) /\ Len(<<a, b, c>>) = 3 /\ <<a, b, c>> # <<>>
         /\ <<a, b, c>>[1] = a /\ <<a, b, c>>[2] = b /\ <<a, b, c>>[3] = c
OBVIOUS

(* What the invariant reads of work, after ops took the place of its first *)
(* d entries and something of it stays.                                    *)
Lists(ops, op, o) == \E i \in 1 .. Len(ops) : ops[i].op = op /\ ops[i].obj = o
Drops(d, op, o) == d = 1 /\ work[1].op = op /\ work[1].obj = o
Stays(ops, d) ==
  /\ \A o : Given(o)' = IF ops # <<>> /\ ops[1].op = "unref" /\ ops[1].obj = o THEN 1 ELSE 0
  /\ \A o : Creates(o)' <=> ops # <<>> /\ ops[1].op = "create" /\ ops[1].obj = o
  /\ \A o : o \in Dying' <=> Lists(ops, "destroy", o) \/ (o \in Dying /\ ~Drops(d, "destroy", o))
  /\ \A o : Unlinks(o) /\ ~Drops(d, "unlink", o) => Unlinks(o)'
  /\ work' # <<>> /\ Last' = Last /\ \A op : Ends(op)' <=> Ends(op)

LEMMA WorkStays ==
  ASSUME WorkAre, NEW ops \in Seq(Op), NEW d \in {0, 1}, d < Len(work), After(ops, d),
         d = 0 => ops # <<>>
  PROVE  Stays(ops, d)
<1>1. Len(work) \in Nat /\ work \in Seq(Op) BY SeqIs DEF WorkAre
<1>2. d <= Len(work) BY <1>1
<1>3. ASSUME NEW op, NEW o
      PROVE  Has(op, o)' <=> Lists(ops, op, o) \/ \E i \in 1 + d .. Len(work) : work[i].op = op /\ work[i].obj = o
  BY <1>1, <1>2, HasAfter DEF Lists
<1>4. \A o : Given(o)' = IF ops # <<>> /\ ops[1].op = "unref" /\ ops[1].obj = o THEN 1 ELSE 0
  BY <1>2, FrontAfter
<1>5. \A o : Creates(o)' <=> ops # <<>> /\ ops[1].op = "create" /\ ops[1].obj = o
  BY <1>2, FrontAfter
<1>6. ASSUME NEW o PROVE o \in Dying' <=> Lists(ops, "destroy", o) \/ (o \in Dying /\ ~Drops(d, "destroy", o))
  <2>1. o \in Dying <=> \E i \in 1 .. Len(work) : work[i].op = "destroy" /\ work[i].obj = o
    BY DyingHas DEF Has
  <2>2. (\E i \in 1 + d .. Len(work) : work[i].op = "destroy" /\ work[i].obj = o)
        <=> o \in Dying /\ ~Drops(d, "destroy", o)
    <3>1. CASE d = 0 BY <2>1, <3>1 DEF Drops
    <3>2. CASE d = 1
      <4>1. ASSUME NEW i \in 2 .. Len(work), work[i].op = "destroy", work[i].obj = o, work[1].op = "destroy"
            PROVE  work[1].obj # o
        <5>1. 1 \in 1 .. Len(work) /\ i \in 1 .. Len(work) /\ i # 1 BY <1>1, <4>1
        <5> QED BY <4>1, <5>1 DEF WorkAre
      <4>2. \A i \in 1 .. Len(work) : i = 1 \/ i \in 2 .. Len(work) BY <1>1
      <4>3. \A i \in 2 .. Len(work) : i \in 1 .. Len(work) BY <1>1
      <4> QED BY <2>1, <3>2, <4>1, <4>2, <4>3 DEF Drops
    <3> QED BY <3>1, <3>2
  <2>3. o \in Dying' <=> Has("destroy", o)' BY DyingHasAfter
  <2> QED BY <1>3, <2>2, <2>3
<1>7. ASSUME NEW o, Unlinks(o), ~Drops(d, "unlink", o) PROVE Unlinks(o)'
  <2>1. PICK i \in 1 .. Len(work) : work[i].op = "unlink" /\ work[i].obj = o BY <1>7 DEF Unlinks
  <2>2. i \in 1 + d .. Len(work)
    <3>1. d = 1 => i # 1 BY <1>7, <2>1 DEF Drops
    <3> QED BY <1>1, <3>1
  <2>3. Has("unlink", o)' BY <1>3, <2>1, <2>2
  <2>4. Unlinks(o)' <=> Has("unlink", o)' BY DEF Unlinks, Has
  <2> QED BY <2>3, <2>4
<1>8. work' # <<>> /\ Last' = Last /\ \A op : Ends(op)' <=> Ends(op) BY <1>1, LastAfter
<1> QED BY <1>4, <1>5, <1>6, <1>7, <1>8 DEF Stays

(* The order of entries is kept if the new ones have theirs.               *)
Single(ops) ==
  \A i, j \in 1 .. Len(ops) : ops[i].op = "destroy" /\ ops[j].op = "destroy" => i = j

LEMMA OrderKept ==
  ASSUME WorkAre, NEW ops \in Seq(Op), NEW d \in {0, 1}, d < Len(work), After(ops, d),
         d = 0 => ops # <<>> /\ work[1].op \notin {"create", "unref"},
         depth' = depth, frames' = frames,
         \A i \in 1 + d .. Len(work) :
           work[i].op = "link" => field'[work[i].slot[1]][work[i].slot[2]] = Null,
         \A i \in 1 .. Len(ops) : EntryIs(ops[i], i)',
         Single(ops), \A i \in 1 .. Len(ops) : ops[i].op = "destroy" => ops[i].obj \notin Dying
  PROVE  WorkAre'
<1>1. Len(work) \in Nat /\ Len(ops) \in Nat /\ work \in Seq(Op) BY SeqIs DEF WorkAre
<1>2. /\ work' \in Seq(Op) /\ Len(work') = Len(ops) + Len(work) - d
      /\ \A i \in 1 .. Len(ops) : work'[i] = ops[i]
      /\ \A i \in Len(ops) + 1 .. Len(work') : work'[i] = work[i - Len(ops) + d]
  BY DEF After
<1>3. ASSUME NEW i \in 1 .. Len(work') PROVE EntryIs(work[i], i)'
  <2>1. CASE i \in 1 .. Len(ops)
    <3>1. EntryIs(ops[i], i)' BY <2>1
    <3>2. work'[i] = ops[i] BY <1>2, <2>1
    <3> QED BY <3>1, <3>2
  <2>2. CASE i \in Len(ops) + 1 .. Len(work') BY <2>2, KeptAfter
  <2> QED BY <1>1, <1>2, <2>1, <2>2
<1>4. ASSUME NEW i \in 1 .. Len(work'), NEW j \in 1 .. Len(work'),
             work'[i].op = "destroy", work'[j].op = "destroy", work'[i].obj = work'[j].obj
      PROVE  i = j
  <2>1. ASSUME NEW k \in Len(ops) + 1 .. Len(work')
        PROVE  k - Len(ops) + d \in 1 .. Len(work) /\ work'[k] = work[k - Len(ops) + d]
    BY <1>1, <1>2
  <2>2. ASSUME NEW k \in Len(ops) + 1 .. Len(work'), work'[k].op = "destroy" PROVE work'[k].obj \in Dying
    <3>1. PICK m \in 1 .. Len(work) : m = k - Len(ops) + d BY <2>1
    <3>2. work'[k] = work[m] BY <2>1, <3>1
    <3>3. Has("destroy", work'[k].obj) BY <2>2, <3>2 DEF Has
    <3> QED BY <3>3, DyingHas
  <2>3. \A k \in 1 .. Len(work') : k \in 1 .. Len(ops) \/ k \in Len(ops) + 1 .. Len(work') BY <1>1, <1>2
  <2>4. CASE i \in 1 .. Len(ops) /\ j \in 1 .. Len(ops) BY <1>2, <1>4, <2>4 DEF Single
  <2>5. CASE i \in 1 .. Len(ops) /\ j \in Len(ops) + 1 .. Len(work')
    <3>1. work'[i].obj \notin Dying BY <1>2, <1>4, <2>5
    <3> QED BY <1>4, <2>2, <2>5, <3>1
  <2>6. CASE j \in 1 .. Len(ops) /\ i \in Len(ops) + 1 .. Len(work')
    <3>1. work'[j].obj \notin Dying BY <1>2, <1>4, <2>6
    <3> QED BY <1>4, <2>2, <2>6, <3>1
  <2>7. CASE i \in Len(ops) + 1 .. Len(work') /\ j \in Len(ops) + 1 .. Len(work')
    <3>1. PICK k \in 1 .. Len(work) : k = i - Len(ops) + d BY <2>1, <2>7
    <3>2. PICK m \in 1 .. Len(work) : m = j - Len(ops) + d BY <2>1, <2>7
    <3>3. work'[i] = work[k] /\ work'[j] = work[m] BY <2>1, <2>7, <3>1, <3>2
    <3>4. k = m BY <1>4, <3>3 DEF WorkAre
    <3> QED BY <1>1, <3>1, <3>2, <3>4
  <2> QED BY <2>3, <2>4, <2>5, <2>6, <2>7
<1>5. /\ work' \in Seq(Op)' /\ Len(work)' = Len(work') BY <1>2 DEF Op, Value, Place, Block
<1>6. \A i, j \in 1 .. Len(work') :
        work'[i].op = "destroy" /\ work'[j].op = "destroy" /\ work'[i].obj = work'[j].obj => i = j
  BY <1>4
<1> QED BY <1>3, <1>5, <1>6 DEF WorkAre

(* Whether a sweep is all that waits below a return or an unwinding.       *)
LEMMA WaitsKept ==
  ASSUME work \in Seq(Op), NEW ops \in Seq(Op), NEW d \in {0, 1}, d < Len(work), After(ops, d),
         d = 1 => work[1].op # "sweep", \A i \in 1 .. Len(ops) : ops[i].op # "sweep"
  PROVE  /\ SweepWaits' <=> SweepWaits
         /\ SweepWaits => work'[Len(work') - 1] = work[Len(work) - 1]
<1>1. Len(work) \in Nat /\ Len(ops) \in Nat BY SeqIs
<1>2. /\ Len(work') = Len(ops) + Len(work) - d
      /\ \A i \in 1 .. Len(ops) : work'[i] = ops[i]
      /\ \A i \in Len(ops) + 1 .. Len(work') : work'[i] = work[i - Len(ops) + d]
  BY DEF After
<1>3. CASE Len(work) > 1 + d
  <2>1. Len(work') - 1 \in Len(ops) + 1 .. Len(work') /\ Len(work') - 1 - Len(ops) + d = Len(work) - 1
    BY <1>1, <1>2, <1>3
  <2>2. work'[Len(work') - 1] = work[Len(work) - 1] BY <1>2, <2>1
  <2>3. Len(work') > 1 /\ Len(work) > 1 BY <1>1, <1>2, <1>3
  <2> QED BY <2>2, <2>3 DEF SweepWaits
<1>4. CASE Len(work) = 1 + d
  <2>1. ~SweepWaits
    <3>1. CASE d = 0 BY <1>4, <3>1 DEF SweepWaits
    <3>2. CASE d = 1 BY <1>1, <1>4, <3>2 DEF SweepWaits
    <3> QED BY <3>1, <3>2
  <2>2. ~SweepWaits'
    <3>1. SUFFICES ASSUME Len(work') > 1 PROVE work'[Len(work') - 1].op # "sweep" BY DEF SweepWaits
    <3>2. Len(work') - 1 \in 1 .. Len(ops) BY <1>1, <1>2, <1>4, <3>1
    <3> QED BY <1>2, <3>2
  <2> QED BY <2>1, <2>2
<1> QED BY <1>1, <1>3, <1>4

(* The same for what Then and a push do to work.                           *)
LEMMA ThenStays ==
  ASSUME IInv, NEW ops \in Seq(Op), Then(ops), Len(work) > 1
  PROVE  After(ops, 1) /\ Stays(ops, 1)
<1>1. work \in Seq(Op) /\ WorkAre BY DEF IInv, WorkAre
<1>2. Len(work) \in Nat /\ work # <<>> BY <1>1, SeqIs, EmptySeq
<1>3. After(ops, 1) BY <1>1, <1>2, ThenIs
<1>4. PICK d \in {0, 1} : d = 1 OBVIOUS
<1>5. d < Len(work) BY <1>2, <1>4
<1>6. Stays(ops, d) BY <1>1, <1>3, <1>4, <1>5, WorkStays
<1> QED BY <1>3, <1>4, <1>6

LEMMA PushStays ==
  ASSUME IInv, NEW ops \in Seq(Op), work' = ops \o work, Len(work) > 0, ops # <<>>
  PROVE  After(ops, 0) /\ Stays(ops, 0)
<1>1. work \in Seq(Op) /\ WorkAre BY DEF IInv, WorkAre
<1>2. After(ops, 0) BY <1>1, PushedIs
<1>3. PICK d \in {0, 1} : d = 0 OBVIOUS
<1>4. d < Len(work) BY <1>3
<1>5. Stays(ops, d) BY <1>1, <1>2, <1>3, <1>4, WorkStays
<1> QED BY <1>2, <1>3, <1>5

NoLink(d) == \A i \in 1 + d .. Len(work) :
               work[i].op = "link" => field'[work[i].slot[1]][work[i].slot[2]] = Null
Placed(ops) ==
  /\ \A i \in 1 .. Len(ops) : EntryIs(ops[i], i)'
  /\ Single(ops) /\ \A i \in 1 .. Len(ops) : ops[i].op = "destroy" => ops[i].obj \notin Dying

LEMMA ThenOrder ==
  ASSUME IInv, NEW ops \in Seq(Op), Then(ops), Len(work) > 1,
         depth' = depth, frames' = frames, NoLink(1), Placed(ops)
  PROVE  WorkAre'
<1>1. After(ops, 1) BY ThenStays
<1>2. PICK d \in {0, 1} : d = 1 OBVIOUS
<1>3. d < Len(work) /\ NoLink(d) /\ WorkAre BY <1>2 DEF IInv
<1> QED BY <1>1, <1>2, <1>3, OrderKept DEF NoLink, Placed

LEMMA PushOrder ==
  ASSUME IInv, NEW ops \in Seq(Op), work' = ops \o work, Len(work) > 0, ops # <<>>,
         work[1].op \notin {"create", "unref"},
         depth' = depth, frames' = frames, NoLink(0), Placed(ops)
  PROVE  WorkAre'
<1>1. After(ops, 0) BY PushStays
<1>2. PICK d \in {0, 1} : d = 0 OBVIOUS
<1>3. d < Len(work) /\ NoLink(d) /\ WorkAre BY <1>2 DEF IInv
<1> QED BY <1>1, <1>2, <1>3, OrderKept DEF NoLink, Placed

(* Field entries stay as they are, or are emptied.                         *)
LEMMA LinksStay ==
  ASSUME IInv, NEW d \in {0, 1},
         \A x \in Object, f \in Field : field[x][f] = Null => field'[x][f] = Null
  PROVE  NoLink(d)
<1>1. ASSUME NEW i \in 1 + d .. Len(work), work[i].op = "link"
      PROVE  field'[work[i].slot[1]][work[i].slot[2]] = Null
  <2>1. work \in Seq(Op) BY DEF IInv, WorkAre
  <2>2. i \in 1 .. Len(work) BY <2>1, SeqIs
  <2>3. work[i] \in Op /\ EntryIs(work[i], i) BY <2>1, <2>2, SeqIs DEF IInv, WorkAre
  <2>4. work[i].slot \in Object \X Field BY <1>1, <2>3, OpIs
  <2> QED BY <1>1, <2>3, <2>4 DEF EntryIs
<1> QED BY <1>1 DEF NoLink

NoSweep(ops) == \A i \in 1 .. Len(ops) : ops[i].op # "sweep"
SameWait == /\ SweepWaits' <=> SweepWaits
            /\ SweepWaits => work'[Len(work') - 1] = work[Len(work) - 1]

LEMMA ThenWaits ==
  ASSUME IInv, NEW ops \in Seq(Op), Then(ops), Len(work) > 1, work[1].op # "sweep", NoSweep(ops)
  PROVE  SameWait
<1>1. After(ops, 1) BY ThenStays
<1>2. PICK d \in {0, 1} : d = 1 OBVIOUS
<1>3. d < Len(work) /\ work \in Seq(Op) BY <1>2 DEF IInv, WorkAre
<1> QED BY <1>1, <1>2, <1>3, WaitsKept DEF NoSweep, SameWait

LEMMA PushWaits ==
  ASSUME IInv, NEW ops \in Seq(Op), work' = ops \o work, Len(work) > 0, ops # <<>>, NoSweep(ops)
  PROVE  SameWait
<1>1. After(ops, 0) BY PushStays
<1>2. PICK d \in {0, 1} : d = 0 OBVIOUS
<1>3. d < Len(work) /\ work \in Seq(Op) BY <1>2 DEF IInv, WorkAre
<1> QED BY <1>1, <1>2, <1>3, WaitsKept DEF NoSweep, SameWait
-----------------------------------------------------------------------------
(* What a step that leaves variables or fields alone keeps.                *)
LEMMA SameHolders ==
  /\ var' = var => \A o : Holding(o)' = Holding(o)
  /\ field' = field => \A o : Slots(o)' = Slots(o)
  /\ frames' = frames => base' = base
BY DEF Holding, Slots, base

(* The entry at the front of work.                                         *)
LEMMA FrontIs ==
  ASSUME IInv, NEW op, Does(op)
  PROVE  /\ Current = work[1] /\ work[1].op = op /\ work[1] \in Op /\ EntryIs(work[1], 1) /\ First(op)
         /\ Len(work) \in Nat /\ Len(work) >= 1 /\ work # <<>> /\ work \in Seq(Op) /\ ~fault
         /\ op \notin {"sweep", "pop", "return", "unwind"} => Len(work) > 1
         /\ op # "unref" => \A o : Given(o) = 0
         /\ op # "create" => \A o : ~Creates(o)
<1>1. work # <<>> /\ ~fault /\ Current.op = op BY DEF Does, IInv, TypeOK
<1>2. work \in Seq(Op) BY DEF IInv, WorkAre
<1>3. Len(work) \in Nat /\ Len(work) >= 1 /\ Current = work[1] /\ work[1] \in Op
  BY <1>1, <1>2, TailIs, SeqIs DEF Current
<1>4. EntryIs(work[1], 1) BY <1>3 DEF IInv, WorkAre
<1>5. op \notin {"sweep", "pop", "return", "unwind"} => Len(work) > 1
  <2>1. Len(work) = 1 => work[1].op \in {"sweep", "pop", "return", "unwind"} BY <1>4 DEF EntryIs
  <2>2. op = work[1].op BY <1>1, <1>3
  <2>3. op \in {"sweep", "pop", "return", "unwind"} \/ Len(work) # 1 BY <2>1, <2>2
  <2>4. Len(work) # 1 => Len(work) > 1
    <3>1. PICK n \in Nat : n = Len(work) BY <1>3
    <3>2. n >= 1 BY <1>3, <3>1
    <3>3. n # 1 => n > 1 BY <3>2
    <3> QED BY <3>1, <3>3
  <2> QED BY <2>3, <2>4
<1> QED BY <1>1, <1>2, <1>3, <1>4, <1>5 DEF First, Given, Creates

(* A pool is what it was, or lost something.                               *)
LEMMA PoolsKept ==
  ASSUME IInv, depth' = depth, frames' = frames, SameWait,
         Last' = Last, \A op : Ends(op)' <=> Ends(op),
         \A o \in Object : home'[o] \in {home[o], 0} \/ (Ends("sweep") /\ home'[o] = Last.block)
  PROVE  PoolsAre'
<1>1. base' = base BY SameHolders
<1>2. ASSUME NEW o \in Object, home'[o] # 0, home'[o] = home[o]
      PROVE  \/ Ends("sweep") /\ home'[o] = Last.block
             \/ /\ Ends("return") \/ Ends("unwind")
                /\ IF SweepWaits THEN home'[o] = work[Len(work) - 1].block
                   ELSE home'[o] = depth /\ (Ends("return") => depth >= base)
  BY <1>2 DEF IInv, PoolsAre
<1>3. (SweepWaits => work'[Len(work') - 1].block = work[Len(work) - 1].block) /\ (SweepWaits' <=> SweepWaits)
  BY DEF SameWait
<1> QED BY <1>1, <1>2, <1>3 DEF PoolsAre

LEMMA CreateStep == ASSUME IInv, DoCreate PROVE IInv'
<1>1. PICK o : o = Current.obj OBVIOUS
<1>2. /\ created' = [created EXCEPT ![o] = depth] /\ home' = [home EXCEPT ![o] = depth]
      /\ n_shares' = n_shares /\ stray' = stray /\ Then(<<>>) /\ Does("create")
      /\ UNCHANGED <<live, var, field, cyclic, depth, frames, fault>>
  BY <1>1 DEF DoCreate
<1>3. /\ work[1].op = "create" /\ work[1] \in Op /\ EntryIs(work[1], 1) /\ work[1].obj = o
      /\ Len(work) > 1 /\ (\A x : Given(x) = 0) /\ Creates(o) /\ o \in Object
  BY <1>1, <1>2, FrontIs, OpIs DEF Creates
<1>4. PICK ops : ops = <<>> OBVIOUS
<1>5. ops \in Seq(Op) /\ Len(ops) = 0 /\ Then(ops) BY <1>2, <1>4, NoOps
<1>6. Stays(ops, 1) BY <1>3, <1>5, ThenStays
<1>7. /\ (\A x : Given(x)' = 0) /\ (\A x : ~Creates(x)') /\ (\A x : x \in Dying' <=> x \in Dying)
      /\ (\A x : Unlinks(x) => Unlinks(x)')
      /\ work' # <<>> /\ Last' = Last /\ \A op : Ends(op)' <=> Ends(op)
  BY <1>3, <1>4, <1>5, <1>6 DEF Stays, Lists, Drops
<1>8. (\A x : Holding(x)' = Holding(x)) /\ (\A x : Slots(x)' = Slots(x)) /\ base' = base
  BY <1>2, SameHolders
<1>9. TypeOK' BY <1>2 DEF IInv, TypeOK
<1>10. WorkAre'
  <2>1. NoLink(1) BY <1>2, LinksStay
  <2>2. Placed(ops) BY <1>5 DEF Placed, Single
  <2> QED BY <1>2, <1>3, <1>5, <2>1, <2>2, ThenOrder
<1>11. CountsAre' BY <1>2, <1>3, <1>7, <1>8 DEF IInv, CountsAre, CountIs
<1>12. KindsAre'
  <2>1. KindIs(o)'
    <3>1. depth \in Nat /\ depth # 0 /\ o \in live /\ created[o] = 0 /\ n_shares[o] = 0 /\ o \notin Dying
      BY <1>3 DEF IInv, KindsAre, KindIs, TypeOK, Block
    <3>2. created'[o] = depth /\ home'[o] = depth BY <1>2, <1>3 DEF IInv, TypeOK
    <3> QED BY <1>2, <1>7, <3>1, <3>2 DEF KindIs
  <2>2. ASSUME NEW x \in Object, x # o PROVE KindIs(x)'
    <3>1. KindIs(x) /\ ~Creates(x) BY <1>3, <2>2 DEF IInv, KindsAre, Creates
    <3>2. created'[x] = created[x] /\ home'[x] = home[x] BY <1>2, <2>2 DEF IInv, TypeOK
    <3> QED BY <1>2, <1>7, <3>1, <3>2 DEF KindIs
  <2> QED BY <2>1, <2>2 DEF KindsAre
<1>13. MapIs' BY <1>2, <1>7, <1>8 DEF IInv, MapIs, InMap
<1>14. PoolsAre'
  <2>1. SameWait
    <3>1. NoSweep(ops) BY <1>5 DEF NoSweep
    <3>2. work[1].op # "sweep" BY <1>3
    <3> QED BY <1>3, <1>5, <3>1, <3>2, ThenWaits
  <2>2. CASE Ends("sweep")
    <3>1. Last.block = depth BY <1>3, <2>2 DEF EntryIs, Ends
    <3>2. \A x \in Object : home'[x] \in {home[x], 0} \/ (Ends("sweep") /\ home'[x] = Last.block)
      BY <1>2, <2>2, <3>1 DEF IInv, TypeOK
    <3> QED BY <1>2, <1>7, <2>1, <3>2, PoolsKept
  <2>3. CASE ~Ends("sweep")
    <3>1. Len(work) = 2 /\ ((Ends("return") /\ depth >= base) \/ Ends("unwind"))
      BY <1>3, <2>3 DEF EntryIs
    <3>2. ~SweepWaits BY <1>3, <3>1 DEF SweepWaits
    <3>3. \A x \in Object : home'[x] \in {home[x], depth} BY <1>2 DEF IInv, TypeOK
    <3>4. \A x \in Object : home[x] # 0 => home[x] = depth BY <2>3, <3>2 DEF IInv, PoolsAre
    <3> QED BY <1>2, <1>7, <1>8, <2>1, <3>1, <3>2, <3>3, <3>4 DEF PoolsAre, SameWait, Ends
  <2> QED BY <2>2, <2>3
<1>15. FramesAre' /\ DepthIs' BY <1>2, <1>7, <1>8 DEF IInv, FramesAre, DepthIs, Ends
<1> QED BY <1>9, <1>10, <1>11, <1>12, <1>13, <1>14, <1>15 DEF IInv

(* A fault changes nothing else.                                           *)
LEMMA FaultStep ==
  ASSUME IInv, fault' \in BOOLEAN,
         UNCHANGED <<live, share, var, field, cyclic, depth, frames, work>>
  PROVE  IInv'
<1>1. (\A x : Holding(x)' = Holding(x)) /\ (\A x : Slots(x)' = Slots(x)) /\ base' = base
  BY SameHolders
<1>2. /\ (\A op : Ends(op)' <=> Ends(op)) /\ Last' = Last /\ (\A x : Given(x)' = Given(x))
      /\ (\A x : Creates(x)' <=> Creates(x)) /\ Dying' = Dying /\ (\A x : Unlinks(x)' <=> Unlinks(x))
      /\ (SweepWaits' <=> SweepWaits)
  BY DEF Ends, Last, Given, Creates, First, Dying, Pending, Unlinks, SweepWaits
<1>3. TypeOK' BY DEF IInv, TypeOK, share
<1>4. WorkAre' BY <1>1, <1>2 DEF IInv, WorkAre, EntryIs
<1>5. CountsAre' BY <1>1, <1>2 DEF IInv, CountsAre, CountIs, share
<1>6. KindsAre' BY <1>2 DEF IInv, KindsAre, KindIs, share
<1>7. MapIs' BY <1>1, <1>2 DEF IInv, MapIs, InMap
<1>8. PoolsAre' BY <1>1, <1>2 DEF IInv, PoolsAre, share
<1>9. FramesAre' /\ DepthIs' BY <1>1, <1>2 DEF IInv, FramesAre, DepthIs
<1> QED BY <1>3, <1>4, <1>5, <1>6, <1>7, <1>8, <1>9 DEF IInv

(* An object is shared.                                                    *)
LEMMA TakeShareIs ==
  ASSUME TypeOK, NEW o \in Object, TakeShare(o)
  PROVE  /\ n_shares' \in [Object -> Nat] /\ home' \in [Object -> Block \cup {0}] /\ created' = created
         /\ n_shares'[o] = n_shares[o] + 1 /\ home'[o] = 0
         /\ \A x \in Object : x # o => n_shares'[x] = n_shares[x] /\ home'[x] = home[x]
BY DEF TypeOK, TakeShare

LEMMA ShareIs ==
  ASSUME TypeOK, NEW o \in Object, Share(o)
  PROVE  /\ n_shares' \in [Object -> Nat] /\ home' \in [Object -> Block \cup {0}] /\ created' = created
         /\ n_shares'[o] = n_shares[o] + 1 /\ home'[o] = 0 /\ stray' = stray
         /\ \A x \in Object : x # o => n_shares'[x] = n_shares[x] /\ home'[x] = home[x]
BY TakeShareIs DEF Share

LEMMA SharedKind ==
  ASSUME IInv, NEW o \in Object, CanShare(o)
  PROVE  o \in live /\ created[o] # 0 /\ o \notin Dying /\ n_shares[o] \in Nat /\ ~Creates(o)
BY DEF IInv, KindsAre, KindIs, CanShare, TypeOK

(* Entries in front of something.                                          *)
LEMMA UnrefPlaced ==
  ASSUME NEW u, u.op = "unref", Len(work') \in Nat, Len(work') > 1,
         u.block = 0 \/ (Ends("sweep")' /\ Last'.block = u.block)
  PROVE  EntryIs(u, 1)'
<1>1. PICK i \in Nat : i = 1 OBVIOUS
<1>2. ~(i > 1) /\ i < Len(work') BY <1>1
<1>3. EntryIs(u, i)' BY <1>2 DEF EntryIs
<1> QED BY <1>1, <1>3

LEMMA PlainPlaced ==
  ASSUME NEW u, u.op = "destroy" \/ (u.op = "unlink" /\ Ends("sweep")' /\ Last'.block = 1),
         NEW i \in Nat, Len(work') \in Nat, i < Len(work')
  PROVE  EntryIs(u, i)'
BY DEF EntryIs

LEMMA StoreStep == ASSUME IInv, DoStore PROVE IInv'
<1>1. PICK e : e = Current OBVIOUS
<1>2. PICK p, o, old : p = e.at /\ o = e.obj /\ old = var[p] OBVIOUS
<1>3. /\ e = work[1] /\ e.op = "store" /\ EntryIs(e, 1) /\ Len(work) > 1
      /\ (\A x : Given(x) = 0) /\ (\A x : ~Creates(x)) /\ p \in Place /\ o \in Object \cup {Null}
      /\ Does("store") /\ UNCHANGED <<live, field, cyclic, depth, frames>>
  BY <1>1, <1>2, FrontIs, OpIs DEF DoStore
<1>4. old \in Object \cup {Null} BY <1>2, <1>3 DEF IInv, TypeOK
<1>5. Ends("sweep") /\ Last.block = depth /\ p[1] <= depth /\ depth \in Block
  BY <1>2, <1>3 DEF EntryIs, IInv, TypeOK
<1>6. CASE old # o /\ o # Null /\ ~CanShare(o)
  <2>1. fault' = TRUE /\ UNCHANGED <<share, var, work>> BY <1>1, <1>2, <1>6 DEF DoStore
  <2> QED BY <1>3, <2>1, FaultStep
<1>7. ASSUME NEW ops \in Seq(Op), Then(ops), fault' = fault,
             old = o => ops = <<>> /\ UNCHANGED <<share, var>>,
             NEW u, u = Unref(old, depth),
             old # o => /\ var' = [var EXCEPT ![p] = o]
                        /\ o = Null => UNCHANGED share
                        /\ o # Null => Share(o) /\ CanShare(o)
                        /\ ops = IF old = Null THEN <<>> ELSE <<u>>
      PROVE  IInv'
  <2>1. /\ ops = <<>> \/ (Len(ops) = 1 /\ ops[1] = u /\ ops # <<>>)
        /\ ops # <<>> <=> old # o /\ old # Null
    BY <1>4, <1>5, <1>7, OneOp, ObjectOps
  <2>2. old # Null => u.op = "unref" /\ u.obj = old /\ u.block = depth
    BY <1>4, <1>5, <1>7, ObjectOps
  <2>3. Stays(ops, 1) BY <1>3, <1>7, ThenStays
  <2>4. /\ (\A x : Given(x)' = IF old # o /\ old # Null /\ x = old THEN 1 ELSE 0)
        /\ (\A x : ~Creates(x)') /\ (\A x : x \in Dying' <=> x \in Dying)
        /\ (\A x : Unlinks(x) => Unlinks(x)')
        /\ Last' = Last /\ \A op : Ends(op)' <=> Ends(op)
    <3>1. \A x : ~Lists(ops, "destroy", x) BY <2>1, <2>2 DEF Lists
    <3>2. \A x : ~Drops(1, "destroy", x) /\ ~Drops(1, "unlink", x) BY <1>3 DEF Drops
    <3> QED BY <2>1, <2>2, <2>3, <3>1, <3>2 DEF Stays
  <2>5. (\A x : Slots(x)' = Slots(x)) /\ base' = base BY <1>3, SameHolders
  <2>6. \A x \in Object :
          Cardinality(Holding(x)') = IF old = o THEN Cardinality(Holding(x))
                                     ELSE IF x = o THEN Cardinality(Holding(x)) + 1
                                     ELSE IF x = old THEN Cardinality(Holding(x)) - 1
                                     ELSE Cardinality(Holding(x))
    <3>1. CASE old = o BY <1>7, <3>1, SameHolders
    <3>2. CASE old # o
      <4>1. o # var[p] /\ var \in [Place -> Object \cup {Null}] BY <1>2, <3>2 DEF IInv, TypeOK
      <4>2. \A x \in Object :
              Cardinality(Holding(x)') = IF x = o THEN Cardinality(Holding(x)) + 1
                                         ELSE IF x = var[p] THEN Cardinality(Holding(x)) - 1
                                         ELSE Cardinality(Holding(x))
        BY <1>3, <1>7, <3>2, <4>1, VarSet
      <4> QED BY <1>2, <3>2, <4>2
    <3> QED BY <3>1, <3>2
  <2>7. \A x \in Object : /\ n_shares'[x] = IF old # o /\ x = o THEN n_shares[x] + 1 ELSE n_shares[x]
                          /\ home'[x] = IF old # o /\ x = o THEN 0 ELSE home[x]
    <3>1. CASE old = o BY <1>7, <3>1, NullAssumption DEF share
    <3>2. CASE old # o /\ o = Null BY <1>7, <3>2, NullAssumption DEF share
    <3>3. CASE old # o /\ o # Null BY <1>3, <1>7, <3>3, ShareIs DEF IInv
    <3> QED BY <3>1, <3>2, <3>3
  <2>8. created' = created /\ stray' = stray BY <1>3, <1>7, NullAssumption DEF share, Share, TakeShare
  <2>9. TypeOK'
    <3>1. n_shares' \in [Object -> Nat] /\ home' \in [Object -> Block \cup {0}]
      <4>1. CASE old = o BY <1>7, <4>1 DEF share, IInv, TypeOK
      <4>2. CASE old # o /\ o = Null BY <1>7, <4>2 DEF share, IInv, TypeOK
      <4>3. CASE old # o /\ o # Null BY <1>3, <1>7, <4>3, ShareIs DEF IInv
      <4> QED BY <4>1, <4>2, <4>3
    <3>2. var' \in [Place -> Object \cup {Null}] BY <1>2, <1>3, <1>7 DEF IInv, TypeOK
    <3> QED BY <1>3, <1>7, <2>8, <3>1, <3>2 DEF IInv, TypeOK
  <2>10. WorkAre'
    <3>1. NoLink(1) BY <1>3, LinksStay
    <3>2. Placed(ops)
      <4>1. CASE ops = <<>> BY <4>1 DEF Placed, Single
      <4>2. CASE Len(ops) = 1 /\ ops[1] = u /\ old # Null
        <5>1. Len(work') \in Nat /\ Len(work') > 1
          BY <1>3, <1>7, <4>2, ThenStays, SeqIs DEF After, IInv, WorkAre
        <5>2. EntryIs(u, 1)' BY <1>5, <2>2, <2>4, <4>2, <5>1, UnrefPlaced
        <5>3. \A i \in 1 .. Len(ops) : i = 1 BY <4>2
        <5> QED BY <2>2, <4>2, <5>2, <5>3 DEF Placed, Single
      <4> QED BY <2>1, <4>1, <4>2
    <3> QED BY <1>3, <1>7, <3>1, <3>2, ThenOrder
  <2>11. CountsAre'
    <3>1. ASSUME NEW x \in Object
          PROVE  n_shares'[x] = Cardinality(Holding(x)') + Cardinality(Slots(x)') + Given(x)' + stray'[x]
      <4>1. n_shares[x] = Cardinality(Holding(x)) + Cardinality(Slots(x)) + stray[x]
        BY <1>3, HoldersCounted, StrayIs DEF IInv, CountsAre, CountIs
      <4>2. /\ Cardinality(Holding(x)) \in Nat /\ Cardinality(Slots(x)) \in Nat
            /\ stray[x] \in Nat /\ stray'[x] = stray[x]
        BY <2>8, HoldersCounted, StrayIs
      <4>3. CASE old = o BY <2>4, <2>5, <2>6, <2>7, <4>1, <4>2, <4>3
      <4>4. CASE old # o /\ x = o BY <2>4, <2>5, <2>6, <2>7, <4>1, <4>2, <4>4
      <4>5. CASE old # o /\ x = old BY <2>4, <2>5, <2>6, <2>7, <4>1, <4>2, <4>5, NullAssumption
      <4>6. CASE old # o /\ x # o /\ x # old BY <2>4, <2>5, <2>6, <2>7, <4>1, <4>2, <4>6
      <4> QED BY <4>3, <4>4, <4>5, <4>6
    <3> QED BY <3>1 DEF CountsAre, CountIs
  <2>12. KindsAre'
    <3>1. ASSUME NEW x \in Object PROVE KindIs(x)'
      <4>1. KindIs(x) /\ n_shares[x] \in Nat BY DEF IInv, KindsAre, TypeOK
      <4>2. CASE old # o /\ x = o
        <5>1. o \in live /\ created[o] # 0 /\ o \notin Dying BY <1>3, <1>7, <4>2, SharedKind, NullAssumption
        <5> QED BY <1>3, <2>4, <2>7, <2>8, <4>1, <4>2, <5>1 DEF KindIs
      <4>3. CASE ~(old # o /\ x = o)
        <5> QED BY <1>3, <2>4, <2>7, <2>8, <4>1, <4>3 DEF KindIs
      <4> QED BY <4>2, <4>3
    <3> QED BY <3>1 DEF KindsAre
  <2>13. MapIs' BY <1>3, <2>4, <2>5 DEF IInv, MapIs, InMap
  <2>14. PoolsAre'
    <3>1. NoSweep(ops) BY <2>1, <2>2 DEF NoSweep
    <3>2. SameWait BY <1>3, <1>7, <3>1, ThenWaits
    <3> QED BY <1>3, <2>4, <2>7, <3>2, PoolsKept
  <2>15. FramesAre' /\ DepthIs'
    <3>1. \A q \in Place : q[1] > depth => var'[q] = Null
      <4>1. CASE old = o BY <1>7, <4>1 DEF IInv, DepthIs
      <4>2. ASSUME old # o, NEW q \in Place, q[1] > depth PROVE var'[q] = Null
        <5>1. q # p BY <1>3, <1>5, <4>2 DEF Place, Block
        <5> QED BY <1>3, <1>7, <4>2, <5>1 DEF IInv, DepthIs, TypeOK
      <4> QED BY <4>1, <4>2
    <3> QED BY <1>3, <2>4, <2>5, <3>1 DEF IInv, FramesAre, DepthIs, Ends
  <2> QED BY <2>9, <2>10, <2>11, <2>12, <2>13, <2>14, <2>15 DEF IInv
<1>8. CASE ~(old # o /\ o # Null /\ ~CanShare(o))
  <2>1. CASE old = o
    <3>1. PICK ops : ops = <<>> OBVIOUS
    <3> QED BY <1>1, <1>2, <1>7, <2>1, <3>1, NoOps DEF DoStore
  <2>2. CASE old # o
    <3>1. PICK ops : ops = GiveUpOld(old) OBVIOUS
    <3>0. PICK u : u = Unref(old, depth) OBVIOUS
    <3>2. ops = (IF old = Null THEN <<>> ELSE <<u>>) /\ ops \in Seq(Op)
      BY <3>0, <1>4, <1>5, <3>1, ObjectOps, OneOp, NoOps DEF GiveUpOld
    <3>3. /\ var' = [var EXCEPT ![p] = o] /\ Then(ops) /\ fault' = fault
          /\ IF o = Null THEN UNCHANGED share ELSE Share(o)
          /\ o # Null => CanShare(o)
      BY <1>1, <1>2, <1>8, <2>2, <3>1 DEF DoStore
    <3> QED BY <1>7, <2>2, <3>0, <3>2, <3>3
  <2> QED BY <2>1, <2>2
<1> QED BY <1>6, <1>8
-----------------------------------------------------------------------------
(* The invariant after a step inside a block, from its parts.              *)
LEMMA StepKeeps ==
  ASSUME IInv, depth' = depth, frames' = frames, TypeOK', WorkAre', SameWait,
         work # <<>>, work' # <<>>, Last' = Last, \A op : Ends(op)' <=> Ends(op),
         \A x \in Object : home'[x] \in {home[x], 0} \/ (Ends("sweep") /\ home'[x] = Last.block),
         \A q \in Place : var'[q] \in {var[q], Null},
         \A x \in Object : KindIs(x)' /\ CountIs(x)' /\ InMap(x)'
  PROVE  IInv'
<1>1. PoolsAre' BY PoolsKept
<1>2. base' = base BY SameHolders
<1>3. FramesAre' /\ DepthIs' BY <1>2 DEF IInv, FramesAre, DepthIs
<1> QED BY <1>1, <1>3 DEF IInv, KindsAre, CountsAre, MapIs

(* An object the step does not touch.                                      *)
LEMMA KindSame ==
  ASSUME NEW x, KindIs(x), x \in live' <=> x \in live, created'[x] = created[x],
         n_shares'[x] = n_shares[x], home'[x] = home[x],
         \A f \in Field : field[x][f] = Null => field'[x][f] = Null,
         x \in Dying' <=> x \in Dying, Creates(x)' <=> Creates(x),
         Last' = Last, \A op : Ends(op)' <=> Ends(op)
  PROVE  KindIs(x)'
BY DEF KindIs

(* A slot is taken out of the map of its source.                           *)
LEMMA RemoveIs ==
  ASSUME IInv, NEW x \in Object, NEW f \in Field, NEW old, old = field[x][f], old # Null, RemoveSlot(x, f)
  PROVE  /\ old \in Object /\ field' \in [Object -> [Field -> Object \cup {Null}]] /\ cyclic' \subseteq Object
         /\ field'[x][f] = Null
         /\ \A y \in Object, g \in Field : field'[y][g] \in {field[y][g], Null}
         /\ \A y \in Object, g \in Field : <<y, g>> # <<x, f>> => field'[y][g] = field[y][g]
         /\ \A y \in Object : Cardinality(Slots(y)') = IF y = old THEN Cardinality(Slots(y)) - 1
                                                      ELSE Cardinality(Slots(y))
         /\ \A y \in Object : /\ Slots(y)' # {} => y \in cyclic'
                              /\ y \in cyclic' => y \in cyclic
                              /\ y \in cyclic' => Slots(y)' # {} \/ Unlinks(y)
<1>1. old \in Object /\ field \in [Object -> [Field -> Object \cup {Null}]] /\ cyclic \subseteq Object
  BY DEF IInv, TypeOK
<1>2. /\ field' = [field EXCEPT ![x][f] = Null]
      /\ cyclic' = IF Slots(old) = {<<x, f>>} THEN cyclic \ {old} ELSE cyclic
  BY DEF RemoveSlot
<1>3. PICK b \in Object \cup {Null} : b = Null OBVIOUS
<1>4. b # field[x][f] /\ field' = [field EXCEPT ![x][f] = b] BY <1>2, <1>3
<1>5. /\ field' \in [Object -> [Field -> Object \cup {Null}]] /\ field'[x][f] = Null
      /\ \A y \in Object, g \in Field : <<y, g>> # <<x, f>> => field'[y][g] = field[y][g]
  <2>1. field' = [field EXCEPT ![x] = [field[x] EXCEPT ![f] = b]] BY <1>1, <1>4
  <2> QED BY <1>1, <1>3, <2>1, FieldChanged
<1>6. \A o \in Object :
        /\ Slots(o)' = IF o = b THEN Slots(o) \cup {<<x, f>>} ELSE Slots(o) \ {<<x, f>>}
        /\ o # field[x][f] /\ o # b => Slots(o)' = Slots(o)
        /\ Cardinality(Slots(o)') = IF o = b THEN Cardinality(Slots(o)) + 1
                                    ELSE IF o = field[x][f] THEN Cardinality(Slots(o)) - 1
                                    ELSE Cardinality(Slots(o))
  BY <1>1, <1>3, <1>4, <1>5, FieldSet
<1>7. \A y \in Object : y # b BY <1>3, NullAssumption
<1>8. \A y \in Object : /\ Slots(y)' = Slots(y) \ {<<x, f>>}
                        /\ y # old => Slots(y)' = Slots(y)
                        /\ Cardinality(Slots(y)') = IF y = old THEN Cardinality(Slots(y)) - 1
                                                    ELSE Cardinality(Slots(y))
  BY <1>6, <1>7
<1>9. \A y \in Object, g \in Field : field'[y][g] \in {field[y][g], Null}
  <2> TAKE y \in Object, g \in Field
  <2>1. CASE <<y, g>> = <<x, f>> BY <1>5, <2>1
  <2>2. CASE <<y, g>> # <<x, f>> BY <1>5, <2>2
  <2> QED BY <2>1, <2>2
<1>10. <<x, f>> \in Slots(old) BY DEF Slots
<1>11. ASSUME NEW y \in Object
       PROVE  /\ Slots(y)' # {} => y \in cyclic'
              /\ y \in cyclic' => y \in cyclic
              /\ y \in cyclic' => Slots(y)' # {} \/ Unlinks(y)
  <2>1. InMap(y) BY DEF IInv, MapIs
  <2>2. CASE y # old BY <1>2, <1>8, <2>1, <2>2 DEF InMap
  <2>3. CASE y = old /\ Slots(old) = {<<x, f>>} BY <1>1, <1>2, <1>8, <2>3
  <2>4. CASE y = old /\ Slots(old) # {<<x, f>>}
    <3>1. Slots(y)' # {} BY <1>8, <1>10, <2>4
    <3> QED BY <1>2, <1>10, <2>1, <2>4, <3>1 DEF InMap
  <2> QED BY <2>2, <2>3, <2>4
<1> QED BY <1>1, <1>2, <1>5, <1>8, <1>9, <1>11

LEMMA AssignStep == ASSUME IInv, DoAssign PROVE IInv'
<1>1. PICK e : e = Current OBVIOUS
<1>2. PICK x, f, o : x = e.slot[1] /\ f = e.slot[2] /\ o = e.obj OBVIOUS
<1>3. PICK old : old = field[x][f] OBVIOUS
<1>4. /\ e = work[1] /\ e.op = "assign" /\ EntryIs(e, 1) /\ Len(work) > 1 /\ work # <<>>
      /\ (\A y : Given(y) = 0) /\ (\A y : ~Creates(y)) /\ x \in Object /\ f \in Field /\ o \in Object
      /\ Does("assign") /\ UNCHANGED <<live, share, var, depth, frames>>
  BY <1>1, <1>2, FrontIs, OpIs DEF DoAssign
<1>5. old \in Object \cup {Null} /\ Len(work) \in Nat BY <1>3, <1>4, SeqIs DEF IInv, TypeOK, WorkAre
<1>6. Ends("sweep") /\ Last.block = depth /\ 1 = Len(work) - 1 BY <1>4 DEF EntryIs
<1>7. CASE x \notin live
  <2>1. fault' = TRUE /\ UNCHANGED <<field, cyclic, work>> BY <1>1, <1>2, <1>7 DEF DoAssign
  <2> QED BY <1>4, <2>1, FaultStep
<1>8. CASE x \in live
  <2>1. PICK u, l : u = Unref(old, 0) /\ l = Link(x, f, o) OBVIOUS
  <2>2. PICK ops : ops = (IF old = o THEN <<>> ELSE IF old = Null THEN <<l>> ELSE <<u, l>>) OBVIOUS
  <2>3. /\ l \in Op /\ l.op = "link" /\ l.slot = <<x, f>> /\ l.obj = o
        /\ old # Null => u \in Op /\ u.op = "unref" /\ u.obj = old /\ u.block = 0
    BY <1>4, <1>5, <2>1, SlotOps, ObjectOps
  <2>4. ops \in Seq(Op) /\ Len(ops) \in Nat BY <1>5, <2>2, <2>3, NoOps, OneOp, TwoOps
  <2>5. /\ Then(ops) /\ fault' = fault
        /\ old \in {o, Null} => UNCHANGED <<field, cyclic>>
        /\ old \notin {o, Null} => RemoveSlot(x, f)
    BY <1>1, <1>2, <1>3, <1>8, <2>1, <2>2 DEF DoAssign
  <2>6. /\ old = o => ops = <<>> /\ Len(ops) = 0
        /\ old # o /\ old = Null => Len(ops) = 1 /\ ops[1] = l /\ ops # <<>>
        /\ old # o /\ old # Null => Len(ops) = 2 /\ ops[1] = u /\ ops[2] = l /\ ops # <<>>
    BY <2>2, <2>3, NoOps, OneOp, TwoOps
  <2>7. \A i \in 1 .. Len(ops) :
          \/ ops[i] = l /\ i = Len(ops)
          \/ ops[i] = u /\ i = 1 /\ Len(ops) = 2 /\ old \notin {o, Null}
    <3>1. CASE old = o BY <2>6, <3>1
    <3>2. CASE old # o /\ old = Null
      <4>0. Len(ops) = 1 BY <2>6, <3>2
      <4>1. \A i \in 1 .. Len(ops) : i = 1 BY <4>0
      <4> QED BY <2>6, <3>2, <4>1
    <3>3. CASE old # o /\ old # Null
      <4>0. Len(ops) = 2 BY <2>6, <3>3
      <4>1. \A i \in 1 .. Len(ops) : i = 1 \/ i = 2 BY <4>0
      <4> QED BY <2>6, <3>3, <4>1
    <3> QED BY <3>1, <3>2, <3>3
  <2>8. Stays(ops, 1) /\ After(ops, 1) BY <1>4, <2>4, <2>5, ThenStays
  <2>9. /\ (\A y : Given(y)' = IF old \notin {o, Null} /\ y = old THEN 1 ELSE 0)
        /\ (\A y : ~Creates(y)') /\ (\A y : y \in Dying' <=> y \in Dying)
        /\ (\A y : Unlinks(y) => Unlinks(y)')
        /\ work' # <<>> /\ Last' = Last /\ \A op : Ends(op)' <=> Ends(op)
    <3>1. \A y : ~Lists(ops, "destroy", y) BY <2>3, <2>7 DEF Lists
    <3>2. \A y : ~Drops(1, "destroy", y) /\ ~Drops(1, "unlink", y) BY <1>4 DEF Drops
    <3>3. \A y : Given(y)' = IF ops # <<>> /\ ops[1].op = "unref" /\ ops[1].obj = y THEN 1 ELSE 0
      BY <2>8 DEF Stays
    <3>4. \A y : Creates(y)' <=> ops # <<>> /\ ops[1].op = "create" /\ ops[1].obj = y
      BY <2>8 DEF Stays
    <3>5. CASE old = o BY <2>6, <2>8, <3>1, <3>2, <3>3, <3>4, <3>5 DEF Stays
    <3>6. CASE old # o /\ old = Null BY <2>3, <2>6, <2>8, <3>1, <3>2, <3>3, <3>4, <3>6 DEF Stays
    <3>7. CASE old # o /\ old # Null BY <2>3, <2>6, <2>8, <3>1, <3>2, <3>3, <3>4, <3>7 DEF Stays
    <3> QED BY <3>5, <3>6, <3>7
  <2>10. (\A y : Holding(y)' = Holding(y)) /\ base' = base BY <1>4, SameHolders
  <2>11. /\ field' \in [Object -> [Field -> Object \cup {Null}]] /\ cyclic' \subseteq Object
         /\ old # o => field'[x][f] = Null
         /\ \A y \in Object, g \in Field : field[y][g] = Null => field'[y][g] = Null
         /\ \A y \in Object : Cardinality(Slots(y)') = IF old \notin {o, Null} /\ y = old
                                THEN Cardinality(Slots(y)) - 1 ELSE Cardinality(Slots(y))
         /\ \A y \in Object : /\ Slots(y)' # {} => y \in cyclic'
                              /\ y \in cyclic' => Slots(y)' # {} \/ Unlinks(y)
    <3>1. CASE old \in {o, Null}
      <4>1. field' = field /\ cyclic' = cyclic /\ \A y : Slots(y)' = Slots(y)
        BY <2>5, <3>1, SameHolders
      <4> QED BY <1>3, <3>1, <4>1 DEF IInv, TypeOK, MapIs, InMap
    <3>2. CASE old \notin {o, Null}
      <4>1. RemoveSlot(x, f) /\ old # Null BY <2>5, <3>2
      <4>2. /\ field' \in [Object -> [Field -> Object \cup {Null}]] /\ cyclic' \subseteq Object
            /\ field'[x][f] = Null
            /\ \A y \in Object, g \in Field : field'[y][g] \in {field[y][g], Null}
            /\ \A y \in Object : Cardinality(Slots(y)') = IF y = old THEN Cardinality(Slots(y)) - 1
                                                         ELSE Cardinality(Slots(y))
            /\ \A y \in Object : /\ Slots(y)' # {} => y \in cyclic'
                                 /\ y \in cyclic' => Slots(y)' # {} \/ Unlinks(y)
        BY <1>3, <1>4, <4>1, RemoveIs
      <4> QED BY <3>2, <4>2
    <3> QED BY <3>1, <3>2
  <2>12. TypeOK' BY <1>4, <2>5, <2>11 DEF IInv, TypeOK, share
  <2>13. WorkAre'
    <3>1. NoLink(1) BY <2>11, LinksStay
    <3>2. Len(work') = Len(ops) + 1 BY <1>5, <1>6, <2>4, <2>8 DEF After
    <3>3. old # o => EntryIs(l, Len(ops))'
      <4>1. SUFFICES ASSUME old # o PROVE EntryIs(l, Len(ops))' OBVIOUS
      <4>2. field'[l.slot[1]][l.slot[2]] = Null BY <2>3, <2>11, <4>1
      <4>3. PICK n \in Nat : n = Len(ops) BY <2>4
      <4>4. EntryIs(l, n)' BY <1>4, <1>6, <2>3, <2>9, <3>2, <4>2, <4>3 DEF EntryIs
      <4> QED BY <4>3, <4>4
    <3>4. Len(ops) = 2 /\ old # Null => EntryIs(u, 1)'
      <4>1. Len(ops) = 2 => Len(work') \in Nat /\ Len(work') > 1 BY <3>2
      <4> QED BY <2>3, <4>1, UnrefPlaced
    <3>5. Placed(ops) BY <2>3, <2>4, <2>6, <2>7, <3>3, <3>4 DEF Placed, Single
    <3> QED BY <1>4, <2>4, <2>5, <3>1, <3>5, ThenOrder
  <2>14. SameWait
    <3>1. NoSweep(ops) BY <2>3, <2>7 DEF NoSweep
    <3>2. work[1].op # "sweep" BY <1>4
    <3> QED BY <1>4, <2>4, <2>5, <3>1, <3>2, ThenWaits
  <2>15. ASSUME NEW y \in Object PROVE KindIs(y)' /\ CountIs(y)' /\ InMap(y)'
    <3>1. KindIs(y)'
      <4>1. KindIs(y) BY DEF IInv, KindsAre
      <4> QED BY <1>4, <2>9, <2>11, <4>1, KindSame DEF share
    <3>2. CountIs(y)'
      <4>1. n_shares[y] = Cardinality(Holding(y)) + Cardinality(Slots(y)) + stray[y]
        BY <1>4, HoldersCounted, StrayIs DEF IInv, CountsAre, CountIs
      <4>2. /\ Cardinality(Holding(y)) \in Nat /\ Cardinality(Slots(y)) \in Nat
            /\ stray[y] \in Nat /\ stray'[y] = stray[y]
        BY <1>4, HoldersCounted, StrayIs DEF share
      <4>3. n_shares'[y] = n_shares[y] BY <1>4 DEF share
      <4>4. n_shares'[y] = Cardinality(Holding(y)') + Cardinality(Slots(y)') + Given(y)' + stray'[y]
        BY <2>9, <2>10, <2>11, <4>1, <4>2, <4>3
      <4> QED BY <4>4 DEF CountIs
    <3>3. InMap(y)' BY <2>9, <2>11 DEF InMap
    <3> QED BY <3>1, <3>2, <3>3
  <2> QED BY <1>4, <2>9, <2>12, <2>13, <2>14, <2>15, StepKeeps DEF share
<1> QED BY <1>7, <1>8

(* What a step that only drops the first entry does to work.               *)
LEMMA Dropped ==
  ASSUME IInv, Then(<<>>), Len(work) > 1, work[1].op # "destroy", NoLink(1),
         depth' = depth, frames' = frames
  PROVE  /\ WorkAre' /\ work' # <<>> /\ Last' = Last /\ \A op : Ends(op)' <=> Ends(op)
         /\ (\A y : Given(y)' = 0) /\ (\A y : ~Creates(y)') /\ (\A y : y \in Dying' <=> y \in Dying)
         /\ \A y : Unlinks(y) /\ ~Drops(1, "unlink", y) => Unlinks(y)'
         /\ work[1].op # "sweep" => SameWait
<1>1. PICK ops : ops = <<>> OBVIOUS
<1>2. ops \in Seq(Op) /\ Len(ops) = 0 /\ Then(ops) BY <1>1, NoOps
<1>3. Stays(ops, 1) BY <1>2, ThenStays
<1>4. Placed(ops) BY <1>2 DEF Placed, Single
<1>5. WorkAre' BY <1>2, <1>4, ThenOrder
<1>6. NoSweep(ops) BY <1>2 DEF NoSweep
<1>7. work[1].op # "sweep" => SameWait BY <1>2, <1>6, ThenWaits
<1>8. \A y : ~Lists(ops, "destroy", y) /\ ~Drops(1, "destroy", y) BY <1>2 DEF Lists, Drops
<1> QED BY <1>1, <1>3, <1>5, <1>7, <1>8 DEF Stays

(* What putting a single operation in front does.                          *)
LEMMA Pushed ==
  ASSUME IInv, NEW u \in Op, work' = <<u>> \o work, Len(work) > 0,
         work[1].op \notin {"create", "unref"}, u.op # "create", NoLink(0),
         depth' = depth, frames' = frames, EntryIs(u, 1)',
         u.op = "destroy" => u.obj \notin Dying
  PROVE  /\ WorkAre' /\ work' # <<>> /\ Last' = Last /\ \A op : Ends(op)' <=> Ends(op)
         /\ (\A y : Given(y)' = IF u.op = "unref" /\ u.obj = y THEN 1 ELSE 0)
         /\ (\A y : ~Creates(y)')
         /\ (\A y : y \in Dying' <=> y \in Dying \/ (u.op = "destroy" /\ u.obj = y))
         /\ (\A y : Unlinks(y) => Unlinks(y)')
         /\ u.op # "sweep" => SameWait
<1>1. PICK ops : ops = <<u>> OBVIOUS
<1>2. ops \in Seq(Op) /\ Len(ops) = 1 /\ ops[1] = u /\ ops # <<>> /\ work' = ops \o work BY <1>1, OneOp
<1>3. Stays(ops, 0) BY <1>2, PushStays
<1>4. \A i \in 1 .. Len(ops) : i = 1 BY <1>2
<1>5. Placed(ops) BY <1>2, <1>4 DEF Placed, Single
<1>6. WorkAre' BY <1>2, <1>5, PushOrder
<1>7. u.op # "sweep" => NoSweep(ops) BY <1>2, <1>4 DEF NoSweep
<1>8. u.op # "sweep" => SameWait BY <1>2, <1>7, PushWaits
<1>9. \A y : Lists(ops, "destroy", y) <=> u.op = "destroy" /\ u.obj = y
  <2>1. 1 \in 1 .. Len(ops) BY <1>2
  <2> QED BY <1>2, <1>4, <2>1 DEF Lists
<1>10. \A op, y : ~Drops(0, op, y) BY DEF Drops
<1> QED BY <1>2, <1>3, <1>6, <1>8, <1>9, <1>10 DEF Stays

(* How long work is then, for the place of the new entry.                  *)
LEMMA PushedLen ==
  ASSUME IInv, NEW u \in Op, work' = <<u>> \o work, Len(work) > 0
  PROVE  /\ Len(work') \in Nat /\ Len(work') > 1 /\ Last' = Last /\ \A op : Ends(op)' <=> Ends(op)
         /\ Len(work') = Len(work) + 1
<1>1. PICK ops : ops = <<u>> OBVIOUS
<1>2. ops \in Seq(Op) /\ Len(ops) = 1 /\ ops # <<>> /\ work' = ops \o work BY <1>1, OneOp
<1>3. Stays(ops, 0) /\ After(ops, 0) BY <1>2, PushStays
<1>4. Len(work) \in Nat BY SeqIs DEF IInv, WorkAre
<1> QED BY <1>2, <1>3, <1>4 DEF Stays, After

LEMMA LinkStep == ASSUME IInv, DoLink PROVE IInv'
<1>1. PICK e : e = Current OBVIOUS
<1>2. PICK x, f, o : x = e.slot[1] /\ f = e.slot[2] /\ o = e.obj OBVIOUS
<1>3. /\ e = work[1] /\ e.op = "link" /\ EntryIs(e, 1) /\ Len(work) > 1 /\ work # <<>>
      /\ (\A y : Given(y) = 0) /\ (\A y : ~Creates(y)) /\ x \in Object /\ f \in Field /\ o \in Object
      /\ Does("link") /\ UNCHANGED <<live, var, depth, frames>>
  BY <1>1, <1>2, FrontIs, OpIs DEF DoLink
<1>4. field[x][f] = Null BY <1>2, <1>3 DEF EntryIs
<1>5. CASE x \notin live \/ ~CanShare(o)
  <2>1. fault' = TRUE /\ UNCHANGED <<share, field, cyclic, work>> BY <1>1, <1>2, <1>5 DEF DoLink
  <2> QED BY <1>3, <2>1, FaultStep
<1>6. CASE x \in live /\ CanShare(o)
  <2>1. /\ field' = [field EXCEPT ![x][f] = o] /\ cyclic' = cyclic \cup {o} /\ Share(o)
        /\ Then(<<>>) /\ fault' = fault
    BY <1>1, <1>2, <1>6 DEF DoLink
  <2>2. /\ field' \in [Object -> [Field -> Object \cup {Null}]] /\ field'[x][f] = o
        /\ \A y \in Object, g \in Field : <<y, g>> # <<x, f>> => field'[y][g] = field[y][g]
    <3>1. field' = [field EXCEPT ![x] = [field[x] EXCEPT ![f] = o]] BY <2>1
    <3>2. field \in [Object -> [Field -> Object \cup {Null}]] BY DEF IInv, TypeOK
    <3> QED BY <1>3, <3>1, <3>2, FieldChanged
  <2>3. \A y \in Object : /\ y # o => Slots(y)' = Slots(y)
                          /\ Cardinality(Slots(y)') = IF y = o THEN Cardinality(Slots(y)) + 1
                                                      ELSE Cardinality(Slots(y))
    <3>1. field \in [Object -> [Field -> Object \cup {Null}]] /\ o # field[x][f] /\ field[x][f] \notin Object
      BY <1>3, <1>4, NullAssumption DEF IInv, TypeOK
    <3>2. PICK b \in Object \cup {Null} : b = o BY <1>3
    <3>3. b # field[x][f] /\ field'[x][f] = b BY <2>2, <3>1, <3>2
    <3>4. \A y \in Object :
            /\ Slots(y)' = IF y = b THEN Slots(y) \cup {<<x, f>>} ELSE Slots(y) \ {<<x, f>>}
            /\ y # field[x][f] /\ y # b => Slots(y)' = Slots(y)
            /\ Cardinality(Slots(y)') = IF y = b THEN Cardinality(Slots(y)) + 1
                                        ELSE IF y = field[x][f] THEN Cardinality(Slots(y)) - 1
                                        ELSE Cardinality(Slots(y))
      <4>1. field \in [Object -> [Field -> Object \cup {Null}]] BY <3>1
      <4>2. \A y \in Object, g \in Field : <<y, g>> # <<x, f>> => field'[y][g] = field[y][g] BY <2>2
      <4>3. x \in Object /\ f \in Field BY <1>3
      <4>4. b # field[x][f] BY <3>3
      <4>5. field'[x][f] = b BY <3>3
      <4> QED BY <4>1, <4>2, <4>3, <4>4, <4>5, FieldSet, SMTT(30)
    <3> QED BY <3>1, <3>2, <3>4
  <2>4. /\ n_shares' \in [Object -> Nat] /\ home' \in [Object -> Block \cup {0}] /\ created' = created
        /\ n_shares'[o] = n_shares[o] + 1 /\ home'[o] = 0 /\ stray' = stray
        /\ \A y \in Object : y # o => n_shares'[y] = n_shares[y] /\ home'[y] = home[y]
    BY <1>3, <2>1, ShareIs DEF IInv
  <2>5. NoLink(1)
    <3>1. Len(work) = 2 /\ work[2] \in Op /\ EntryIs(work[2], 2) /\ Len(work) \in Nat
      <4>1. 1 = Len(work) - 1 BY <1>3 DEF EntryIs
      <4>2. Len(work) \in Nat BY SeqIs DEF IInv, WorkAre
      <4>3. Len(work) = 2 BY <4>1, <4>2
      <4>4. 2 \in 1 .. Len(work) BY <4>3
      <4> QED BY <4>2, <4>3, <4>4, SeqIs DEF IInv, WorkAre
    <3>2. work[2].op # "link"
      <4>1. PICK i : i = 2 OBVIOUS
      <4>2. EntryIs(work[i], i) /\ i = Len(work) BY <3>1, <4>1
      <4> QED BY <4>1, <4>2 DEF EntryIs
    <3>3. \A i \in 1 + 1 .. Len(work) : i = 2 BY <3>1
    <3> QED BY <3>2, <3>3 DEF NoLink
  <2>6. /\ WorkAre' /\ work' # <<>> /\ Last' = Last /\ (\A op : Ends(op)' <=> Ends(op)) /\ SameWait
        /\ (\A y : Given(y)' = 0) /\ (\A y : ~Creates(y)') /\ (\A y : y \in Dying' <=> y \in Dying)
        /\ \A y : Unlinks(y) => Unlinks(y)'
    <3>1. work[1].op # "destroy" /\ work[1].op # "sweep" /\ \A y : ~Drops(1, "unlink", y)
      BY <1>3 DEF Drops
    <3> QED BY <1>3, <2>1, <2>5, <3>1, Dropped
  <2>7. TypeOK' BY <1>3, <2>1, <2>2, <2>4 DEF IInv, TypeOK
  <2>8. ASSUME NEW y \in Object PROVE KindIs(y)' /\ CountIs(y)' /\ InMap(y)'
    <3>1. KindIs(y)'
      <4>1. KindIs(y) BY DEF IInv, KindsAre
      <4>2. \A g \in Field : field'[y][g] = field[y][g] \/ y = x
        <5> TAKE g \in Field
        <5> QED BY <2>2
      <4>3. CASE y = o
        <5>1. y \in live /\ created[y] # 0 /\ y \notin Dying /\ n_shares[y] \in Nat
          BY <1>6, <4>3, SharedKind
        <5>2. n_shares'[y] # 0 BY <2>4, <4>3, <5>1
        <5> QED BY <1>3, <2>4, <2>6, <4>3, <5>1, <5>2 DEF KindIs
      <4>4. CASE y # o
        <5>1. y \in live' <=> y \in live BY <1>3
        <5>2. y \notin live => \A g \in Field : field'[y][g] = field[y][g] BY <1>6, <4>2
        <5> QED BY <1>3, <2>4, <2>6, <4>1, <4>4, <5>1, <5>2 DEF KindIs
      <4> QED BY <4>3, <4>4
    <3>2. CountIs(y)'
      <4>1. n_shares[y] = Cardinality(Holding(y)) + Cardinality(Slots(y)) + stray[y]
        BY <1>3, HoldersCounted, StrayIs DEF IInv, CountsAre, CountIs
      <4>2. /\ Cardinality(Holding(y)) \in Nat /\ Cardinality(Slots(y)) \in Nat
            /\ stray[y] \in Nat /\ stray'[y] = stray[y]
        BY <2>4, HoldersCounted, StrayIs
      <4>3. Holding(y)' = Holding(y) BY <1>3, SameHolders
      <4>4. n_shares'[y] = Cardinality(Holding(y)') + Cardinality(Slots(y)') + Given(y)' + stray'[y]
        BY <2>3, <2>4, <2>6, <4>1, <4>2, <4>3
      <4> QED BY <4>4 DEF CountIs
    <3>3. InMap(y)'
      <4>1. InMap(y) BY DEF IInv, MapIs
      <4>2. CASE y = o
        <5>1. <<x, f>> \in Slots(y)' BY <1>3, <2>2, <4>2 DEF Slots
        <5> QED BY <2>1, <4>2, <5>1 DEF InMap
      <4>3. CASE y # o BY <2>1, <2>3, <2>6, <4>1, <4>3 DEF InMap
      <4> QED BY <4>2, <4>3
    <3> QED BY <3>1, <3>2, <3>3
  <2>9. \A y \in Object : home'[y] \in {home[y], 0} BY <2>4
  <2> QED BY <1>3, <2>6, <2>7, <2>8, <2>9, StepKeeps
<1> QED BY <1>5, <1>6

LEMMA UnrefStep == ASSUME IInv, DoUnref PROVE IInv'
<1>1. PICK e : e = Current OBVIOUS
<1>2. PICK o, b : o = e.obj /\ b = e.block OBVIOUS
<1>3. /\ e = work[1] /\ e.op = "unref" /\ EntryIs(e, 1) /\ Len(work) > 1 /\ work # <<>> /\ First("unref")
      /\ (\A y : ~Creates(y)) /\ o \in Object /\ b \in Block \cup {0}
      /\ Does("unref") /\ UNCHANGED <<live, var, field, cyclic, depth, frames>>
  BY <1>1, <1>2, FrontIs, OpIs DEF DoUnref
<1>4. \A y : Given(y) = IF y = o THEN 1 ELSE 0 BY <1>2, <1>3 DEF Given
<1>5. b = 0 \/ (Ends("sweep") /\ Last.block = b) BY <1>2, <1>3 DEF EntryIs
<1>6. CASE o \notin live \/ created[o] = 0 \/ n_shares[o] = 0
  <2>1. fault' = TRUE /\ UNCHANGED <<share, work>> BY <1>1, <1>2, <1>6 DEF DoUnref
  <2> QED BY <1>3, <2>1, FaultStep
<1>7. CASE ~(o \notin live \/ created[o] = 0 \/ n_shares[o] = 0)
  <2>1. PICK last \in BOOLEAN : last <=> n_shares[o] = 1 OBVIOUS
  <2>2. PICK t : t = Destroy(o) OBVIOUS
  <2>3. PICK ops : ops = (IF last /\ b = 0 THEN <<t>> ELSE <<>>) OBVIOUS
  <2>4. /\ n_shares' = [n_shares EXCEPT ![o] = @ - 1]
        /\ home' = IF last THEN [home EXCEPT ![o] = b] ELSE home
        /\ Then(ops) /\ created' = created /\ stray' = stray /\ fault' = fault
    BY <1>1, <1>2, <1>7, <2>1, <2>2, <2>3 DEF DoUnref
  <2>5. t \in Op /\ t.op = "destroy" /\ t.obj = o BY <1>3, <2>2, ObjectOps
  <2>6. /\ ops \in Seq(Op) /\ Len(ops) \in Nat
        /\ last /\ b = 0 => Len(ops) = 1 /\ ops[1] = t
        /\ ~(last /\ b = 0) => Len(ops) = 0
        /\ (ops # <<>> <=> last /\ b = 0)
    BY <2>3, <2>5, OneOp, NoOps
  <2>7. \A i \in 1 .. Len(ops) : i = 1 /\ ops[i] = t /\ last /\ b = 0
    <3>1. CASE last /\ b = 0
      <4>1. Len(ops) = 1 BY <2>6, <3>1
      <4>2. \A i \in 1 .. Len(ops) : i = 1 BY <4>1
      <4> QED BY <2>6, <3>1, <4>2
    <3>2. CASE ~(last /\ b = 0)
      <4>1. Len(ops) = 0 BY <2>6, <3>2
      <4> QED BY <4>1
    <3> QED BY <3>1, <3>2
  <2>8. Stays(ops, 1) /\ After(ops, 1) BY <1>3, <2>4, <2>6, ThenStays
  <2>9. /\ (\A y : Given(y)' = 0) /\ (\A y : ~Creates(y)')
        /\ (\A y : y \in Dying' <=> y \in Dying \/ (last /\ b = 0 /\ y = o))
        /\ (\A y : Unlinks(y) => Unlinks(y)')
        /\ work' # <<>> /\ Last' = Last /\ \A op : Ends(op)' <=> Ends(op)
    <3>1. \A y : Lists(ops, "destroy", y) <=> last /\ b = 0 /\ y = o
      <4>1. last /\ b = 0 => 1 \in 1 .. Len(ops) BY <2>6
      <4> QED BY <2>5, <2>6, <2>7, <4>1 DEF Lists
    <3>2. \A y : ~Drops(1, "destroy", y) /\ ~Drops(1, "unlink", y) BY <1>3 DEF Drops
    <3>3. ops # <<>> => ops[1].op = "destroy" BY <2>5, <2>6
    <3>4. \A y : Given(y)' = 0 BY <2>8, <3>3 DEF Stays
    <3>5. \A y : ~Creates(y)' BY <2>8, <3>3 DEF Stays
    <3> QED BY <2>8, <3>1, <3>2, <3>4, <3>5 DEF Stays
  <2>10. (\A y : Holding(y)' = Holding(y)) /\ (\A y : Slots(y)' = Slots(y)) BY <1>3, SameHolders
  <2>11. /\ n_shares[o] \in Nat /\ n_shares[o] # 0 /\ home[o] = 0 /\ o \notin Dying
         /\ KindIs(o) /\ created[o] # 0 /\ o \in live
    BY <1>3, <1>7 DEF IInv, TypeOK, KindsAre, KindIs
  <2>12. /\ n_shares' \in [Object -> Nat] /\ n_shares'[o] = n_shares[o] - 1
         /\ \A y \in Object : y # o => n_shares'[y] = n_shares[y] /\ home'[y] = home[y]
         /\ home' \in [Object -> Block \cup {0}] /\ home'[o] = IF last THEN b ELSE 0
    BY <1>3, <2>4, <2>11 DEF IInv, TypeOK
  <2>13. TypeOK' BY <1>3, <2>4, <2>12 DEF IInv, TypeOK
  <2>14. WorkAre'
    <3>1. NoLink(1) BY <1>3, LinksStay
    <3>2. Len(work') \in Nat /\ (last /\ b = 0 => 1 < Len(work'))
      <4>1. Len(work) \in Nat BY SeqIs DEF IInv, WorkAre
      <4> QED BY <1>3, <2>6, <2>8, <4>1 DEF After
    <3>3. last /\ b = 0 => EntryIs(t, 1)' BY <2>5, <3>2, PlainPlaced
    <3>4. Placed(ops) BY <2>5, <2>7, <2>11, <3>3 DEF Placed, Single
    <3> QED BY <1>3, <2>4, <2>6, <3>1, <3>4, ThenOrder
  <2>15. SameWait
    <3>1. NoSweep(ops) BY <2>5, <2>7 DEF NoSweep
    <3>2. work[1].op # "sweep" BY <1>3
    <3> QED BY <1>3, <2>4, <2>6, <3>1, <3>2, ThenWaits
  <2>16. ASSUME NEW y \in Object PROVE KindIs(y)' /\ CountIs(y)' /\ InMap(y)'
    <3>1. KindIs(y)'
      <4>1. CASE y = o
        <5>1. CASE last /\ b = 0
          <6>1. n_shares'[y] = 0 BY <2>1, <2>12, <4>1, <5>1
          <6> QED BY <1>3, <2>4, <2>9, <2>11, <2>12, <4>1, <5>1, <6>1 DEF KindIs
        <5>2. CASE last /\ b # 0
          <6>1. n_shares'[y] = 0 BY <2>1, <2>12, <4>1, <5>2
          <6> QED BY <1>3, <2>4, <2>9, <2>11, <2>12, <4>1, <5>2, <6>1 DEF KindIs
        <5>3. CASE ~last
          <6>1. n_shares'[y] # 0 BY <2>1, <2>11, <2>12, <4>1, <5>3
          <6> QED BY <1>3, <2>4, <2>9, <2>11, <2>12, <4>1, <5>3, <6>1 DEF KindIs
        <5> QED BY <5>1, <5>2, <5>3
      <4>2. CASE y # o
        <5>1. KindIs(y) BY DEF IInv, KindsAre
        <5> QED BY <1>3, <2>4, <2>9, <2>12, <4>2, <5>1, KindSame
      <4> QED BY <4>1, <4>2
    <3>2. CountIs(y)'
      <4>1. n_shares[y] = Cardinality(Holding(y)) + Cardinality(Slots(y)) + Given(y) + stray[y]
        BY DEF IInv, CountsAre, CountIs
      <4>2. /\ Cardinality(Holding(y)) \in Nat /\ Cardinality(Slots(y)) \in Nat
            /\ stray[y] \in Nat /\ stray'[y] = stray[y]
        BY <2>4, HoldersCounted, StrayIs
      <4>3. n_shares'[y] = n_shares[y] - Given(y) BY <1>4, <2>11, <2>12, <4>1, <4>2
      <4>4. n_shares'[y] = Cardinality(Holding(y)') + Cardinality(Slots(y)') + Given(y)' + stray'[y]
        BY <1>4, <2>9, <2>10, <4>1, <4>2, <4>3
      <4> QED BY <4>4 DEF CountIs
    <3>3. InMap(y)' BY <1>3, <2>9, <2>10 DEF IInv, MapIs, InMap
    <3> QED BY <3>1, <3>2, <3>3
  <2>17. \A y \in Object : home'[y] \in {home[y], 0} \/ (Ends("sweep") /\ home'[y] = Last.block)
    BY <1>5, <2>12
  <2> QED BY <1>3, <2>9, <2>13, <2>14, <2>15, <2>16, <2>17, StepKeeps
<1> QED BY <1>6, <1>7

LEMMA DestroyStep == ASSUME IInv, DoDestroy PROVE IInv'
<1>1. PICK e : e = Current OBVIOUS
<1>2. PICK o : o = e.obj OBVIOUS
<1>3. /\ e = work[1] /\ e.op = "destroy" /\ EntryIs(e, 1) /\ Len(work) > 1 /\ work # <<>>
      /\ (\A y : ~Creates(y)) /\ (\A y : Given(y) = 0) /\ o \in Object /\ Len(work) \in Nat
      /\ Does("destroy") /\ UNCHANGED <<n_shares, home, stray, var, depth, frames>>
  BY <1>1, <1>2, FrontIs, OpIs DEF DoDestroy
<1>4. o \in Dying
  <2>1. 1 \in 1 .. Len(work) BY <1>3
  <2> QED BY <1>2, <1>3, <2>1, DyingHas DEF Has
<1>5. KindIs(o) /\ created[o] # 0 /\ n_shares[o] = 0 /\ home[o] = 0 /\ o \in live
  BY <1>3, <1>4 DEF IInv, KindsAre, KindIs
<1>6. \A y : Holding(y)' = Holding(y) BY <1>3, SameHolders
<1>7. PICK full : full = {f \in Field : field[o][f] # Null} OBVIOUS
<1>8. CASE full # {}
  <2>1. PICK f \in full : /\ RemoveSlot(o, f) /\ work' = <<Unref(field[o][f], 0)>> \o work
                          /\ UNCHANGED <<live, created, fault>>
    BY <1>1, <1>2, <1>7, <1>8 DEF DoDestroy
  <2>2. PICK old : old = field[o][f] OBVIOUS
  <2>3. f \in Field /\ old # Null BY <1>7, <2>2
  <2>4. /\ old \in Object /\ field' \in [Object -> [Field -> Object \cup {Null}]] /\ cyclic' \subseteq Object
        /\ \A y \in Object, g \in Field : field'[y][g] \in {field[y][g], Null}
        /\ \A y \in Object : Cardinality(Slots(y)') = IF y = old THEN Cardinality(Slots(y)) - 1
                                                     ELSE Cardinality(Slots(y))
        /\ \A y \in Object : /\ Slots(y)' # {} => y \in cyclic'
                             /\ y \in cyclic' => Slots(y)' # {} \/ Unlinks(y)
    BY <1>3, <2>1, <2>2, <2>3, RemoveIs
  <2>5. PICK u : u = Unref(old, 0) OBVIOUS
  <2>6. u \in Op /\ u.op = "unref" /\ u.obj = old /\ u.block = 0 BY <2>4, <2>5, ObjectOps
  <2>7. work' = <<u>> \o work BY <2>1, <2>2, <2>5
  <2>8. NoLink(0) BY <2>4, LinksStay
  <2>9. EntryIs(u, 1)'
    <3>1. Len(work') \in Nat /\ Len(work') > 1 BY <1>3, <2>6, <2>7, PushedLen
    <3> QED BY <2>6, <3>1, UnrefPlaced
  <2>10. /\ WorkAre' /\ work' # <<>> /\ Last' = Last /\ (\A op : Ends(op)' <=> Ends(op)) /\ SameWait
         /\ (\A y : Given(y)' = IF old = y THEN 1 ELSE 0) /\ (\A y : ~Creates(y)')
         /\ (\A y : y \in Dying' <=> y \in Dying) /\ (\A y : Unlinks(y) => Unlinks(y)')
    <3>1. work[1].op \notin {"create", "unref"} /\ Len(work) > 0 BY <1>3
    <3> QED BY <1>3, <2>6, <2>7, <2>8, <2>9, <3>1, Pushed
  <2>11. TypeOK' BY <1>3, <2>1, <2>4 DEF IInv, TypeOK
  <2>12. ASSUME NEW y \in Object PROVE KindIs(y)' /\ CountIs(y)' /\ InMap(y)'
    <3>1. KindIs(y)'
      <4>1. KindIs(y) BY DEF IInv, KindsAre
      <4>2. \A g \in Field : field[y][g] = Null => field'[y][g] = Null BY <2>4
      <4> QED BY <1>3, <2>1, <2>10, <4>1, <4>2, KindSame
    <3>2. CountIs(y)'
      <4>1. n_shares[y] = Cardinality(Holding(y)) + Cardinality(Slots(y)) + stray[y]
        BY <1>3, HoldersCounted, StrayIs DEF IInv, CountsAre, CountIs
      <4>2. /\ Cardinality(Holding(y)) \in Nat /\ Cardinality(Slots(y)) \in Nat
            /\ stray[y] \in Nat /\ stray'[y] = stray[y]
        BY <1>3, HoldersCounted, StrayIs
      <4>3. n_shares'[y] = Cardinality(Holding(y)') + Cardinality(Slots(y)') + Given(y)' + stray'[y]
        BY <1>3, <1>6, <2>4, <2>10, <4>1, <4>2
      <4> QED BY <4>3 DEF CountIs
    <3>3. InMap(y)' BY <2>4, <2>10 DEF InMap
    <3> QED BY <3>1, <3>2, <3>3
  <2> QED BY <1>3, <2>10, <2>11, <2>12, StepKeeps
<1>9. CASE full = {} /\ Slots(o) # {}
  <2>1. fault' = TRUE /\ UNCHANGED <<live, created, field, cyclic, work>>
    BY <1>1, <1>2, <1>7, <1>9 DEF DoDestroy
  <2> QED BY <1>3, <2>1, FaultStep DEF share
<1>10. CASE full = {} /\ Slots(o) = {}
  <2>1. /\ live' = live \ {o} /\ created' = [created EXCEPT ![o] = 0] /\ Then(<<>>)
        /\ UNCHANGED <<field, cyclic, fault>>
    BY <1>1, <1>2, <1>7, <1>10 DEF DoDestroy
  <2>2. \A y : Slots(y)' = Slots(y) BY <2>1, SameHolders
  <2>3. PICK ops : ops = <<>> OBVIOUS
  <2>4. ops \in Seq(Op) /\ Len(ops) = 0 /\ Then(ops) BY <2>1, <2>3, NoOps
  <2>5. Stays(ops, 1) BY <1>3, <2>4, ThenStays
  <2>6. /\ (\A y : Given(y)' = 0) /\ (\A y : ~Creates(y)')
        /\ (\A y : y \in Dying' <=> y \in Dying /\ y # o) /\ (\A y : Unlinks(y) => Unlinks(y)')
        /\ work' # <<>> /\ Last' = Last /\ \A op : Ends(op)' <=> Ends(op)
    <3>1. \A y : ~Lists(ops, "destroy", y) /\ ~Drops(1, "unlink", y) BY <1>3, <2>4 DEF Lists, Drops
    <3>2. \A y : Drops(1, "destroy", y) <=> y = o BY <1>2, <1>3 DEF Drops
    <3> QED BY <2>3, <2>5, <3>1, <3>2 DEF Stays
  <2>7. WorkAre'
    <3>1. NoLink(1) BY <2>1, LinksStay
    <3>2. Placed(ops) BY <2>4 DEF Placed, Single
    <3> QED BY <1>3, <2>4, <3>1, <3>2, ThenOrder
  <2>8. SameWait
    <3>1. NoSweep(ops) BY <2>4 DEF NoSweep
    <3>2. work[1].op # "sweep" BY <1>3
    <3> QED BY <1>3, <2>4, <3>1, <3>2, ThenWaits
  <2>9. TypeOK' BY <1>3, <2>1 DEF IInv, TypeOK
  <2>10. ASSUME NEW y \in Object PROVE KindIs(y)' /\ CountIs(y)' /\ InMap(y)'
    <3>1. KindIs(y)'
      <4>1. CASE y = o
        <5>1. \A g \in Field : field[y][g] = Null BY <1>7, <1>10, <4>1
        <5>2. created'[y] = 0 /\ y \notin live' BY <1>3, <2>1, <4>1 DEF IInv, TypeOK
        <5> QED BY <1>3, <1>5, <2>1, <2>6, <4>1, <5>1, <5>2 DEF KindIs
      <4>2. CASE y # o
        <5>1. KindIs(y) BY DEF IInv, KindsAre
        <5>2. created'[y] = created[y] /\ (y \in live' <=> y \in live) BY <2>1, <4>2 DEF IInv, TypeOK
        <5> QED BY <1>3, <2>1, <2>6, <4>2, <5>1, <5>2, KindSame
      <4> QED BY <4>1, <4>2
    <3>2. CountIs(y)' BY <1>3, <1>6, <2>2, <2>6 DEF IInv, CountsAre, CountIs
    <3>3. InMap(y)' BY <2>1, <2>2, <2>6 DEF IInv, MapIs, InMap
    <3> QED BY <3>1, <3>2, <3>3
  <2> QED BY <1>3, <2>6, <2>7, <2>8, <2>9, <2>10, StepKeeps
<1> QED BY <1>8, <1>9, <1>10
-----------------------------------------------------------------------------
(* What the invariant reads of work when it stays, and when it is replaced. *)
LEMMA WorkSame ==
  ASSUME work' = work
  PROVE  /\ Last' = Last /\ (\A op : Ends(op)' <=> Ends(op)) /\ SameWait
         /\ (\A y : Given(y)' = Given(y)) /\ (\A y : Creates(y)' <=> Creates(y))
         /\ (\A y : y \in Dying' <=> y \in Dying) /\ (\A y : Unlinks(y) => Unlinks(y)')
BY DEF Last, Ends, SweepWaits, SameWait, Given, Creates, First, Dying, Pending, Unlinks

LEMMA OrderSame ==
  ASSUME IInv, work' = work, depth' = depth, frames' = frames, NoLink(0)
  PROVE  WorkAre'
<1>1. Last' = Last /\ (\A op : Ends(op)' <=> Ends(op)) BY WorkSame
<1>2. base' = base BY SameHolders
<1>3. work \in Seq(Op) /\ Len(work) \in Nat BY SeqIs DEF IInv, WorkAre
<1>4. ASSUME NEW i \in 1 .. Len(work) PROVE EntryIs(work[i], i)'
  <2>1. EntryIs(work[i], i) BY DEF IInv, WorkAre
  <2>2. i \in 1 + 0 .. Len(work) BY <1>3
  <2>3. work[i].op = "link" => field'[work[i].slot[1]][work[i].slot[2]] = Null BY <2>2 DEF NoLink
  <2>4. PICK e : e = work[i] OBVIOUS
  <2>5. EntryIs(e, i)' BY <1>1, <1>2, <2>1, <2>3, <2>4 DEF EntryIs
  <2>6. e = work'[i] BY <2>4
  <2> QED BY <2>5, <2>6
<1>5. \A i, j \in 1 .. Len(work') : work'[i].op = "destroy" /\ work'[j].op = "destroy"
                                    /\ work'[i].obj = work'[j].obj => i = j
  BY DEF IInv, WorkAre
<1>6. work' \in Seq(Op)' BY <1>3 DEF Op, Value, Place, Block
<1> QED BY <1>4, <1>5, <1>6 DEF WorkAre

Replaced(ops) ==
  work' \in Seq(Op) /\ Len(work') = Len(ops) /\ \A i \in 1 .. Len(ops) : work'[i] = ops[i]

LEMMA WorkReplaced ==
  ASSUME NEW ops \in Seq(Op), Replaced(ops), NEW n \in Nat, n = Len(ops), n > 0,
         \A i \in 1 .. n : ops[i].op \notin {"destroy"} /\ EntryIs(ops[i], i)'
  PROVE  /\ WorkAre' /\ work' # <<>> /\ Last' = ops[n] /\ \A op : Ends(op)' <=> ops[n].op = op
         /\ (\A y : Given(y)' = IF ops[1].op = "unref" /\ ops[1].obj = y THEN 1 ELSE 0)
         /\ (\A y : Creates(y)' <=> ops[1].op = "create" /\ ops[1].obj = y)
         /\ (\A y : y \notin Dying')
         /\ (\A y : Unlinks(y)' <=> Lists(ops, "unlink", y))
         /\ SweepWaits' <=> n > 1 /\ ops[n - 1].op = "sweep"
<1>1. work' \in Seq(Op) /\ Len(work') = n /\ \A i \in 1 .. n : work'[i] = ops[i] BY DEF Replaced
<1>2. work' # <<>> /\ 1 \in 1 .. n /\ n \in 1 .. n
  <2>1. work' # <<>> BY <1>1, EmptySeq
  <2> QED BY <2>1
<1>3. Last' = ops[n] BY <1>1, <1>2 DEF Last
<1>4. \A op : Ends(op)' <=> ops[n].op = op BY <1>2, <1>3 DEF Ends
<1>5. \A y : Given(y)' = IF ops[1].op = "unref" /\ ops[1].obj = y THEN 1 ELSE 0
  BY <1>1, <1>2 DEF Given, First
<1>6. \A y : Creates(y)' <=> ops[1].op = "create" /\ ops[1].obj = y BY <1>1, <1>2 DEF Creates, First
<1>7. \A y : y \notin Dying'
  <2>1. \A y : y \in Dying' <=> \E i \in 1 .. n : ops[i].op = "destroy" /\ ops[i].obj = y
    <3>1. \A y : y \in Dying' <=> \E i \in 1 .. Len(work') : work'[i].op = "destroy" /\ work'[i].obj = y
      BY <1>1, SeqIs DEF Dying, Pending
    <3> QED BY <1>1, <3>1
  <2> QED BY <2>1
<1>8. \A y : Unlinks(y)' <=> Lists(ops, "unlink", y) BY <1>1 DEF Unlinks, Lists
<1>9. SweepWaits' <=> n > 1 /\ ops[n - 1].op = "sweep"
  <2>1. n > 1 => n - 1 \in 1 .. n OBVIOUS
  <2> QED BY <1>1, <2>1 DEF SweepWaits
<1>10. WorkAre'
  <2>1. ASSUME NEW i \in 1 .. Len(work') PROVE EntryIs(work[i], i)'
    <3>1. i \in 1 .. n /\ work'[i] = ops[i] BY <1>1
    <3>2. EntryIs(ops[i], i)' BY <3>1
    <3> QED BY <3>1, <3>2
  <2>2. \A i, j \in 1 .. Len(work') :
          work'[i].op = "destroy" /\ work'[j].op = "destroy" /\ work'[i].obj = work'[j].obj => i = j
    BY <1>1
  <2>3. work' \in Seq(Op)' BY <1>1 DEF Op, Value, Place, Block
  <2> QED BY <2>1, <2>2, <2>3 DEF WorkAre
<1> QED BY <1>2, <1>3, <1>4, <1>5, <1>6, <1>7, <1>8, <1>9, <1>10

LEMMA WorkEmptied ==
  ASSUME work' = <<>>
  PROVE  /\ WorkAre' /\ (\A op : ~Ends(op)') /\ (\A y : Given(y)' = 0) /\ (\A y : ~Creates(y)')
         /\ (\A y : y \notin Dying') /\ (\A y : ~Unlinks(y)')
<1>1. Len(work') = 0 /\ DOMAIN work' = {} /\ work' \in Seq(Op)' OBVIOUS
<1>2. WorkAre' BY <1>1 DEF WorkAre
<1>3. \A y : y \notin Dying' BY <1>1 DEF Dying, Pending
<1> QED BY <1>1, <1>2, <1>3 DEF Ends, Given, Creates, First, Unlinks

(* A sweep whose pool is empty leaves no temporary in any block.           *)
LEMMA Swept ==
  ASSUME IInv, Does("sweep"), Pool(Current.block) = {}
  PROVE  \A y \in Object : home[y] = 0
<1>1. PICK e : e = work[1] OBVIOUS
<1>2. /\ Current = e /\ e.op = "sweep" /\ EntryIs(e, 1) /\ Len(work) \in Nat /\ Len(work) >= 1 /\ work # <<>>
  BY <1>1, FrontIs
<1>3. CASE Len(work) = 1
  <2>1. Last = e /\ Ends("sweep") /\ ~Ends("return") /\ ~Ends("unwind") BY <1>1, <1>2, <1>3 DEF Last, Ends
  <2>2. \A y \in Object : home[y] # 0 => home[y] = e.block BY <2>1 DEF IInv, PoolsAre
  <2> QED BY <1>2, <2>2 DEF Pool
<1>4. CASE Len(work) # 1
  <2>1. Len(work) = 2 /\ (Ends("return") \/ Ends("unwind"))
    <3>1. 1 = Len(work) - 1 /\ (Ends("return") \/ Ends("unwind")) BY <1>2, <1>4 DEF EntryIs
    <3> QED BY <1>2, <3>1
  <2>2. work[Len(work) - 1] = e /\ SweepWaits BY <1>1, <1>2, <2>1 DEF SweepWaits
  <2>3. ~Ends("sweep") BY <2>1 DEF Ends
  <2>4. \A y \in Object : home[y] # 0 => home[y] = e.block BY <2>2, <2>3 DEF IInv, PoolsAre
  <2> QED BY <1>2, <2>4 DEF Pool
<1> QED BY <1>3, <1>4

LEMMA SweepStep == ASSUME IInv, DoSweep PROVE IInv'
<1>1. PICK e : e = Current OBVIOUS
<1>2. /\ e = work[1] /\ e.op = "sweep" /\ EntryIs(e, 1) /\ work # <<>> /\ e \in Op /\ Len(work) >= 1
      /\ (\A y : ~Creates(y)) /\ (\A y : Given(y) = 0) /\ Len(work) \in Nat /\ work \in Seq(Op)
      /\ Does("sweep") /\ UNCHANGED <<live, var, field, cyclic, depth, frames, fault>>
  BY <1>1, FrontIs DEF DoSweep
<1>3. (\A y : Holding(y)' = Holding(y)) /\ (\A y : Slots(y)' = Slots(y)) /\ base' = base BY <1>2, SameHolders
<1>4. CASE Pool(e.block) = {}
  <2>1. Then(<<>>) /\ UNCHANGED share BY <1>1, <1>4 DEF DoSweep
  <2>2. \A y \in Object : home[y] = 0 BY <1>1, <1>2, <1>4, Swept
  <2>3. \A y \in Object : home'[y] = 0 BY <2>1, <2>2 DEF share
  <2>4. PoolsAre' BY <2>3 DEF PoolsAre
  <2>5. TypeOK' BY <1>2, <2>1 DEF IInv, TypeOK, share
  <2>6. FramesAre' BY <1>2 DEF IInv, FramesAre
  <2>7. CASE Len(work) = 1
    <3>1. Last = e /\ Ends("sweep") /\ ~Ends("return") BY <1>2, <2>7 DEF Last, Ends
    <3>2. work' = <<>>
      <4>1. PICK ops : ops = <<>> OBVIOUS
      <4>2. ops \in Seq(Op) /\ Len(ops) = 0 BY <4>1, NoOps
      <4>3. After(ops, 1) BY <1>2, <2>1, <4>1, <4>2, ThenIs
      <4>4. work' \in Seq(Op) /\ Len(work') = 0 BY <2>7, <4>2, <4>3 DEF After
      <4> QED BY <4>4, EmptySeq
    <3>3. /\ WorkAre' /\ (\A op : ~Ends(op)') /\ (\A y : Given(y)' = 0) /\ (\A y : ~Creates(y)')
          /\ (\A y : y \notin Dying') /\ (\A y : ~Unlinks(y)')
      BY <3>2, WorkEmptied
    <3>4. \A y : y \notin Dying /\ ~Unlinks(y)
      <4>1. \A i \in 1 .. Len(work) : work[i].op = "sweep" BY <1>2, <2>7
      <4> QED BY <4>1, DyingHas DEF Has
    <3>5. DepthIs' BY <1>2, <1>3, <3>1 DEF IInv, DepthIs
    <3>6. KindsAre'
      <4>1. ASSUME NEW y \in Object PROVE KindIs(y)'
        <5>1. KindIs(y) BY DEF IInv, KindsAre
        <5> QED BY <1>2, <2>1, <3>1, <3>3, <3>4, <5>1 DEF KindIs, share
      <4> QED BY <4>1 DEF KindsAre
    <3>7. CountsAre' BY <1>2, <1>3, <2>1, <3>3 DEF IInv, CountsAre, CountIs, share
    <3>8. MapIs' BY <1>2, <1>3, <3>3, <3>4 DEF IInv, MapIs, InMap
    <3> QED BY <2>4, <2>5, <2>6, <3>3, <3>5, <3>6, <3>7, <3>8 DEF IInv
  <2>8. CASE Len(work) # 1
    <3>1. Len(work) > 1 BY <1>2, <2>8, OneOrMore
    <3>2. /\ WorkAre' /\ work' # <<>> /\ Last' = Last /\ (\A op : Ends(op)' <=> Ends(op))
          /\ (\A y : Given(y)' = 0) /\ (\A y : ~Creates(y)') /\ (\A y : y \in Dying' <=> y \in Dying)
          /\ (\A y : Unlinks(y) => Unlinks(y)')
      <4>1. NoLink(1) BY <1>2, LinksStay
      <4>2. work[1].op # "destroy" /\ \A y : ~Drops(1, "unlink", y) BY <1>2 DEF Drops
      <4> QED BY <1>2, <2>1, <3>1, <4>1, <4>2, Dropped
    <3>3. DepthIs' BY <1>2, <1>3, <3>2 DEF IInv, DepthIs
    <3>4. KindsAre'
      <4>1. ASSUME NEW y \in Object PROVE KindIs(y)'
        <5>1. KindIs(y) BY DEF IInv, KindsAre
        <5> QED BY <1>2, <2>1, <3>2, <5>1, KindSame DEF share
      <4> QED BY <4>1 DEF KindsAre
    <3>5. CountsAre' BY <1>2, <1>3, <2>1, <3>2 DEF IInv, CountsAre, CountIs, share
    <3>6. MapIs' BY <1>2, <1>3, <3>2 DEF IInv, MapIs, InMap
    <3> QED BY <2>4, <2>5, <2>6, <3>2, <3>3, <3>4, <3>5, <3>6 DEF IInv
  <2> QED BY <2>7, <2>8
<1>5. CASE Pool(e.block) # {}
  <2>1. PICK o \in Pool(e.block) :
          /\ home' = [home EXCEPT ![o] = 0] /\ n_shares' = n_shares /\ stray' = stray
          /\ IF o \in e.ret THEN created' = [created EXCEPT ![o] = 0] /\ work' = work
             ELSE work' = <<Destroy(o)>> \o work /\ created' = created
    BY <1>1, <1>5 DEF DoSweep, Take
  <2>2. /\ o \in Object /\ home[o] # 0 /\ n_shares[o] = 0 /\ created[o] # 0 /\ o \notin Dying /\ o \in live
        /\ KindIs(o)
    <3>1. e.block \in Block BY <1>2, OpIs
    <3>2. o \in Object /\ home[o] # 0 BY <2>1, <3>1 DEF Pool, Block
    <3>3. KindIs(o) BY <3>2 DEF IInv, KindsAre
    <3> QED BY <3>2, <3>3 DEF KindIs
  <2>3. /\ home' \in [Object -> Block \cup {0}] /\ home'[o] = 0
        /\ \A y \in Object : y # o => home'[y] = home[y]
    BY <2>1, <2>2 DEF IInv, TypeOK
  <2>4. CASE o \in e.ret
    <3>1. /\ created' \in [Object -> Block \cup {0}] /\ created'[o] = 0 /\ work' = work
          /\ \A y \in Object : y # o => created'[y] = created[y]
      BY <2>1, <2>2, <2>4 DEF IInv, TypeOK
    <3>2. NoLink(0) BY <1>2, LinksStay
    <3>3. WorkAre' BY <1>2, <3>1, <3>2, OrderSame
    <3>4. TypeOK' BY <1>2, <2>1, <2>3, <3>1 DEF IInv, TypeOK
    <3>5. /\ Last' = Last /\ (\A op : Ends(op)' <=> Ends(op)) /\ SameWait
          /\ (\A y : Given(y)' = Given(y)) /\ (\A y : Creates(y)' <=> Creates(y))
          /\ (\A y : y \in Dying' <=> y \in Dying) /\ (\A y : Unlinks(y) => Unlinks(y)')
      BY <3>1, WorkSame
    <3>6. Ends("return") /\ Last.value = <<"object", o>>
      <4>1. Ends("return") /\ e.ret = Last.ret BY <1>2, <2>4 DEF EntryIs
      <4>2. PICK r : r = Last OBVIOUS
      <4>3. Len(work) \in 1 .. Len(work) BY <1>2
      <4>4. r \in Op /\ r.op = "return" /\ EntryIs(r, Len(work)) /\ r.value \in Value
        BY <1>2, <4>1, <4>2, <4>3, SeqIs, OpIs DEF IInv, WorkAre, Last, Ends
      <4>5. PICK v \in Value : v = r.value BY <4>4
      <4>6. (v[1] = "object" => r.ret = {v[2]}) /\ (v[1] # "object" => r.ret = {}) BY <4>4, <4>5 DEF EntryIs
      <4>7. v[1] = "object" /\ v[2] = o BY <2>4, <4>1, <4>2, <4>6
      <4>8. v = <<"object", o>> BY <4>7, ValueIs
      <4> QED BY <4>1, <4>2, <4>5, <4>8
    <3>7. ASSUME NEW y \in Object PROVE KindIs(y)' /\ CountIs(y)' /\ InMap(y)'
      <4>1. KindIs(y)'
        <5>1. CASE y = o BY <1>2, <2>1, <2>2, <2>3, <3>1, <3>5, <3>6, <5>1 DEF KindIs
        <5>2. CASE y # o
          <6>1. KindIs(y) BY DEF IInv, KindsAre
          <6> QED BY <1>2, <2>1, <2>3, <3>1, <3>5, <5>2, <6>1, KindSame
        <5> QED BY <5>1, <5>2
      <4>2. CountIs(y)' BY <1>2, <1>3, <2>1, <3>5 DEF IInv, CountsAre, CountIs
      <4>3. InMap(y)' BY <1>2, <1>3, <3>5 DEF IInv, MapIs, InMap
      <4> QED BY <4>1, <4>2, <4>3
    <3>8. work' # <<>> /\ \A y \in Object : home'[y] \in {home[y], 0} BY <1>2, <2>3, <3>1
    <3> QED BY <1>2, <3>3, <3>4, <3>5, <3>7, <3>8, StepKeeps
  <2>5. CASE o \notin e.ret
    <3>1. PICK t : t = Destroy(o) OBVIOUS
    <3>2. work' = <<t>> \o work /\ created' = created BY <2>1, <2>5, <3>1
    <3>3. t \in Op /\ t.op = "destroy" /\ t.obj = o BY <2>2, <3>1, ObjectOps
    <3>4. NoLink(0) BY <1>2, LinksStay
    <3>5. EntryIs(t, 1)'
      <4>1. Len(work') \in Nat /\ 1 < Len(work') BY <1>2, <3>2, <3>3, PushedLen
      <4> QED BY <3>3, <4>1, PlainPlaced
    <3>6. /\ WorkAre' /\ work' # <<>> /\ Last' = Last /\ (\A op : Ends(op)' <=> Ends(op)) /\ SameWait
          /\ (\A y : Given(y)' = 0) /\ (\A y : ~Creates(y)')
          /\ (\A y : y \in Dying' <=> y \in Dying \/ y = o) /\ (\A y : Unlinks(y) => Unlinks(y)')
      <4>1. work[1].op \notin {"create", "unref"} /\ Len(work) > 0 BY <1>2
      <4> QED BY <1>2, <2>2, <3>2, <3>3, <3>4, <3>5, <4>1, Pushed
    <3>7. TypeOK' BY <1>2, <2>1, <2>3, <3>2 DEF IInv, TypeOK
    <3>8. ASSUME NEW y \in Object PROVE KindIs(y)' /\ CountIs(y)' /\ InMap(y)'
      <4>1. KindIs(y)'
        <5>1. CASE y = o BY <1>2, <2>1, <2>2, <2>3, <3>2, <3>6, <5>1 DEF KindIs
        <5>2. CASE y # o
          <6>1. KindIs(y) BY DEF IInv, KindsAre
          <6> QED BY <1>2, <2>1, <2>3, <3>2, <3>6, <5>2, <6>1, KindSame
        <5> QED BY <5>1, <5>2
      <4>2. CountIs(y)' BY <1>2, <1>3, <2>1, <3>6 DEF IInv, CountsAre, CountIs
      <4>3. InMap(y)' BY <1>2, <1>3, <3>6 DEF IInv, MapIs, InMap
      <4> QED BY <4>1, <4>2, <4>3
    <3>9. \A y \in Object : home'[y] \in {home[y], 0} BY <2>3
    <3> QED BY <1>2, <3>6, <3>7, <3>8, <3>9, StepKeeps
  <2> QED BY <2>4, <2>5
<1> QED BY <1>4, <1>5

LEMMA SweepOp ==
  ASSUME NEW b \in Block, NEW ret, ret \subseteq Object, NEW s, s = Sweep(b, ret)
  PROVE  s \in Op /\ s.op = "sweep" /\ s.block = b /\ s.ret = ret
BY DEF Sweep, Op

(* A variable of a block is emptied.                                       *)
LEMMA VarEmptied ==
  ASSUME IInv, NEW p \in Place, NEW o, o = var[p], o # Null, var' = [var EXCEPT ![p] = Null]
  PROVE  /\ o \in Object /\ var' \in [Place -> Object \cup {Null}] /\ Cardinality(Holding(o)) >= 1
         /\ \A q \in Place : var'[q] \in {var[q], Null}
         /\ \A y \in Object : Cardinality(Holding(y)') = IF y = o THEN Cardinality(Holding(y)) - 1
                                                        ELSE Cardinality(Holding(y))
<1>1. var \in [Place -> Object \cup {Null}] /\ o \in Object BY DEF IInv, TypeOK
<1>2. PICK b \in Object \cup {Null} : b = Null OBVIOUS
<1>3. b # var[p] /\ var' = [var EXCEPT ![p] = b] BY <1>2
<1>4. /\ var' \in [Place -> Object \cup {Null}]
      /\ \A y \in Object :
           Cardinality(Holding(y)') = IF y = b THEN Cardinality(Holding(y)) + 1
                                      ELSE IF y = var[p] THEN Cardinality(Holding(y)) - 1
                                      ELSE Cardinality(Holding(y))
  BY <1>1, <1>3, VarSet
<1>5. \A y \in Object : y # b BY <1>2, NullAssumption
<1>6. \A y \in Object : Cardinality(Holding(y)') = IF y = o THEN Cardinality(Holding(y)) - 1
                                                   ELSE Cardinality(Holding(y))
  BY <1>4, <1>5
<1>7. \A q \in Place : var'[q] \in {var[q], Null} BY <1>1
<1>8. Cardinality(Holding(o)) >= 1
  <2>1. Cardinality(Holding(o)) \in Nat /\ Cardinality(Holding(o)) # 0 BY HoldersCounted
  <2> QED BY <2>1
<1> QED BY <1>1, <1>4, <1>6, <1>7, <1>8

LEMMA PopStep == ASSUME IInv, DoPop PROVE IInv'
<1>1. PICK e : e = Current OBVIOUS
<1>2. /\ e = work[1] /\ e.op = "pop" /\ EntryIs(e, 1) /\ work # <<>> /\ e \in Op /\ Len(work) >= 1
      /\ (\A y : ~Creates(y)) /\ (\A y : Given(y) = 0) /\ Len(work) \in Nat /\ work \in Seq(Op)
      /\ Does("pop") /\ UNCHANGED <<live, field, cyclic, frames, fault>> /\ e.ret \subseteq Object
  BY <1>1, FrontIs, OpIs DEF DoPop
<1>3. (\A y : Slots(y)' = Slots(y)) /\ base' = base BY <1>2, SameHolders
<1>4. \/ Len(work) = 1 /\ e.ret = {} /\ depth > base /\ Last = e
      \/ Len(work) = 2 /\ Ends("return") /\ e.ret = Last.ret /\ depth >= base
      \/ Len(work) = 2 /\ Ends("unwind") /\ e.ret = {} /\ depth > 1
  <2>1. CASE Len(work) = 1
    <3>1. Last = e BY <1>2, <2>1 DEF Last
    <3>2. ~Ends("return") /\ ~Ends("unwind") BY <1>2, <3>1 DEF Ends
    <3> QED BY <1>2, <2>1, <3>1, <3>2 DEF EntryIs
  <2>2. CASE Len(work) # 1
    <3>1. 1 = Len(work) - 1 BY <1>2, <2>2 DEF EntryIs
    <3>2. Len(work) = 2 BY <1>2, <3>1
    <3>3. ~(Ends("return") /\ Ends("unwind")) BY DEF Ends
    <3> QED BY <1>2, <2>2, <3>2, <3>3 DEF EntryIs
  <2> QED BY <2>1, <2>2
<1>5. depth \in Block /\ base \in Block /\ depth \in Nat /\ base \in Nat
  <2>1. depth \in Block BY DEF IInv, TypeOK
  <2>2. 1 \in Block BY DepthAssumption DEF Block
  <2>3. frames \in Seq([base : Block, to : Place \cup {Null}]) BY DEF IInv, TypeOK
  <2>4. frames # <<>> => Len(frames) \in 1 .. Len(frames) BY <2>3, SeqIs, EmptySeq
  <2>5. frames # <<>> => frames[Len(frames)] \in [base : Block, to : Place \cup {Null}] BY <2>3, <2>4, SeqIs
  <2>6. base \in Block BY <2>2, <2>5 DEF base
  <2> QED BY <2>1, <2>6 DEF Block
<1>6. PICK held : held = {v \in Variable : var[<<depth, v>>] # Null} OBVIOUS
<1>7. CASE held = {}
  <2>1. PICK s : s = Sweep(depth, e.ret) OBVIOUS
  <2>2. depth' = depth - 1 /\ Then(<<s>>) /\ UNCHANGED <<share, var>> BY <1>1, <1>6, <1>7, <2>1 DEF DoPop
  <2>3. s \in Op /\ s.op = "sweep" /\ s.block = depth /\ s.ret = e.ret
    <3>1. PICK ret : ret = e.ret OBVIOUS
    <3>2. PICK b : b = depth OBVIOUS
    <3>3. ret \subseteq Object /\ b \in Block /\ s = Sweep(b, ret) BY <1>2, <1>5, <2>1, <3>1, <3>2
    <3>4. s \in Op /\ s.op = "sweep" /\ s.block = b /\ s.ret = ret BY <3>3, SweepOp
    <3> QED BY <3>1, <3>2, <3>4
  <2>4. PICK ops : ops = <<s>> OBVIOUS
  <2>5. ops \in Seq(Op) /\ Len(ops) = 1 /\ ops[1] = s /\ ops # <<>> /\ Then(ops) BY <2>2, <2>3, <2>4, OneOp
  <2>6. After(ops, 1) BY <1>2, <2>5, ThenIs
  <2>7. \A y : Holding(y)' = Holding(y) BY <2>2, SameHolders
  <2>8. \A i \in 1 .. Len(ops) : i = 1 BY <2>5
  <2>9. depth - 1 \in Block
    <3>1. depth > 1
      <4>1. CASE Len(work) = 1 /\ depth > base
        <5>1. base >= 1 BY <1>5 DEF Block
        <5> QED BY <1>5, <4>1, <5>1
      <4>2. CASE Ends("return") /\ depth >= base
        <5>1. Len(work) \in 1 .. Len(work) BY <1>2
        <5>2. EntryIs(Last, Len(work)) /\ Last.op = "return" BY <4>2, <5>1 DEF IInv, WorkAre, Last, Ends
        <5>3. frames # <<>> BY <5>2 DEF EntryIs
        <5>4. Len(frames) \in 1 .. Len(frames) BY <5>3, SeqIs, EmptySeq DEF IInv, TypeOK
        <5>5. base > 1 BY <5>3, <5>4 DEF IInv, FramesAre, base
        <5> QED BY <1>5, <4>2, <5>5
      <4> QED BY <1>4, <4>1, <4>2
    <3> QED BY <1>5, <3>1, DepthAssumption DEF Block
  <2>10. TypeOK' BY <1>2, <2>2, <2>9 DEF IInv, TypeOK, share
  <2>11. FramesAre' BY <1>2 DEF IInv, FramesAre
  <2>12. \A q \in Place : q[1] > depth' => var'[q] = Null
    <3>1. SUFFICES ASSUME NEW q \in Place, q[1] > depth - 1 PROVE var[q] = Null BY <2>2
    <3>2. q[1] \in Nat /\ q[2] \in Variable /\ q = <<q[1], q[2]>> BY DEF Place, Block
    <3>3. CASE q[1] = depth BY <1>6, <1>7, <3>2, <3>3
    <3>4. CASE q[1] # depth
      <4>1. q[1] > depth BY <1>5, <3>1, <3>2, <3>4
      <4> QED BY <4>1 DEF IInv, DepthIs
    <3> QED BY <3>3, <3>4
  <2>13. CASE Len(work) = 1
    <3>1. e.ret = {} /\ depth > base /\ Last = e BY <1>4, <2>13
    <3>2. Ends("pop") /\ ~Ends("sweep") /\ ~Ends("return") /\ ~Ends("unwind") BY <1>2, <3>1 DEF Ends
    <3>3. Replaced(ops)
      <4>1. Len(work') = 1 BY <2>5, <2>6, <2>13 DEF After
      <4> QED BY <2>5, <2>6, <4>1 DEF After, Replaced
    <3>4. EntryIs(s, 1)'
      <4>1. Len(work') = 1 BY <2>5, <3>3 DEF Replaced
      <4>2. PICK i \in Nat : i = 1 OBVIOUS
      <4>3. i = Len(work') /\ ~(i > 1) BY <4>1, <4>2
      <4>4. s.ret = {} BY <2>3, <3>1
      <4>5. EntryIs(s, i)' BY <2>3, <4>3, <4>4 DEF EntryIs
      <4> QED BY <4>2, <4>5
    <3>5. /\ WorkAre' /\ work' # <<>> /\ Last' = s /\ (\A op : Ends(op)' <=> s.op = op)
          /\ (\A y : Given(y)' = 0) /\ (\A y : ~Creates(y)') /\ (\A y : y \notin Dying')
      <4>1. PICK n \in Nat : n = 1 OBVIOUS
      <4>2. n = Len(ops) /\ n > 0 BY <2>5, <4>1
      <4>3. ops[n] = s BY <2>5, <4>1
      <4>4. \A i \in 1 .. n : ops[i].op \notin {"destroy"} /\ EntryIs(ops[i], i)'
        BY <2>3, <2>5, <2>8, <3>4, <4>2
      <4> QED BY <2>3, <2>5, <3>3, <4>2, <4>3, <4>4, WorkReplaced
    <3>6. \A y : y \notin Dying /\ ~Unlinks(y)
      <4>1. \A i \in 1 .. Len(work) : work[i].op = "pop" BY <1>2, <2>13
      <4> QED BY <4>1, DyingHas DEF Has
    <3>7. \A y \in Object : home[y] = 0 BY <3>2 DEF IInv, PoolsAre
    <3>8. PoolsAre' BY <2>2, <3>7 DEF PoolsAre, share
    <3>9. DepthIs' BY <1>3, <1>5, <2>2, <2>12, <3>1 DEF DepthIs
    <3>10. KindsAre'
      <4>1. ASSUME NEW y \in Object PROVE KindIs(y)'
        <5>1. KindIs(y) BY DEF IInv, KindsAre
        <5> QED BY <1>2, <2>2, <3>2, <3>5, <3>6, <5>1 DEF KindIs, share
      <4> QED BY <4>1 DEF KindsAre
    <3>11. CountsAre' BY <1>2, <1>3, <2>2, <2>7, <3>5 DEF IInv, CountsAre, CountIs, share
    <3>12. MapIs' BY <1>2, <1>3, <3>6 DEF IInv, MapIs, InMap
    <3> QED BY <2>10, <2>11, <3>5, <3>8, <3>9, <3>10, <3>11, <3>12 DEF IInv
  <2>14. CASE Len(work) = 2
    <3>1. \/ Ends("return") /\ e.ret = Last.ret /\ depth >= base
          \/ Ends("unwind") /\ e.ret = {}
      BY <1>4, <2>14
    <3>2. Len(work) > 1 BY <2>14
    <3>3. Stays(ops, 1) BY <2>5, <3>2, ThenStays
    <3>4. /\ work' # <<>> /\ Last' = Last /\ (\A op : Ends(op)' <=> Ends(op))
          /\ (\A y : Given(y)' = 0) /\ (\A y : ~Creates(y)')
          /\ (\A y : y \in Dying' <=> y \in Dying) /\ (\A y : Unlinks(y) => Unlinks(y)')
      <4>1. \A y : ~Lists(ops, "destroy", y) BY <2>3, <2>5, <2>8 DEF Lists
      <4>2. \A y : ~Drops(1, "destroy", y) /\ ~Drops(1, "unlink", y) BY <1>2 DEF Drops
      <4>3. ops[1].op = "sweep" BY <2>3, <2>5
      <4> QED BY <3>3, <4>1, <4>2, <4>3 DEF Stays
    <3>5. Len(work') = 2 /\ work'[1] = s /\ work'[2] = work[2] /\ work' \in Seq(Op) /\ Last = work[2]
      <4>1. Len(work') = 2 /\ work'[1] = s BY <2>5, <2>6, <2>14 DEF After
      <4>2. 2 \in Len(ops) + 1 .. Len(work') /\ 2 - Len(ops) + 1 = 2 BY <2>5, <4>1
      <4>3. work'[2] = work[2 - Len(ops) + 1] BY <2>6, <4>2 DEF After
      <4>4. work'[2] = work[2] BY <4>2, <4>3
      <4> QED BY <2>6, <2>14, <4>1, <4>4 DEF After, Last
    <3>6. EntryIs(s, 1)'
      <4>1. PICK i \in Nat : i = 1 OBVIOUS
      <4>2. i = Len(work') - 1 /\ i # Len(work') /\ ~(i > 1) BY <3>5, <4>1
      <4>3. EntryIs(s, i)' BY <2>3, <3>1, <3>4, <4>2 DEF EntryIs
      <4> QED BY <4>1, <4>3
    <3>7. EntryIs(work[2], 2)'
      <4>1. PICK r : r = work[2] OBVIOUS
      <4>2. PICK i \in Nat : i = 2 OBVIOUS
      <4>3. i \in 1 .. Len(work) BY <2>14, <4>2
      <4>4. EntryIs(r, i) /\ r.op \in {"return", "unwind"} BY <3>1, <3>5, <4>1, <4>2, <4>3 DEF IInv, WorkAre, Ends
      <4>5. i = Len(work') BY <3>5, <4>2
      <4>6. r.op = "return" => depth' >= base - 1
        <5>1. r.op = "return" => Ends("return") /\ ~Ends("unwind") BY <3>1, <3>5, <4>1 DEF Ends
        <5> QED BY <1>5, <2>2, <3>1, <5>1
      <4>7. EntryIs(r, i)' BY <1>2, <1>3, <4>4, <4>5, <4>6 DEF EntryIs
      <4>8. r = work'[2] BY <3>5, <4>1
      <4> QED BY <4>2, <4>7, <4>8
    <3>8. WorkAre'
      <4>1. \A i \in 1 .. Len(work') : i = 1 \/ i = 2 BY <3>5
      <4>2. \A i \in 1 .. Len(work') : EntryIs(work[i], i)'
        <5>1. EntryIs(work[1], 1)' BY <3>5, <3>6
        <5> QED BY <3>7, <4>1, <5>1
      <4>3. \A i \in 1 .. Len(work') : work'[i].op # "destroy"
        BY <2>3, <3>1, <3>5, <4>1 DEF Ends
      <4>4. work' \in Seq(Op)' BY <3>5 DEF Op, Value, Place, Block
      <4> QED BY <4>2, <4>3, <4>4 DEF WorkAre
    <3>9. PoolsAre'
      <4>1. ~SweepWaits /\ ~Ends("sweep") BY <1>2, <2>14, <3>1 DEF SweepWaits, Ends
      <4>2. \A y \in Object : home[y] # 0 => home[y] = depth BY <4>1 DEF IInv, PoolsAre
      <4>3. SweepWaits' /\ work'[Len(work') - 1].block = depth BY <2>3, <3>5 DEF SweepWaits
      <4>4. \A y \in Object : home'[y] = home[y] BY <2>2 DEF share
      <4> QED BY <3>1, <3>4, <4>2, <4>3, <4>4 DEF PoolsAre
    <3>10. DepthIs'
      <4>1. ~Ends("sweep")' /\ ~Ends("pop")' BY <3>1, <3>4 DEF Ends
      <4> QED BY <2>12, <3>4, <4>1 DEF DepthIs
    <3>11. KindsAre'
      <4>1. ASSUME NEW y \in Object PROVE KindIs(y)'
        <5>1. KindIs(y) BY DEF IInv, KindsAre
        <5> QED BY <1>2, <2>2, <3>4, <5>1, KindSame DEF share
      <4> QED BY <4>1 DEF KindsAre
    <3>12. CountsAre' BY <1>2, <1>3, <2>2, <2>7, <3>4 DEF IInv, CountsAre, CountIs, share
    <3>13. MapIs' BY <1>2, <1>3, <3>4 DEF IInv, MapIs, InMap
    <3> QED BY <2>10, <2>11, <3>8, <3>9, <3>10, <3>11, <3>12, <3>13 DEF IInv
  <2> QED BY <1>4, <2>13, <2>14
<1>8. CASE held # {}
  <2>1. PICK v \in held : /\ var' = [var EXCEPT ![<<depth, v>>] = Null]
                          /\ IF ~HandsOver(var[<<depth, v>>], e.ret)
                             THEN work' = <<Unref(var[<<depth, v>>], 0)>> \o work /\ UNCHANGED share
                             ELSE /\ n_shares' = [n_shares EXCEPT ![var[<<depth, v>>]] = 0]
                                  /\ created' = [created EXCEPT ![var[<<depth, v>>]] = 0]
                                  /\ home' = [home EXCEPT ![var[<<depth, v>>]] = 0]
                                  /\ UNCHANGED <<stray, work>>
                          /\ UNCHANGED depth
    BY <1>1, <1>6, <1>8 DEF DoPop
  <2>2. PICK p, o : p = <<depth, v>> /\ o = var[<<depth, v>>] OBVIOUS
  <2>3. p \in Place /\ o = var[p] /\ o # Null BY <1>5, <1>6, <2>2 DEF Place
  <2>4. /\ o \in Object /\ var' \in [Place -> Object \cup {Null}] /\ Cardinality(Holding(o)) >= 1
        /\ \A q \in Place : var'[q] \in {var[q], Null}
        /\ \A y \in Object : Cardinality(Holding(y)') = IF y = o THEN Cardinality(Holding(y)) - 1
                                                       ELSE Cardinality(Holding(y))
    BY <2>1, <2>2, <2>3, VarEmptied
  <2>5. \A y \in Object : /\ n_shares[y] = Cardinality(Holding(y)) + Cardinality(Slots(y)) + stray[y]
                          /\ Cardinality(Holding(y)) \in Nat /\ Cardinality(Slots(y)) \in Nat /\ stray[y] \in Nat
    BY <1>2, HoldersCounted, StrayIs DEF IInv, CountsAre, CountIs
  <2>6. CASE ~HandsOver(o, e.ret)
    <3>1. PICK u : u = Unref(o, 0) OBVIOUS
    <3>2. u \in Op /\ u.op = "unref" /\ u.obj = o /\ u.block = 0 BY <2>4, <3>1, ObjectOps
    <3>3. work' = <<u>> \o work /\ UNCHANGED share /\ depth' = depth BY <2>1, <2>2, <2>6, <3>1
    <3>4. NoLink(0) BY <1>2, LinksStay
    <3>5. EntryIs(u, 1)'
      <4>1. Len(work') \in Nat /\ Len(work') > 1 BY <1>2, <3>2, <3>3, PushedLen
      <4> QED BY <3>2, <4>1, UnrefPlaced
    <3>6. /\ WorkAre' /\ work' # <<>> /\ Last' = Last /\ (\A op : Ends(op)' <=> Ends(op)) /\ SameWait
          /\ (\A y : Given(y)' = IF o = y THEN 1 ELSE 0) /\ (\A y : ~Creates(y)')
          /\ (\A y : y \in Dying' <=> y \in Dying) /\ (\A y : Unlinks(y) => Unlinks(y)')
      <4>1. work[1].op \notin {"create", "unref"} /\ Len(work) > 0 BY <1>2
      <4> QED BY <1>2, <3>2, <3>3, <3>4, <3>5, <4>1, Pushed
    <3>7. TypeOK' BY <1>2, <2>4, <3>3 DEF IInv, TypeOK, share
    <3>8. ASSUME NEW y \in Object PROVE KindIs(y)' /\ CountIs(y)' /\ InMap(y)'
      <4>1. KindIs(y)'
        <5>1. KindIs(y) BY DEF IInv, KindsAre
        <5> QED BY <1>2, <3>3, <3>6, <5>1, KindSame DEF share
      <4>2. CountIs(y)'
        <5>1. n_shares'[y] = n_shares[y] /\ stray'[y] = stray[y] BY <3>3 DEF share
        <5>2. n_shares'[y] = Cardinality(Holding(y)') + Cardinality(Slots(y)') + Given(y)' + stray'[y]
          <6>1. Cardinality(Holding(y)') = IF y = o THEN Cardinality(Holding(y)) - 1
                                           ELSE Cardinality(Holding(y))
            BY <2>4
          <6>2. Slots(y)' = Slots(y) BY <1>3
          <6>3. Given(y)' = IF o = y THEN 1 ELSE 0 BY <3>6
          <6>4. /\ n_shares[y] = Cardinality(Holding(y)) + Cardinality(Slots(y)) + stray[y]
                /\ Cardinality(Holding(y)) \in Nat /\ Cardinality(Slots(y)) \in Nat /\ stray[y] \in Nat
            BY <2>5
          <6> QED BY <5>1, <6>1, <6>2, <6>3, <6>4
        <5> QED BY <5>2 DEF CountIs
      <4>3. InMap(y)' BY <1>2, <1>3, <3>6 DEF IInv, MapIs, InMap
      <4> QED BY <4>1, <4>2, <4>3
    <3> QED BY <1>2, <2>4, <3>3, <3>6, <3>7, <3>8, StepKeeps DEF share
  <2>7. CASE HandsOver(o, e.ret)
    <3>1. /\ n_shares' = [n_shares EXCEPT ![o] = 0] /\ created' = [created EXCEPT ![o] = 0]
          /\ home' = [home EXCEPT ![o] = 0] /\ stray' = stray /\ work' = work /\ depth' = depth
      BY <2>1, <2>2, <2>7
    <3>2. o \in e.ret /\ n_shares[o] <= 1 BY <2>7 DEF HandsOver
    <3>3. Cardinality(Holding(o)) = 1 /\ Cardinality(Slots(o)) = 0 /\ n_shares[o] = 1 /\ stray[o] = 0
      <4>1. PICK h, t, k \in Nat : h = Cardinality(Holding(o)) /\ t = Cardinality(Slots(o)) /\ k = stray[o]
        BY <2>4, <2>5
      <4>2. n_shares[o] = h + t + k /\ h >= 1 BY <2>4, <2>5, <4>1
      <4> QED BY <3>2, <4>1, <4>2
    <3>4. KindIs(o) /\ o \notin Dying /\ created[o] # 0 BY <2>4, <3>3 DEF IInv, KindsAre, KindIs
    <3>5. /\ n_shares' \in [Object -> Nat] /\ n_shares'[o] = 0
          /\ created' \in [Object -> Block \cup {0}] /\ created'[o] = 0
          /\ home' \in [Object -> Block \cup {0}] /\ home'[o] = 0
          /\ \A y \in Object : y # o => /\ n_shares'[y] = n_shares[y] /\ created'[y] = created[y]
                                        /\ home'[y] = home[y]
      BY <2>4, <3>1 DEF IInv, TypeOK
    <3>6. NoLink(0) BY <1>2, LinksStay
    <3>7. WorkAre' BY <1>2, <3>1, <3>6, OrderSame
    <3>8. TypeOK' BY <1>2, <2>4, <3>1, <3>5 DEF IInv, TypeOK
    <3>9. /\ Last' = Last /\ (\A op : Ends(op)' <=> Ends(op)) /\ SameWait
          /\ (\A y : Given(y)' = Given(y)) /\ (\A y : Creates(y)' <=> Creates(y))
          /\ (\A y : y \in Dying' <=> y \in Dying) /\ (\A y : Unlinks(y) => Unlinks(y)')
      BY <3>1, WorkSame
    <3>10. Ends("return") /\ Last.value = <<"object", o>>
      <4>1. Ends("return") /\ e.ret = Last.ret BY <1>4, <3>2
      <4>2. PICK r : r = Last OBVIOUS
      <4>3. Len(work) \in 1 .. Len(work) BY <1>2
      <4>4. r \in Op /\ r.op = "return" /\ EntryIs(r, Len(work)) /\ r.value \in Value
        BY <1>2, <4>1, <4>2, <4>3, SeqIs, OpIs DEF IInv, WorkAre, Last, Ends
      <4>5. PICK w \in Value : w = r.value BY <4>4
      <4>6. (w[1] = "object" => r.ret = {w[2]}) /\ (w[1] # "object" => r.ret = {}) BY <4>4, <4>5 DEF EntryIs
      <4>7. w[1] = "object" /\ w[2] = o BY <3>2, <4>1, <4>2, <4>6
      <4>8. w = <<"object", o>> BY <4>7, ValueIs
      <4> QED BY <4>1, <4>2, <4>5, <4>8
    <3>11. ASSUME NEW y \in Object PROVE KindIs(y)' /\ CountIs(y)' /\ InMap(y)'
      <4>1. KindIs(y)'
        <5>1. CASE y = o BY <1>2, <3>4, <3>5, <3>9, <3>10, <5>1 DEF KindIs
        <5>2. CASE y # o
          <6>1. KindIs(y) BY DEF IInv, KindsAre
          <6> QED BY <1>2, <3>5, <3>9, <5>2, <6>1, KindSame
        <5> QED BY <5>1, <5>2
      <4>2. CountIs(y)'
        <5>1. CASE y = o
          <6>1. n_shares'[y] = Cardinality(Holding(y)') + Cardinality(Slots(y)') + Given(y)' + stray'[y]
            <7>1. n_shares'[y] = 0 /\ stray'[y] = 0 BY <3>1, <3>3, <3>5, <5>1
            <7>2. Cardinality(Holding(y)') = 0 BY <2>4, <3>3, <5>1
            <7>3. Cardinality(Slots(y)') = 0 /\ Given(y)' = 0 BY <1>2, <1>3, <3>3, <3>9, <5>1
            <7> QED BY <7>1, <7>2, <7>3
          <6> QED BY <6>1 DEF CountIs
        <5>2. CASE y # o
          <6>1. n_shares'[y] = Cardinality(Holding(y)') + Cardinality(Slots(y)') + Given(y)' + stray'[y]
            BY <1>2, <1>3, <2>4, <2>5, <3>1, <3>5, <3>9, <5>2
          <6> QED BY <6>1 DEF CountIs
        <5> QED BY <5>1, <5>2
      <4>3. InMap(y)' BY <1>2, <1>3, <3>9 DEF IInv, MapIs, InMap
      <4> QED BY <4>1, <4>2, <4>3
    <3>12. work' # <<>> /\ \A y \in Object : home'[y] \in {home[y], 0} BY <1>2, <3>1, <3>5
    <3> QED BY <1>2, <2>4, <3>1, <3>7, <3>8, <3>9, <3>11, <3>12, StepKeeps
  <2> QED BY <2>6, <2>7
<1> QED BY <1>7, <1>8

(* The innermost function and its caller.                                  *)
LEMMA FramesIs ==
  ASSUME IInv
  PROVE  /\ base \in Nat /\ base >= 1 /\ depth \in Nat /\ depth >= 1 /\ depth \in Block /\ 1 \in Block
         /\ frames # <<>> => /\ base > 1 /\ Len(frames) \in Nat /\ Len(frames) > 0
                             /\ frames[Len(frames)].to \in Place \cup {Null}
                             /\ frames[Len(frames)].to # Null => frames[Len(frames)].to[1] < base
<1>1. frames \in Seq([base : Block, to : Place \cup {Null}]) /\ depth \in Block BY DEF IInv, TypeOK
<1>2. 1 \in Block /\ depth \in Nat /\ depth >= 1 BY <1>1, DepthAssumption DEF Block
<1>3. CASE frames = <<>> BY <1>1, <1>2, <1>3 DEF base
<1>4. CASE frames # <<>>
  <2>1. Len(frames) \in Nat /\ Len(frames) > 0 BY <1>1, <1>4, SeqIs, EmptySeq
  <2>2. Len(frames) \in 1 .. Len(frames) BY <2>1
  <2>3. frames[Len(frames)] \in [base : Block, to : Place \cup {Null}] BY <1>1, <2>2, SeqIs
  <2>4. base = frames[Len(frames)].base BY <1>4 DEF base
  <2>5. /\ frames[Len(frames)].base > 1
        /\ frames[Len(frames)].to # Null => frames[Len(frames)].to[1] < frames[Len(frames)].base
    BY <2>2 DEF IInv, FramesAre
  <2> QED BY <1>1, <1>2, <2>1, <2>3, <2>4, <2>5 DEF Block
<1> QED BY <1>3, <1>4

LEMMA Returned ==
  ASSUME IInv, frames # <<>>, frames' = SubSeq(frames, 1, Len(frames) - 1)
  PROVE  /\ frames' \in Seq([base : Block, to : Place \cup {Null}])
         /\ base' \in Nat /\ base' < base /\ FramesAre'
<1>1. frames \in Seq([base : Block, to : Place \cup {Null}]) /\ depth \in Block BY DEF IInv, TypeOK
<1>2. PICK n \in Nat : n = Len(frames) - 1
  <2>1. PICK m \in Nat : m = Len(frames) BY FramesIs
  <2>2. m > 0 BY <2>1, FramesIs
  <2>3. m - 1 \in Nat BY <2>2
  <2> QED BY <2>1, <2>3
<1>3. Len(frames) = n + 1 BY <1>1, <1>2, SeqIs
<1>4. /\ frames' \in Seq([base : Block, to : Place \cup {Null}]) /\ Len(frames') = n
      /\ \A i \in 1 .. n : frames'[i] = frames[i]
  <2>1. n <= Len(frames) BY <1>3
  <2>2. frames' = SubSeq(frames, 1, n) BY <1>2
  <2>3. \A i \in 1 .. n : frames[i] \in [base : Block, to : Place \cup {Null}]
    <3>1. \A i \in 1 .. n : i \in 1 .. Len(frames) BY <1>3
    <3> QED BY <1>1, <3>1, SeqIs
  <2>4. frames' = [i \in 1 .. n |-> frames[i]] BY <1>1, <1>3, <2>2
  <2> QED BY <2>3, <2>4
<1>5. FramesAre'
  <2>1. \A i \in 1 .. Len(frames') : i \in 1 .. Len(frames) /\ frames'[i] = frames[i] BY <1>3, <1>4
  <2>2. \A i \in 1 .. Len(frames') : \A j \in 1 .. i - 1 : j \in 1 .. Len(frames') BY <1>4
  <2> QED BY <2>1, <2>2 DEF IInv, FramesAre
<1>6. base' \in Nat /\ base' < base
  <2>1. CASE n = 0
    <3>1. frames' = <<>> BY <1>4, <2>1, EmptySeq
    <3> QED BY <3>1, FramesIs DEF base
  <2>2. CASE n # 0
    <3>1. n \in 1 .. n /\ n + 1 \in 1 .. Len(frames) /\ n \in 1 .. n + 1 - 1 BY <1>3, <2>2
    <3>2. frames' # <<>> BY <1>4, <2>2
    <3>3. base' = frames[n].base BY <1>4, <3>1, <3>2 DEF base
    <3>4. base = frames[n + 1].base BY <1>3 DEF base
    <3>5. frames[n].base < frames[n + 1].base BY <3>1 DEF IInv, FramesAre
    <3>6. n \in 1 .. Len(frames) BY <1>3, <3>1
    <3>8. frames[n] \in [base : Block, to : Place \cup {Null}] BY <1>1, <3>6, SeqIs
    <3>9. frames[n].base \in Block BY <3>8
    <3>7. frames[n].base \in Nat BY <3>9 DEF Block
    <3> QED BY <3>3, <3>4, <3>5, <3>7
  <2> QED BY <2>1, <2>2
<1> QED BY <1>4, <1>5, <1>6

(* The entries with which a caller goes on: the new shared pointer, the    *)
(* store of the result and the sweep of its statement.                     *)
Before(c, w) == <<c>> \o w
IsBefore(v, c, w) ==
  /\ v \in Seq(Op) /\ Len(w) \in Nat /\ Len(v) = Len(w) + 1 /\ v[1] = c
  /\ \A i \in 2 .. Len(v) : v[i] = w[i - 1]

LEMMA OneInFront ==
  ASSUME NEW c \in Op, NEW w \in Seq(Op), NEW v, v = Before(c, w)
  PROVE  IsBefore(v, c, w)
<1>1. PICK ops : ops = <<c>> OBVIOUS
<1>2. ops \in Seq(Op) /\ Len(ops) = 1 /\ ops[1] = c BY <1>1, OneOp
<1>3. v = ops \o w BY <1>1 DEF Before
<1>4. /\ v \in Seq(Op) /\ Len(v) = Len(ops) + Len(w)
      /\ \A i \in 1 .. Len(ops) : v[i] = ops[i]
      /\ \A i \in Len(ops) + 1 .. Len(v) : v[i] = w[i - Len(ops)]
  <2>1. ops \in Seq(Op) BY <1>2
  <2> QED BY <1>3, <2>1, InFront
<1>5. Len(w) \in Nat BY SeqIs
<1> QED BY <1>2, <1>4, <1>5 DEF IsBefore

LEMMA ResultEnds ==
  ASSUME NEW t \in Op, NEW s \in Op, NEW z, z = <<s>>, NEW q, q = z \/ q = Before(t, z)
  PROVE  /\ q \in Seq(Op) /\ Len(q) \in Nat /\ Len(q) >= 1 /\ q[Len(q)] = s
         /\ q[1] = s \/ (q # z /\ q[1] = t)
         /\ \A i \in 1 .. Len(q) : \/ q # z /\ q[i] = t /\ i < Len(q)
                                   \/ q[i] = s /\ i = Len(q)
<1>1. z \in Seq(Op) /\ Len(z) = 1 /\ z[1] = s BY OneOp
<1>2. CASE q = z
  <2>1. Len(q) = 1 /\ q[1] = s /\ q \in Seq(Op) BY <1>1, <1>2
  <2>2. \A i \in 1 .. Len(q) : i = 1 BY <2>1
  <2> QED BY <2>1, <2>2
<1>3. CASE q # z
  <2>1. /\ q \in Seq(Op) /\ Len(q) = Len(z) + 1 /\ q[1] = t
        /\ \A i \in 2 .. Len(q) : q[i] = z[i - 1]
    <3>1. z \in Seq(Op) BY <1>1
    <3>2. q = Before(t, z) BY <1>3
    <3>3. IsBefore(q, t, z) BY <3>1, <3>2, OneInFront
    <3> QED BY <3>3 DEF IsBefore
  <2>2. Len(q) = 2 BY <1>1, <2>1
  <2>3. q[2] = s
    <3>1. PICK i : i = 2 OBVIOUS
    <3>2. i \in 2 .. Len(q) /\ i - 1 = 1 BY <2>2, <3>1
    <3>3. q[i] = z[i - 1] BY <2>1, <3>2
    <3> QED BY <1>1, <3>1, <3>2, <3>3
  <2>4. \A i \in 1 .. Len(q) : i = 1 \/ i = 2 BY <2>2
  <2> QED BY <1>3, <2>1, <2>2, <2>3, <2>4
<1> QED BY <1>2, <1>3

LEMMA ResultOps ==
  ASSUME NEW c \in Op, NEW t \in Op, NEW s \in Op, NEW z, z = <<s>>, NEW q, NEW ops,
         q = z \/ q = Before(t, z), ops = q \/ ops = Before(c, q)
  PROVE  /\ ops \in Seq(Op) /\ Len(ops) \in Nat /\ Len(ops) >= 1 /\ ops[Len(ops)] = s
         /\ ops # q => ops[1] = c /\ Len(ops) > 1
         /\ ops = q => ops[1] = s \/ (q # z /\ ops[1] = t)
         /\ \A i \in 1 .. Len(ops) : \/ i = 1 /\ ops # q /\ ops[i] = c
                                     \/ q # z /\ ops[i] = t /\ i < Len(ops)
                                     \/ ops[i] = s /\ i = Len(ops)
<1>1. /\ q \in Seq(Op) /\ Len(q) \in Nat /\ Len(q) >= 1 /\ q[Len(q)] = s
      /\ q[1] = s \/ (q # z /\ q[1] = t)
      /\ \A i \in 1 .. Len(q) : \/ q # z /\ q[i] = t /\ i < Len(q)
                                \/ q[i] = s /\ i = Len(q)
  BY ResultEnds
<1>2. CASE ops = q BY <1>1, <1>2
<1>3. CASE ops # q
  <2>1. /\ ops \in Seq(Op) /\ Len(ops) = Len(q) + 1 /\ ops[1] = c
        /\ \A i \in 2 .. Len(ops) : ops[i] = q[i - 1]
    <3>1. q \in Seq(Op) BY <1>1
    <3>2. ops = Before(c, q) BY <1>3
    <3>3. IsBefore(ops, c, q) BY <3>1, <3>2, OneInFront
    <3> QED BY <3>3 DEF IsBefore
  <2>2. PICK n \in Nat : n = Len(q) BY <1>1
  <2>3. Len(ops) = n + 1 /\ n >= 1 BY <1>1, <2>1, <2>2
  <2>4. ASSUME NEW i \in 1 .. Len(ops)
        PROVE  \/ i = 1 /\ ops[i] = c
               \/ q # z /\ ops[i] = t /\ i < Len(ops)
               \/ ops[i] = s /\ i = Len(ops)
    <3>1. CASE i = 1 BY <2>1, <3>1
    <3>2. CASE i # 1
      <4>1. PICK j \in Nat : j = i - 1 /\ i = j + 1 /\ j \in 1 .. n /\ i \in 2 .. Len(ops) BY <2>3, <3>2
      <4>2. ops[i] = q[j] BY <2>1, <4>1
      <4>3. (q # z /\ q[j] = t /\ j < n) \/ (q[j] = s /\ j = n) BY <1>1, <2>2, <4>1
      <4> QED BY <2>3, <4>1, <4>2, <4>3
    <3> QED BY <3>1, <3>2
  <2>5. ops[Len(ops)] = s
    <3>1. n + 1 \in 2 .. Len(ops) /\ n + 1 - 1 = n BY <2>3
    <3>2. ops[n + 1] = q[n + 1 - 1] BY <2>1, <3>1
    <3> QED BY <1>1, <2>2, <2>3, <3>1, <3>2
  <2>6. Len(ops) \in Nat /\ Len(ops) > 1 BY <2>3
  <2> QED BY <1>3, <2>1, <2>4, <2>5, <2>6
<1> QED BY <1>2, <1>3

LEMMA ReturnStep == ASSUME IInv, DoReturn PROVE IInv'
<1>1. PICK e : e = Current OBVIOUS
<1>2. PICK value : value = e.value OBVIOUS
<1>3. /\ e = work[1] /\ e.op = "return" /\ EntryIs(e, 1) /\ work # <<>> /\ e \in Op /\ Len(work) >= 1
      /\ (\A y : ~Creates(y)) /\ (\A y : Given(y) = 0) /\ Len(work) \in Nat /\ work \in Seq(Op)
      /\ Does("return") /\ UNCHANGED <<live, share, var, field, cyclic, depth>>
      /\ e.ret \subseteq Object /\ value \in Value
  BY <1>1, <1>2, FrontIs, OpIs DEF DoReturn
<1>4. /\ Len(work) = 1 /\ frames # <<>> /\ depth >= base - 1
      /\ (value[1] = "object" => e.ret = {value[2]}) /\ Last = e
  <2>1. 1 = Len(work) BY <1>3 DEF EntryIs
  <2>2. Last = e BY <1>3, <2>1 DEF Last
  <2> QED BY <1>2, <1>3, <2>1, <2>2 DEF EntryIs
<1>5. Ends("return") /\ ~Ends("sweep") /\ ~Ends("unwind") /\ ~SweepWaits
  <2>1. ~(Len(work) > 1) BY <1>4
  <2>2. ~SweepWaits BY <2>1 DEF SweepWaits
  <2>3. Ends("return") /\ ~Ends("sweep") /\ ~Ends("unwind") BY <1>3, <1>4 DEF Ends
  <2> QED BY <2>2, <2>3
<1>6. (\A y : Slots(y)' = Slots(y)) /\ (\A y : Holding(y)' = Holding(y)) BY <1>3, SameHolders
<1>7. \A y : y \notin Dying /\ ~Unlinks(y)
  <2>1. \A i \in 1 .. Len(work) : work[i].op = "return" BY <1>3, <1>4
  <2> QED BY <2>1, DyingHas DEF Has
<1>8. PICK to : to = frames[Len(frames)].to OBVIOUS
<1>9. /\ base \in Nat /\ base > 1 /\ depth \in Nat /\ depth >= 1 /\ depth \in Block
      /\ to \in Place \cup {Null} /\ (to # Null => to[1] < base)
  BY <1>4, <1>8, FramesIs
<1>10. CASE InFunction
  <2>1. PICK u : u = PopScope(e.ret) OBVIOUS
  <2>2. u \in Op /\ u.op = "pop" /\ u.ret = e.ret
    <3>1. PICK ret : ret = e.ret OBVIOUS
    <3>2. ret \subseteq Object BY <1>3, <3>1
    <3> QED BY <2>1, <3>1, <3>2, BlockOps
  <2>3. work' = <<u>> \o work /\ UNCHANGED <<frames, fault>> BY <1>1, <1>10, <2>1 DEF DoReturn
  <2>4. base' = base BY <2>3, SameHolders
  <2>5. EntryIs(u, 1)'
    <3>1. Len(work') = 2 /\ Last' = Last /\ Ends("return")'
      <4>1. Len(work) > 0 BY <1>4
      <4>2. Len(work') = Len(work) + 1 /\ Last' = Last /\ \A op : Ends(op)' <=> Ends(op)
        BY <2>2, <2>3, <4>1, PushedLen
      <4> QED BY <1>4, <1>5, <4>2
    <3>2. depth >= base BY <1>10 DEF InFunction
    <3>3. PICK i \in Nat : i = 1 OBVIOUS
    <3>4. i = Len(work') - 1 /\ ~(i > 1) /\ i # Len(work') BY <3>1, <3>3
    <3>5. u.ret = Last'.ret BY <1>4, <2>2, <3>1
    <3>6. EntryIs(u, i)' BY <1>3, <2>2, <2>4, <3>1, <3>2, <3>4, <3>5 DEF EntryIs
    <3> QED BY <3>3, <3>6
  <2>6. NoLink(0) BY <1>3, LinksStay
  <2>7. /\ WorkAre' /\ work' # <<>> /\ Last' = Last /\ (\A op : Ends(op)' <=> Ends(op)) /\ SameWait
        /\ (\A y : Given(y)' = 0) /\ (\A y : ~Creates(y)')
        /\ (\A y : y \in Dying' <=> y \in Dying) /\ (\A y : Unlinks(y) => Unlinks(y)')
    <3>1. work[1].op \notin {"create", "unref"} /\ Len(work) > 0 BY <1>3
    <3> QED BY <1>3, <2>2, <2>3, <2>5, <2>6, <3>1, Pushed
  <2>8. TypeOK' BY <1>3, <2>3 DEF IInv, TypeOK, share
  <2>9. ASSUME NEW y \in Object PROVE KindIs(y)' /\ CountIs(y)' /\ InMap(y)'
    <3>1. KindIs(y)'
      <4>1. KindIs(y) BY DEF IInv, KindsAre
      <4> QED BY <1>3, <2>7, <4>1, KindSame DEF share
    <3>2. CountIs(y)' BY <1>3, <1>6, <2>7 DEF IInv, CountsAre, CountIs, share
    <3>3. InMap(y)' BY <1>3, <1>6, <2>7 DEF IInv, MapIs, InMap
    <3> QED BY <3>1, <3>2, <3>3
  <2> QED BY <1>3, <2>3, <2>7, <2>8, <2>9, StepKeeps DEF share
<1>11. CASE ~InFunction /\ Gone(value) /\ (value[1] = "slot" => to # Null)
  <2>1. fault' = TRUE /\ UNCHANGED <<frames, work>> BY <1>1, <1>2, <1>8, <1>11 DEF DoReturn
  <2> QED BY <1>3, <2>1, FaultStep
<1>12. CASE ~InFunction /\ ~(Gone(value) /\ (value[1] = "slot" => to # Null))
  <2>1. PICK o : o = value[2] OBVIOUS
  <2>2. PICK a \in BOOLEAN : a <=> value[1] = "object" /\ created[o] = 0 OBVIOUS
  <2>3. PICK r : r = CASE value[1] = "object" -> o
                       [] value[1] = "slot" /\ to # Null -> field[value[2]][value[3]]
                       [] value[1] = "variable" -> var[<<1, value[2]>>]
                       [] OTHER -> Null
    OBVIOUS
  <2>4. PICK c, t, s : c = Create(o) /\ t = Store(to, r) /\ s = Sweep(depth, {}) OBVIOUS
  <2>5. PICK fin : fin = (IF to # Null THEN <<t>> ELSE <<>>) \o <<s>> OBVIOUS
  <2>6. PICK ops : ops = (IF a THEN <<c>> ELSE <<>>) \o fin OBVIOUS
  <2>7. fin = Finish(to, r) BY <2>4, <2>5 DEF Finish
  <2>8. frames' = SubSeq(frames, 1, Len(frames) - 1) /\ Then(ops) /\ fault' = fault
    <3>1. /\ frames' = SubSeq(frames, 1, Len(frames) - 1) /\ fault' = fault
          /\ Then((IF value[1] = "object" /\ created[o] = 0 THEN <<c>> ELSE <<>>)
                  \o CASE value[1] = "object" -> Finish(to, o)
                       [] value[1] = "slot" /\ to # Null -> Finish(to, field[value[2]][value[3]])
                       [] value[1] = "variable" -> Finish(to, var[<<1, value[2]>>])
                       [] OTHER -> Finish(to, Null))
      BY <1>1, <1>2, <1>8, <1>12, <2>1, <2>4 DEF DoReturn
    <3>2. (CASE value[1] = "object" -> Finish(to, o)
             [] value[1] = "slot" /\ to # Null -> Finish(to, field[value[2]][value[3]])
             [] value[1] = "variable" -> Finish(to, var[<<1, value[2]>>])
             [] OTHER -> Finish(to, Null)) = fin
      <4>1. CASE value[1] = "object"
        <5>1. r = o BY <2>3, <4>1
        <5> QED BY <2>7, <4>1, <5>1
      <4>2. CASE value[1] = "slot" /\ to # Null
        <5>1. r = field[value[2]][value[3]] BY <2>3, <4>2
        <5> QED BY <2>7, <4>2, <5>1
      <4>3. CASE value[1] = "variable"
        <5>1. r = var[<<1, value[2]>>] BY <2>3, <4>3
        <5> QED BY <2>7, <4>3, <5>1
      <4>4. CASE value[1] # "object" /\ ~(value[1] = "slot" /\ to # Null) /\ value[1] # "variable"
        <5>1. r = Null BY <2>3, <4>4
        <5> QED BY <2>7, <4>4, <5>1
      <4> QED BY <4>1, <4>2, <4>3, <4>4
    <3>3. (IF value[1] = "object" /\ created[o] = 0 THEN <<c>> ELSE <<>>) = (IF a THEN <<c>> ELSE <<>>)
      BY <2>2
    <3> QED BY <2>6, <3>1, <3>2, <3>3
  <2>9. /\ frames' \in Seq([base : Block, to : Place \cup {Null}])
        /\ base' \in Nat /\ base' < base /\ FramesAre'
    BY <1>4, <2>8, Returned
  <2>10. /\ depth = base - 1 /\ depth >= base' BY <1>4, <1>9, <1>12, <2>9 DEF InFunction
  <2>11. value[1] = "object" => o \in Object /\ o \in live /\ value = <<"object", o>>
    BY <1>3, <1>12, <2>1, ValueIs DEF Gone
  <2>12. r \in Object \cup {Null}
    <3>1. /\ value[1] = "slot" => value[2] \in Object /\ value[3] \in Field
          /\ value[1] = "variable" => value[2] \in Variable
      BY <1>3, ValueIs
    <3>2. value[1] = "variable" => <<1, value[2]>> \in Place BY <3>1, FramesIs DEF Place
    <3>3. CASE value[1] = "object"
      <4>1. r = o BY <2>3, <3>3
      <4> QED BY <2>11, <3>3, <4>1
    <3>4. CASE value[1] = "slot" /\ to # Null
      <4>1. r = field[value[2]][value[3]] BY <2>3, <3>4
      <4> QED BY <3>1, <3>4, <4>1 DEF IInv, TypeOK
    <3>5. CASE value[1] = "variable"
      <4>1. r = var[<<1, value[2]>>] BY <2>3, <3>5
      <4> QED BY <3>2, <3>5, <4>1 DEF IInv, TypeOK
    <3>6. CASE value[1] # "object" /\ ~(value[1] = "slot" /\ to # Null) /\ value[1] # "variable"
      <4>1. r = Null BY <2>3, <3>6
      <4> QED BY <4>1
    <3> QED BY <3>3, <3>4, <3>5, <3>6
  <2>13. /\ s \in Op /\ s.op = "sweep" /\ s.block = depth /\ s.ret = {}
         /\ a => c \in Op /\ c.op = "create" /\ c.obj = o
         /\ to # Null => t \in Op /\ t.op = "store" /\ t.at = to
    <3>1. {} \subseteq Object OBVIOUS
    <3>2. s \in Op /\ s.op = "sweep" /\ s.block = depth /\ s.ret = {}
      <4>1. PICK ret : ret = {} OBVIOUS
      <4>2. s = Sweep(depth, ret) /\ ret \subseteq Object BY <2>4, <4>1
      <4> QED BY <1>9, <4>1, <4>2, BlockOps
    <3>3. a => c \in Op /\ c.op = "create" /\ c.obj = o BY <2>2, <2>4, <2>11, ObjectOps
    <3>4. to # Null => t \in Op /\ t.op = "store" /\ t.at = to BY <1>9, <2>4, <2>12, StoreOps
    <3> QED BY <3>2, <3>3, <3>4
  <2>14. /\ ops \in Seq(Op) /\ Len(ops) \in Nat /\ Len(ops) >= 1 /\ ops[Len(ops)] = s
         /\ a => ops[1] = c /\ Len(ops) > 1
         /\ ~a => ops[1] = s \/ (to # Null /\ ops[1] = t)
         /\ \A i \in 1 .. Len(ops) : \/ i = 1 /\ a /\ ops[i] = c
                                     \/ to # Null /\ ops[i] = t /\ i < Len(ops)
                                     \/ ops[i] = s /\ i = Len(ops)
    <3>1. PICK d \in Op : a => d = c BY <2>13
    <3>2. PICK g \in Op : to # Null => g = t BY <2>13
    <3>3. PICK z : z = <<s>> OBVIOUS
    <3>4. z \in Seq(Op) /\ <<>> \o z = z BY <2>13, <3>3, OneOp, ConcatEmptySeq
    <3>5. fin = z \/ fin = Before(g, z)
      <4>1. CASE to # Null BY <2>5, <3>2, <3>3, <4>1 DEF Before
      <4>2. CASE to = Null BY <2>5, <3>3, <3>4, <4>2
      <4> QED BY <4>1, <4>2
    <3>6. to = Null => fin = z BY <2>5, <3>3, <3>4
    <3>7. fin \in Seq(Op)
      <4>1. CASE fin = z BY <3>4, <4>1
      <4>2. CASE fin = Before(g, z)
        <5>1. z \in Seq(Op) BY <3>4
        <5>2. IsBefore(fin, g, z) BY <4>2, <5>1, OneInFront
        <5> QED BY <5>2 DEF IsBefore
      <4> QED BY <3>5, <4>1, <4>2
    <3>8. IF a THEN ops = Before(d, fin) ELSE ops = fin
      <4>1. CASE a BY <2>6, <3>1, <4>1 DEF Before
      <4>2. CASE ~a
        <5>1. ops = <<>> \o fin BY <2>6, <4>2
        <5> QED BY <3>7, <4>2, <5>1, ConcatEmptySeq
      <4> QED BY <4>1, <4>2
    <3>9. a => ops # fin
      <4>1. a => IsBefore(ops, d, fin) BY <3>7, <3>8, OneInFront
      <4>2. a => Len(ops) = Len(fin) + 1 /\ Len(fin) \in Nat BY <4>1 DEF IsBefore
      <4> QED BY <4>2
    <3>10. /\ ops \in Seq(Op) /\ Len(ops) \in Nat /\ Len(ops) >= 1 /\ ops[Len(ops)] = s
           /\ ops # fin => ops[1] = d /\ Len(ops) > 1
           /\ ops = fin => ops[1] = s \/ (fin # z /\ ops[1] = g)
           /\ \A i \in 1 .. Len(ops) : \/ i = 1 /\ ops # fin /\ ops[i] = d
                                       \/ fin # z /\ ops[i] = g /\ i < Len(ops)
                                       \/ ops[i] = s /\ i = Len(ops)
      <4>1. s \in Op BY <2>13
      <4>2. ops = fin \/ ops = Before(d, fin) BY <3>8
      <4>3. g \in Op /\ d \in Op BY <3>1, <3>2
      <4> QED BY <3>3, <3>5, <4>1, <4>2, <4>3, ResultOps
    <3> QED BY <3>1, <3>2, <3>6, <3>8, <3>9, <3>10
  <2>15. Replaced(ops) /\ Len(work') = Len(ops)
    <3>1. After(ops, 1) BY <1>3, <2>8, <2>14, ThenIs
    <3>2. Len(work') = Len(ops) BY <1>4, <2>14, <3>1 DEF After
    <3> QED BY <3>1, <3>2 DEF After, Replaced
  <2>16. Last' = s /\ work' # <<>> /\ Ends("sweep")'
    <3>1. Len(ops) \in 1 .. Len(ops) BY <2>14
    <3>2. Last' = s BY <2>14, <2>15, <3>1 DEF Last, Replaced
    <3>3. work' # <<>> BY <2>14, <2>15, EmptySeq DEF Replaced
    <3> QED BY <2>13, <3>2, <3>3 DEF Ends
  <2>17. ASSUME NEW i \in 1 .. Len(ops) PROVE ops[i].op \notin {"destroy"} /\ EntryIs(ops[i], i)'
    <3>1. i \in Nat /\ i >= 1 BY <2>14
    <3>2. CASE i = 1 /\ a /\ ops[i] = c
      <4>1. i # Len(work') /\ ~(i > 1) BY <2>14, <2>15, <3>2
      <4>2. EntryIs(c, i)' BY <1>3, <2>13, <2>16, <3>2, <4>1 DEF EntryIs
      <4> QED BY <2>13, <3>2, <4>2
    <3>3. CASE to # Null /\ ops[i] = t /\ i < Len(ops)
      <4>1. i # Len(work') BY <2>14, <2>15, <3>1, <3>3
      <4>2. t.at[1] <= depth
        <5>1. to[1] \in Nat BY <1>9, <3>3 DEF Place, Block
        <5> QED BY <1>9, <2>10, <2>13, <3>3, <5>1
      <4>3. EntryIs(t, i)' BY <1>3, <2>13, <2>16, <3>3, <4>1, <4>2 DEF EntryIs
      <4> QED BY <2>13, <3>3, <4>3
    <3>4. CASE ops[i] = s /\ i = Len(ops)
      <4>1. i = Len(work') BY <2>15, <3>4
      <4>2. EntryIs(s, i)' BY <2>13, <4>1 DEF EntryIs
      <4> QED BY <2>13, <3>4, <4>2
    <3> QED BY <2>14, <3>2, <3>3, <3>4
  <2>18. /\ WorkAre' /\ (\A y : Given(y)' = 0) /\ (\A y : Creates(y)' <=> a /\ y = o)
         /\ (\A y : y \notin Dying')
    <3>1. PICK n \in Nat : n = Len(ops) BY <2>14
    <3>2. n > 0 BY <2>14, <3>1
    <3>3. \A i \in 1 .. n : ops[i].op \notin {"destroy"} /\ EntryIs(ops[i], i)' BY <2>17, <3>1
    <3>4. /\ WorkAre' /\ (\A y : y \notin Dying')
          /\ (\A y : Given(y)' = IF ops[1].op = "unref" /\ ops[1].obj = y THEN 1 ELSE 0)
          /\ (\A y : Creates(y)' <=> ops[1].op = "create" /\ ops[1].obj = y)
      BY <2>14, <2>15, <3>1, <3>2, <3>3, WorkReplaced
    <3>5. CASE a BY <2>13, <2>14, <3>4, <3>5
    <3>6. CASE ~a BY <2>13, <2>14, <3>4, <3>6
    <3> QED BY <3>5, <3>6
  <2>19. TypeOK' BY <1>3, <2>8, <2>9 DEF IInv, TypeOK, share
  <2>20. DepthIs' BY <1>3, <2>10 DEF IInv, DepthIs
  <2>21. PoolsAre'
    <3>1. ~(depth >= base) BY <1>12 DEF InFunction
    <3>2. \A y \in Object : home[y] = 0 BY <1>5, <3>1 DEF IInv, PoolsAre
    <3> QED BY <1>3, <3>2 DEF PoolsAre, share
  <2>22. ASSUME NEW y \in Object PROVE KindIs(y)' /\ CountIs(y)' /\ InMap(y)'
    <3>1. KindIs(y)'
      <4>1. KindIs(y) BY DEF IInv, KindsAre
      <4>2. Last.value = value BY <1>2, <1>4
      <4>3. y \in live /\ created[y] = 0 => value = <<"object", y>> BY <1>3, <4>1, <4>2 DEF KindIs
      <4>4. y \in live /\ created[y] = 0 => a /\ y = o
        <5>1. ASSUME value = <<"object", y>> PROVE value[1] = "object" /\ o = y BY <2>1, <5>1
        <5> QED BY <2>2, <4>3, <5>1
      <4>5. a => o \in live /\ created[o] = 0 BY <2>2, <2>11
      <4> QED BY <1>3, <1>7, <2>18, <4>1, <4>4, <4>5 DEF KindIs, share
    <3>2. CountIs(y)' BY <1>3, <1>6, <2>18 DEF IInv, CountsAre, CountIs, share
    <3>3. InMap(y)' BY <1>3, <1>6, <1>7 DEF IInv, MapIs, InMap
    <3> QED BY <3>1, <3>2, <3>3
  <2> QED BY <2>9, <2>18, <2>19, <2>20, <2>21, <2>22 DEF IInv, KindsAre, CountsAre, MapIs
<1> QED BY <1>10, <1>11, <1>12

(* An unwinding is all that is left to do.                                 *)
LEMMA OnlyUnwinding ==
  ASSUME IInv, Does("unwind")
  PROVE  /\ work[1].op = "unwind" /\ Len(work) = 1 /\ Last = work[1] /\ Current = work[1]
         /\ Ends("unwind") /\ ~Ends("sweep") /\ ~Ends("return") /\ ~SweepWaits
         /\ \A y : y \notin Dying /\ ~Unlinks(y)
<1>1. /\ Current = work[1] /\ work[1].op = "unwind" /\ EntryIs(work[1], 1) /\ work # <<>>
      /\ Len(work) \in Nat
  BY FrontIs
<1>2. Len(work) = 1 /\ Last = work[1]
  <2>1. 1 = Len(work) BY <1>1 DEF EntryIs
  <2> QED BY <1>1, <2>1 DEF Last
<1>3. ~SweepWaits
  <2>1. ~(Len(work) > 1) BY <1>2
  <2> QED BY <2>1 DEF SweepWaits
<1>4. Ends("unwind") /\ ~Ends("sweep") /\ ~Ends("return") BY <1>1, <1>2 DEF Ends
<1>5. \A i \in 1 .. Len(work) : work[i].op = "unwind" BY <1>1, <1>2
<1>6. \A y : y \notin Dying /\ ~Unlinks(y) BY <1>5, DyingHas DEF Has
<1> QED BY <1>1, <1>2, <1>3, <1>4, <1>6

LEMMA StrandStep == ASSUME IInv, DoStrand PROVE IInv'
<1>1. PICK e : e = Current OBVIOUS
<1>2. /\ e = work[1] /\ e.op = "unwind" /\ work # <<>> /\ e \in Op /\ Len(work) \in Nat
      /\ (\A y : ~Creates(y)) /\ (\A y : Given(y) = 0) /\ work \in Seq(Op)
      /\ Does("unwind") /\ UNCHANGED <<live, var, field, cyclic, depth, frames>>
  BY <1>1, FrontIs DEF DoStrand
<1>3. /\ Len(work) = 1 /\ Ends("unwind") /\ ~Ends("sweep") /\ ~Ends("return") /\ ~SweepWaits
      /\ \A y : y \notin Dying /\ ~Unlinks(y)
  BY <1>2, OnlyUnwinding
<1>4. PICK o \in Object : o = e.arg
  <2>1. e.arg # Null BY <1>1 DEF DoStrand
  <2> QED BY <1>2, <2>1, OpIs
<1>5. (\A y : Slots(y)' = Slots(y)) /\ (\A y : Holding(y)' = Holding(y)) /\ base' = base
  BY <1>2, SameHolders
<1>6. CASE ~CanShare(o)
  <2>1. fault' = TRUE /\ UNCHANGED <<share, work>> BY <1>1, <1>4, <1>6 DEF DoStrand
  <2> QED BY <1>2, <2>1, FaultStep
<1>7. CASE CanShare(o)
  <2>1. PICK s : s = Unwind(Null) OBVIOUS
  <2>2. s \in Op /\ s.op = "unwind" BY <2>1, OtherOps
  <2>3. TakeShare(o) /\ stray' = [stray EXCEPT ![o] = @ + 1] /\ Then(<<s>>) /\ fault' = fault
    BY <1>1, <1>4, <1>7, <2>1 DEF DoStrand
  <2>4. /\ n_shares' \in [Object -> Nat] /\ home' \in [Object -> Block \cup {0}] /\ created' = created
        /\ n_shares'[o] = n_shares[o] + 1 /\ home'[o] = 0
        /\ \A y \in Object : y # o => n_shares'[y] = n_shares[y] /\ home'[y] = home[y]
    BY <2>3, TakeShareIs DEF IInv
  <2>5. /\ stray' \in [Object -> Nat] /\ stray'[o] = stray[o] + 1
        /\ \A y \in Object : y # o => stray'[y] = stray[y]
    BY <2>3 DEF IInv, TypeOK
  <2>6. o \in live /\ created[o] # 0 /\ n_shares[o] \in Nat BY <1>7, SharedKind
  <2>7. PICK ops : ops = <<s>> OBVIOUS
  <2>8. ops \in Seq(Op) /\ Len(ops) = 1 /\ ops[1] = s /\ Then(ops) BY <2>2, <2>3, <2>7, OneOp
  <2>9. After(ops, 1) BY <1>2, <2>8, ThenIs
  <2>10. Replaced(ops) /\ Len(work') = 1
    <3>1. Len(work') = 1 BY <1>3, <2>8, <2>9 DEF After
    <3> QED BY <2>8, <2>9, <3>1 DEF After, Replaced
  <2>11. EntryIs(s, 1)'
    <3>1. PICK i \in Nat : i = 1 OBVIOUS
    <3>2. i = Len(work') /\ ~(i > 1) BY <2>10, <3>1
    <3>3. EntryIs(s, i)' BY <2>2, <3>2 DEF EntryIs
    <3> QED BY <3>1, <3>3
  <2>12. /\ WorkAre' /\ work' # <<>> /\ Last' = s /\ (\A op : Ends(op)' <=> s.op = op)
         /\ (\A y : Given(y)' = 0) /\ (\A y : ~Creates(y)') /\ (\A y : y \notin Dying') /\ ~SweepWaits'
    <3>1. PICK n \in Nat : n = 1 OBVIOUS
    <3>2. n = Len(ops) /\ n > 0 /\ ~(n > 1) /\ ops[n] = s BY <2>8, <3>1
    <3>3. \A i \in 1 .. n : i = 1 BY <3>1
    <3>4. \A i \in 1 .. n : ops[i].op \notin {"destroy"} /\ EntryIs(ops[i], i)'
      BY <2>2, <2>8, <2>11, <3>3
    <3> QED BY <2>2, <2>8, <2>10, <3>2, <3>4, WorkReplaced
  <2>13. TypeOK' BY <1>2, <2>3, <2>4, <2>5 DEF IInv, TypeOK
  <2>14. FramesAre' BY <1>2 DEF IInv, FramesAre
  <2>15. DepthIs' BY <1>2, <2>2, <2>12 DEF IInv, DepthIs
  <2>16. PoolsAre'
    <3>1. \A y \in Object : home'[y] # 0 => home'[y] = depth' BY <1>2, <1>3, <2>4 DEF IInv, PoolsAre
    <3> QED BY <2>2, <2>12, <3>1 DEF PoolsAre
  <2>17. ASSUME NEW y \in Object PROVE KindIs(y)' /\ CountIs(y)' /\ InMap(y)'
    <3>1. KindIs(y)'
      <4>1. KindIs(y) BY DEF IInv, KindsAre
      <4>2. CASE y = o
        <5>1. n_shares'[y] # 0 BY <2>4, <2>6, <4>2
        <5> QED BY <1>2, <2>4, <2>6, <2>12, <4>2, <5>1 DEF KindIs
      <4>3. CASE y # o BY <1>2, <1>3, <2>4, <2>12, <4>1, <4>3 DEF KindIs
      <4> QED BY <4>2, <4>3
    <3>2. CountIs(y)'
      <4>1. n_shares[y] = Cardinality(Holding(y)) + Cardinality(Slots(y)) + stray[y]
        BY <1>2, HoldersCounted, StrayIs DEF IInv, CountsAre, CountIs
      <4>2. /\ Cardinality(Holding(y)) \in Nat /\ Cardinality(Slots(y)) \in Nat /\ stray[y] \in Nat
        BY HoldersCounted, StrayIs
      <4>3. n_shares'[y] - n_shares[y] = stray'[y] - stray[y] /\ n_shares'[y] \in Nat /\ stray'[y] \in Nat
        <5>1. n_shares[y] \in Nat BY <4>1, <4>2
        <5>2. CASE y = o BY <2>4, <2>5, <4>2, <5>1, <5>2
        <5>3. CASE y # o BY <2>4, <2>5, <4>2, <5>1, <5>3
        <5> QED BY <5>2, <5>3
      <4>4. n_shares'[y] = Cardinality(Holding(y)') + Cardinality(Slots(y)') + Given(y)' + stray'[y]
        BY <1>5, <2>12, <4>1, <4>2, <4>3
      <4> QED BY <4>4 DEF CountIs
    <3>3. InMap(y)' BY <1>2, <1>3, <1>5 DEF IInv, MapIs, InMap
    <3> QED BY <3>1, <3>2, <3>3
  <2> QED BY <2>12, <2>13, <2>14, <2>15, <2>16, <2>17 DEF IInv, KindsAre, CountsAre, MapIs
<1> QED BY <1>6, <1>7

LEMMA UnwindStep == ASSUME IInv, DoUnwind PROVE IInv'
<1>1. PICK e : e = Current OBVIOUS
<1>2. /\ e = work[1] /\ e.op = "unwind" /\ EntryIs(e, 1) /\ work # <<>> /\ Len(work) >= 1
      /\ (\A y : ~Creates(y)) /\ (\A y : Given(y) = 0) /\ Len(work) \in Nat /\ work \in Seq(Op)
      /\ Does("unwind") /\ UNCHANGED <<live, share, var, field, cyclic, depth, fault>>
  BY <1>1, FrontIs DEF DoUnwind
<1>3. Len(work) = 1 /\ Last = e
  <2>1. 1 = Len(work) BY <1>2 DEF EntryIs
  <2> QED BY <1>2, <2>1 DEF Last
<1>4. Ends("unwind") /\ ~Ends("sweep") /\ ~Ends("return") /\ ~SweepWaits
  <2>1. ~(Len(work) > 1) BY <1>3
  <2>2. ~SweepWaits BY <2>1 DEF SweepWaits
  <2>3. Ends("unwind") /\ ~Ends("sweep") /\ ~Ends("return") BY <1>2, <1>3 DEF Ends
  <2> QED BY <2>2, <2>3
<1>5. (\A y : Slots(y)' = Slots(y)) /\ (\A y : Holding(y)' = Holding(y)) BY <1>2, SameHolders
<1>6. \A y : y \notin Dying /\ ~Unlinks(y)
  <2>1. \A i \in 1 .. Len(work) : work[i].op = "unwind" BY <1>2, <1>3
  <2> QED BY <2>1, DyingHas DEF Has
<1>7. PICK ret : ret = {} OBVIOUS
<1>8. CASE depth > 1
  <2>1. PICK u : u = PopScope(ret) OBVIOUS
  <2>2. u \in Op /\ u.op = "pop" /\ u.ret = {}
    <3>1. ret \subseteq Object BY <1>7
    <3> QED BY <1>7, <2>1, <3>1, BlockOps
  <2>3. work' = <<u>> \o work /\ frames' = frames BY <1>7, <1>8, <2>1 DEF DoUnwind
  <2>4. EntryIs(u, 1)'
    <3>1. Len(work') = 2 /\ Ends("unwind")'
      <4>1. Len(work) > 0 BY <1>3
      <4>2. Len(work') = Len(work) + 1 /\ \A op : Ends(op)' <=> Ends(op) BY <2>2, <2>3, <4>1, PushedLen
      <4> QED BY <1>3, <1>4, <4>2
    <3>2. PICK i \in Nat : i = 1 OBVIOUS
    <3>3. i = Len(work') - 1 /\ ~(i > 1) /\ i # Len(work') BY <3>1, <3>2
    <3>4. EntryIs(u, i)' BY <1>2, <1>8, <2>2, <3>1, <3>3 DEF EntryIs
    <3> QED BY <3>2, <3>4
  <2>5. NoLink(0) BY <1>2, LinksStay
  <2>6. /\ WorkAre' /\ work' # <<>> /\ Last' = Last /\ (\A op : Ends(op)' <=> Ends(op)) /\ SameWait
        /\ (\A y : Given(y)' = 0) /\ (\A y : ~Creates(y)')
        /\ (\A y : y \in Dying' <=> y \in Dying) /\ (\A y : Unlinks(y) => Unlinks(y)')
    <3>1. work[1].op \notin {"create", "unref"} /\ Len(work) > 0 BY <1>2
    <3> QED BY <1>2, <2>2, <2>3, <2>4, <2>5, <3>1, Pushed
  <2>7. TypeOK' BY <1>2, <2>3 DEF IInv, TypeOK, share
  <2>8. ASSUME NEW y \in Object PROVE KindIs(y)' /\ CountIs(y)' /\ InMap(y)'
    <3>1. KindIs(y)'
      <4>1. KindIs(y) BY DEF IInv, KindsAre
      <4> QED BY <1>2, <2>6, <4>1, KindSame DEF share
    <3>2. CountIs(y)' BY <1>2, <1>5, <2>6 DEF IInv, CountsAre, CountIs, share
    <3>3. InMap(y)' BY <1>2, <1>5, <2>6 DEF IInv, MapIs, InMap
    <3> QED BY <3>1, <3>2, <3>3
  <2> QED BY <1>2, <2>3, <2>6, <2>7, <2>8, StepKeeps DEF share
<1>9. CASE ~(depth > 1)
  <2>1. depth = 1 /\ 1 \in Block BY <1>9, FramesIs
  <2>2. PICK b \in Block : b = 1 BY <2>1
  <2>3. PICK s : s = Sweep(b, ret) OBVIOUS
  <2>4. s \in Op /\ s.op = "sweep" /\ s.block = 1 /\ s.ret = {}
    <3>1. ret \subseteq Object BY <1>7
    <3>2. s \in Op /\ s.op = "sweep" /\ s.block = b /\ s.ret = ret BY <2>3, <3>1, SweepOp
    <3> QED BY <1>7, <2>2, <3>2
  <2>5. frames' = <<>> /\ Then(<<s>>) BY <1>7, <1>9, <2>2, <2>3 DEF DoUnwind
  <2>6. PICK ops : ops = <<s>> OBVIOUS
  <2>7. ops \in Seq(Op) /\ Len(ops) = 1 /\ ops[1] = s /\ Then(ops) BY <2>4, <2>5, <2>6, OneOp
  <2>8. After(ops, 1) BY <1>2, <2>7, ThenIs
  <2>9. Replaced(ops) /\ Len(work') = 1
    <3>1. Len(work') = 1 BY <1>3, <2>7, <2>8 DEF After
    <3> QED BY <2>7, <2>8, <3>1 DEF After, Replaced
  <2>10. \A i \in 1 .. Len(ops) : i = 1 BY <2>7
  <2>11. EntryIs(s, 1)'
    <3>1. PICK i \in Nat : i = 1 OBVIOUS
    <3>2. i = Len(work') /\ ~(i > 1) BY <2>9, <3>1
    <3>3. EntryIs(s, i)' BY <2>4, <3>2 DEF EntryIs
    <3> QED BY <3>1, <3>3
  <2>12. /\ WorkAre' /\ work' # <<>> /\ Last' = s /\ (\A op : Ends(op)' <=> s.op = op)
         /\ (\A y : Given(y)' = 0) /\ (\A y : ~Creates(y)') /\ (\A y : y \notin Dying')
    <3>1. PICK n \in Nat : n = 1 OBVIOUS
    <3>2. n = Len(ops) /\ n > 0 /\ ops[n] = s BY <2>7, <3>1
    <3>3. \A i \in 1 .. n : ops[i].op \notin {"destroy"} /\ EntryIs(ops[i], i)'
      BY <2>4, <2>7, <2>10, <2>11, <3>2
    <3> QED BY <2>4, <2>7, <2>9, <3>2, <3>3, WorkReplaced
  <2>13. TypeOK' BY <1>2, <2>5 DEF IInv, TypeOK, share
  <2>14. FramesAre' /\ base' = 1 BY <2>5 DEF FramesAre, base
  <2>15. DepthIs' BY <1>2, <2>1, <2>14 DEF IInv, DepthIs
  <2>16. PoolsAre'
    <3>1. \A y \in Object : home[y] # 0 => home[y] = 1 BY <1>4, <2>1 DEF IInv, PoolsAre
    <3> QED BY <1>2, <2>4, <2>12, <3>1 DEF PoolsAre, share
  <2>17. ASSUME NEW y \in Object PROVE KindIs(y)' /\ CountIs(y)' /\ InMap(y)'
    <3>1. KindIs(y)'
      <4>1. KindIs(y) BY DEF IInv, KindsAre
      <4> QED BY <1>2, <1>4, <1>6, <2>12, <4>1 DEF KindIs, share
    <3>2. CountIs(y)' BY <1>2, <1>5, <2>12 DEF IInv, CountsAre, CountIs, share
    <3>3. InMap(y)' BY <1>2, <1>5, <1>6 DEF IInv, MapIs, InMap
    <3> QED BY <3>1, <3>2, <3>3
  <2> QED BY <2>12, <2>13, <2>14, <2>15, <2>16, <2>17 DEF IInv, KindsAre, CountsAre, MapIs
<1> QED BY <1>8, <1>9

LEMMA DerefStep == ASSUME IInv, DoDeref PROVE IInv'
<1>1. PICK e : e = Current OBVIOUS
<1>2. /\ e = work[1] /\ e.op = "deref" /\ EntryIs(e, 1) /\ work # <<>> /\ Len(work) > 1
      /\ (\A y : ~Creates(y)) /\ (\A y : Given(y) = 0) /\ Len(work) \in Nat
      /\ Does("deref") /\ UNCHANGED <<live, share, var, field, cyclic, depth, frames, fault>>
  BY <1>1, FrontIs DEF DoDeref
<1>3. Ends("sweep") /\ Last.block = 1 BY <1>2 DEF EntryIs
<1>4. (\A y : Slots(y)' = Slots(y)) /\ (\A y : Holding(y)' = Holding(y)) BY <1>2, SameHolders
<1>5. TypeOK' BY <1>2 DEF IInv, TypeOK, share
<1>6. /\ WorkAre' /\ work' # <<>> /\ Last' = Last /\ (\A op : Ends(op)' <=> Ends(op)) /\ SameWait
      /\ (\A y : Given(y)' = 0) /\ (\A y : ~Creates(y)')
      /\ (\A y : y \in Dying' <=> y \in Dying) /\ (\A y : Unlinks(y) => Unlinks(y)')
  <2>1. CASE {o \in cyclic : Lonely(o)} = {}
    <3>1. Then(<<>>) BY <2>1 DEF DoDeref
    <3>2. NoLink(1) BY <1>2, LinksStay
    <3>3. work[1].op # "destroy" /\ work[1].op # "sweep" /\ \A y : ~Drops(1, "unlink", y)
      BY <1>2 DEF Drops
    <3> QED BY <1>2, <3>1, <3>2, <3>3, Dropped
  <2>2. CASE {o \in cyclic : Lonely(o)} # {}
    <3>1. PICK o \in cyclic : work' = <<Unlink(o)>> \o work BY <2>2 DEF DoDeref
    <3>2. PICK u : u = Unlink(o) OBVIOUS
    <3>3. o \in Object BY DEF IInv, TypeOK
    <3>4. u \in Op /\ u.op = "unlink" /\ u.obj = o BY <3>2, <3>3, ObjectOps
    <3>5. work' = <<u>> \o work BY <3>1, <3>2
    <3>6. NoLink(0) BY <1>2, LinksStay
    <3>7. EntryIs(u, 1)'
      <4>1. Len(work) > 0 BY <1>2
      <4>2. Len(work') \in Nat /\ 1 < Len(work') /\ Last' = Last /\ \A op : Ends(op)' <=> Ends(op)
        BY <3>4, <3>5, <4>1, PushedLen
      <4>3. PICK i \in Nat : i = 1 OBVIOUS
      <4>4. EntryIs(u, i)' BY <1>3, <3>4, <4>2, <4>3, PlainPlaced
      <4> QED BY <4>3, <4>4
    <3>8. work[1].op \notin {"create", "unref"} /\ Len(work) > 0 BY <1>2
    <3> QED BY <1>2, <3>4, <3>5, <3>6, <3>7, <3>8, Pushed
  <2> QED BY <2>1, <2>2
<1>7. ASSUME NEW y \in Object PROVE KindIs(y)' /\ CountIs(y)' /\ InMap(y)'
  <2>1. KindIs(y)'
    <3>1. KindIs(y) BY DEF IInv, KindsAre
    <3> QED BY <1>2, <1>6, <3>1, KindSame DEF share
  <2>2. CountIs(y)' BY <1>2, <1>4, <1>6 DEF IInv, CountsAre, CountIs, share
  <2>3. InMap(y)' BY <1>2, <1>4, <1>6 DEF IInv, MapIs, InMap
  <2> QED BY <2>1, <2>2, <2>3
<1> QED BY <1>2, <1>5, <1>6, <1>7, StepKeeps DEF share

LEMMA GlobalsStep == ASSUME IInv, DoGlobals PROVE IInv'
<1>1. PICK e : e = Current OBVIOUS
<1>2. /\ e = work[1] /\ e.op = "globals" /\ EntryIs(e, 1) /\ work # <<>> /\ Len(work) > 1
      /\ (\A y : ~Creates(y)) /\ (\A y : Given(y) = 0) /\ Len(work) \in Nat
      /\ Does("globals") /\ UNCHANGED <<live, share, field, cyclic, depth, frames, fault>>
  BY <1>1, FrontIs DEF DoGlobals
<1>3. \A y : Slots(y)' = Slots(y) BY <1>2, SameHolders
<1>4. PICK held : held = {v \in Variable : var[<<1, v>>] # Null /\ v \notin Saved} OBVIOUS
<1>5. CASE held = {}
  <2>1. Then(<<>>) /\ var' = var BY <1>4, <1>5 DEF DoGlobals
  <2>2. \A y : Holding(y)' = Holding(y) BY <2>1, SameHolders
  <2>3. TypeOK' BY <1>2, <2>1 DEF IInv, TypeOK, share
  <2>4. /\ WorkAre' /\ work' # <<>> /\ Last' = Last /\ (\A op : Ends(op)' <=> Ends(op)) /\ SameWait
        /\ (\A y : Given(y)' = 0) /\ (\A y : ~Creates(y)')
        /\ (\A y : y \in Dying' <=> y \in Dying) /\ (\A y : Unlinks(y) => Unlinks(y)')
    <3>1. NoLink(1) BY <1>2, LinksStay
    <3>2. work[1].op # "destroy" /\ work[1].op # "sweep" /\ \A y : ~Drops(1, "unlink", y)
      BY <1>2 DEF Drops
    <3> QED BY <1>2, <2>1, <3>1, <3>2, Dropped
  <2>5. ASSUME NEW y \in Object PROVE KindIs(y)' /\ CountIs(y)' /\ InMap(y)'
    <3>1. KindIs(y)'
      <4>1. KindIs(y) BY DEF IInv, KindsAre
      <4> QED BY <1>2, <2>4, <4>1, KindSame DEF share
    <3>2. CountIs(y)' BY <1>2, <1>3, <2>2, <2>4 DEF IInv, CountsAre, CountIs, share
    <3>3. InMap(y)' BY <1>2, <1>3, <2>4 DEF IInv, MapIs, InMap
    <3> QED BY <3>1, <3>2, <3>3
  <2> QED BY <1>2, <2>1, <2>3, <2>4, <2>5, StepKeeps DEF share
<1>6. CASE held # {}
  <2>1. PICK v \in held : /\ var' = [var EXCEPT ![<<1, v>>] = Null]
                          /\ work' = <<Unref(var[<<1, v>>], 0)>> \o work
    BY <1>4, <1>6 DEF DoGlobals
  <2>2. PICK p, o : p = <<1, v>> /\ o = var[<<1, v>>] OBVIOUS
  <2>3. p \in Place /\ o = var[p] /\ o # Null BY <1>4, <2>2, FramesIs DEF Place
  <2>4. /\ o \in Object /\ var' \in [Place -> Object \cup {Null}] /\ Cardinality(Holding(o)) >= 1
        /\ \A q \in Place : var'[q] \in {var[q], Null}
        /\ \A y \in Object : Cardinality(Holding(y)') = IF y = o THEN Cardinality(Holding(y)) - 1
                                                       ELSE Cardinality(Holding(y))
    BY <2>1, <2>2, <2>3, VarEmptied
  <2>5. PICK u : u = Unref(o, 0) OBVIOUS
  <2>6. u \in Op /\ u.op = "unref" /\ u.obj = o /\ u.block = 0 BY <2>4, <2>5, ObjectOps
  <2>7. work' = <<u>> \o work BY <2>1, <2>2, <2>5
  <2>8. NoLink(0) BY <1>2, LinksStay
  <2>9. EntryIs(u, 1)'
    <3>1. Len(work) > 0 BY <1>2
    <3>2. Len(work') \in Nat /\ Len(work') > 1 BY <2>6, <2>7, <3>1, PushedLen
    <3> QED BY <2>6, <3>2, UnrefPlaced
  <2>10. /\ WorkAre' /\ work' # <<>> /\ Last' = Last /\ (\A op : Ends(op)' <=> Ends(op)) /\ SameWait
         /\ (\A y : Given(y)' = IF o = y THEN 1 ELSE 0) /\ (\A y : ~Creates(y)')
         /\ (\A y : y \in Dying' <=> y \in Dying) /\ (\A y : Unlinks(y) => Unlinks(y)')
    <3>1. work[1].op \notin {"create", "unref"} /\ Len(work) > 0 BY <1>2
    <3> QED BY <1>2, <2>6, <2>7, <2>8, <2>9, <3>1, Pushed
  <2>11. TypeOK' BY <1>2, <2>4 DEF IInv, TypeOK, share
  <2>12. ASSUME NEW y \in Object PROVE KindIs(y)' /\ CountIs(y)' /\ InMap(y)'
    <3>1. KindIs(y)'
      <4>1. KindIs(y) BY DEF IInv, KindsAre
      <4> QED BY <1>2, <2>10, <4>1, KindSame DEF share
    <3>2. CountIs(y)'
      <4>1. /\ n_shares[y] = Cardinality(Holding(y)) + Cardinality(Slots(y)) + stray[y]
            /\ Cardinality(Holding(y)) \in Nat /\ Cardinality(Slots(y)) \in Nat /\ stray[y] \in Nat
        BY <1>2, HoldersCounted, StrayIs DEF IInv, CountsAre, CountIs
      <4>2. n_shares'[y] = n_shares[y] /\ stray'[y] = stray[y] BY <1>2 DEF share
      <4>3. n_shares'[y] = Cardinality(Holding(y)') + Cardinality(Slots(y)') + Given(y)' + stray'[y]
        BY <1>3, <2>4, <2>10, <4>1, <4>2
      <4> QED BY <4>3 DEF CountIs
    <3>3. InMap(y)' BY <1>2, <1>3, <2>10 DEF IInv, MapIs, InMap
    <3> QED BY <3>1, <3>2, <3>3
  <2> QED BY <1>2, <2>4, <2>10, <2>11, <2>12, StepKeeps DEF share
<1> QED BY <1>5, <1>6

LEMMA UnlinkStep == ASSUME IInv, DoUnlink PROVE IInv'
<1>1. PICK e : e = Current OBVIOUS
<1>2. PICK o : o = e.obj OBVIOUS
<1>3. /\ e = work[1] /\ e.op = "unlink" /\ EntryIs(e, 1) /\ work # <<>> /\ Len(work) > 1
      /\ (\A y : ~Creates(y)) /\ (\A y : Given(y) = 0) /\ Len(work) \in Nat /\ o \in Object
      /\ Does("unlink") /\ UNCHANGED <<live, share, var, depth, frames, fault>>
  BY <1>1, <1>2, FrontIs, OpIs DEF DoUnlink
<1>4. Ends("sweep") /\ Last.block = 1 BY <1>3 DEF EntryIs
<1>5. \A y : Holding(y)' = Holding(y) BY <1>3, SameHolders
<1>6. CASE Slots(o) = {}
  <2>1. cyclic' = cyclic \ {o} /\ Then(<<>>) /\ field' = field BY <1>1, <1>2, <1>6 DEF DoUnlink
  <2>2. \A y : Slots(y)' = Slots(y) BY <2>1, SameHolders
  <2>3. TypeOK' BY <1>3, <2>1 DEF IInv, TypeOK, share
  <2>4. /\ WorkAre' /\ work' # <<>> /\ Last' = Last /\ (\A op : Ends(op)' <=> Ends(op)) /\ SameWait
        /\ (\A y : Given(y)' = 0) /\ (\A y : ~Creates(y)') /\ (\A y : y \in Dying' <=> y \in Dying)
        /\ \A y : Unlinks(y) /\ y # o => Unlinks(y)'
    <3>1. NoLink(1) BY <2>1, LinksStay
    <3>2. work[1].op # "destroy" /\ work[1].op # "sweep" /\ \A y : y # o => ~Drops(1, "unlink", y)
      BY <1>2, <1>3 DEF Drops
    <3> QED BY <1>3, <2>1, <3>1, <3>2, Dropped
  <2>5. ASSUME NEW y \in Object PROVE KindIs(y)' /\ CountIs(y)' /\ InMap(y)'
    <3>1. KindIs(y)'
      <4>1. KindIs(y) BY DEF IInv, KindsAre
      <4> QED BY <1>3, <2>1, <2>4, <4>1, KindSame DEF share
    <3>2. CountIs(y)' BY <1>3, <1>5, <2>2, <2>4 DEF IInv, CountsAre, CountIs, share
    <3>3. InMap(y)'
      <4>1. InMap(y) BY DEF IInv, MapIs
      <4>2. CASE y = o BY <1>6, <2>1, <2>2, <4>2 DEF InMap
      <4>3. CASE y # o BY <2>1, <2>2, <2>4, <4>1, <4>3 DEF InMap
      <4> QED BY <4>2, <4>3
    <3> QED BY <3>1, <3>2, <3>3
  <2> QED BY <1>3, <2>3, <2>4, <2>5, StepKeeps DEF share
<1>7. CASE Slots(o) # {}
  <2>1. PICK s \in Slots(o) : /\ field' = [field EXCEPT ![s[1]][s[2]] = Null]
                              /\ work' = <<Unref(o, 1)>> \o work /\ cyclic' = cyclic
    BY <1>1, <1>2, <1>7 DEF DoUnlink
  <2>2. PICK x, f : x = s[1] /\ f = s[2] OBVIOUS
  <2>3. x \in Object /\ f \in Field /\ field[x][f] = o BY <2>1, <2>2 DEF Slots
  <2>4. PICK b \in Object \cup {Null} : b = Null OBVIOUS
  <2>5. field \in [Object -> [Field -> Object \cup {Null}]] /\ b # field[x][f] /\ \A y \in Object : y # b
    BY <1>3, <2>3, <2>4, NullAssumption DEF IInv, TypeOK
  <2>6. /\ field' \in [Object -> [Field -> Object \cup {Null}]] /\ field'[x][f] = b
        /\ \A y \in Object, g \in Field : <<y, g>> # <<x, f>> => field'[y][g] = field[y][g]
    <3>1. field' = [field EXCEPT ![x] = [field[x] EXCEPT ![f] = b]] BY <2>1, <2>2, <2>4
    <3> QED BY <2>3, <2>4, <2>5, <3>1, FieldChanged
  <2>7. \A y \in Object :
          /\ Slots(y)' = IF y = b THEN Slots(y) \cup {<<x, f>>} ELSE Slots(y) \ {<<x, f>>}
          /\ y # field[x][f] /\ y # b => Slots(y)' = Slots(y)
          /\ Cardinality(Slots(y)') = IF y = b THEN Cardinality(Slots(y)) + 1
                                      ELSE IF y = field[x][f] THEN Cardinality(Slots(y)) - 1
                                      ELSE Cardinality(Slots(y))
    <3>1. field \in [Object -> [Field -> Object \cup {Null}]] /\ b # field[x][f] BY <2>5
    <3>2. field'[x][f] = b BY <2>6
    <3>3. \A y \in Object, g \in Field : <<y, g>> # <<x, f>> => field'[y][g] = field[y][g] BY <2>6
    <3>4. x \in Object /\ f \in Field BY <2>3
    <3> QED BY <3>1, <3>2, <3>3, <3>4, FieldSet
  <2>8. \A y \in Object : /\ y # o => Slots(y)' = Slots(y)
                          /\ Cardinality(Slots(y)') = IF y = o THEN Cardinality(Slots(y)) - 1
                                                      ELSE Cardinality(Slots(y))
    BY <2>3, <2>5, <2>7
  <2>9. \A y \in Object, g \in Field : field[y][g] = Null => field'[y][g] = Null
    <3> TAKE y \in Object, g \in Field
    <3>1. CASE <<y, g>> = <<x, f>> BY <2>4, <2>6, <3>1
    <3>2. CASE <<y, g>> # <<x, f>> BY <2>6, <3>2
    <3> QED BY <3>1, <3>2
  <2>10. PICK u : u = Unref(o, 1) OBVIOUS
  <2>11. u \in Op /\ u.op = "unref" /\ u.obj = o /\ u.block = 1
    <3>1. 1 \in Block \cup {0} BY FramesIs
    <3> QED BY <1>3, <2>10, <3>1, ObjectOps
  <2>12. work' = <<u>> \o work BY <2>1, <2>10
  <2>13. NoLink(0) BY <2>9, LinksStay
  <2>14. EntryIs(u, 1)'
    <3>1. Len(work) > 0 BY <1>3
    <3>2. Len(work') \in Nat /\ Len(work') > 1 /\ Last' = Last /\ \A op : Ends(op)' <=> Ends(op)
      BY <2>11, <2>12, <3>1, PushedLen
    <3> QED BY <1>4, <2>11, <3>2, UnrefPlaced
  <2>15. /\ WorkAre' /\ work' # <<>> /\ Last' = Last /\ (\A op : Ends(op)' <=> Ends(op)) /\ SameWait
         /\ (\A y : Given(y)' = IF o = y THEN 1 ELSE 0) /\ (\A y : ~Creates(y)')
         /\ (\A y : y \in Dying' <=> y \in Dying) /\ (\A y : Unlinks(y) => Unlinks(y)')
    <3>1. work[1].op \notin {"create", "unref"} /\ Len(work) > 0 BY <1>3
    <3> QED BY <1>3, <2>11, <2>12, <2>13, <2>14, <3>1, Pushed
  <2>16. TypeOK' BY <1>3, <2>1, <2>6 DEF IInv, TypeOK, share
  <2>17. Unlinks(o)
    <3>1. 1 \in 1 .. Len(work) BY <1>3
    <3> QED BY <1>2, <1>3, <3>1 DEF Unlinks
  <2>18. ASSUME NEW y \in Object PROVE KindIs(y)' /\ CountIs(y)' /\ InMap(y)'
    <3>1. KindIs(y)'
      <4>1. KindIs(y) BY DEF IInv, KindsAre
      <4> QED BY <1>3, <2>9, <2>15, <4>1, KindSame DEF share
    <3>2. CountIs(y)'
      <4>1. /\ n_shares[y] = Cardinality(Holding(y)) + Cardinality(Slots(y)) + stray[y]
            /\ Cardinality(Holding(y)) \in Nat /\ Cardinality(Slots(y)) \in Nat /\ stray[y] \in Nat
        BY <1>3, HoldersCounted, StrayIs DEF IInv, CountsAre, CountIs
      <4>2. n_shares'[y] = n_shares[y] /\ stray'[y] = stray[y] BY <1>3 DEF share
      <4>3. n_shares'[y] = Cardinality(Holding(y)') + Cardinality(Slots(y)') + Given(y)' + stray'[y]
        BY <1>5, <2>8, <2>15, <4>1, <4>2
      <4> QED BY <4>3 DEF CountIs
    <3>3. InMap(y)'
      <4>1. InMap(y) BY DEF IInv, MapIs
      <4>2. CASE y = o
        <5>1. y \in cyclic /\ Unlinks(y)' BY <1>7, <2>15, <2>17, <4>1, <4>2 DEF InMap
        <5> QED BY <2>1, <5>1 DEF InMap
      <4>3. CASE y # o BY <2>1, <2>8, <2>15, <4>1, <4>3 DEF InMap
      <4> QED BY <4>2, <4>3
    <3> QED BY <3>1, <3>2, <3>3
  <2> QED BY <1>3, <2>15, <2>16, <2>18, StepKeeps DEF share
<1> QED BY <1>6, <1>7
-----------------------------------------------------------------------------
(* Between statements.                                                     *)
LEMMA IdleIs ==
  ASSUME IInv, Ready
  PROVE  /\ \A y \in Object : home[y] = 0 /\ (y \in live <=> created[y] # 0)
         /\ \A y : y \notin Dying /\ ~Unlinks(y) /\ ~Creates(y) /\ Given(y) = 0
         /\ \A op : ~Ends(op)
         /\ depth >= base /\ fault = FALSE /\ work = <<>>
<1>1. work = <<>> /\ fault = FALSE BY DEF Ready
<1>2. \A y : ~Creates(y) /\ Given(y) = 0 BY <1>1 DEF Creates, Given, First
<1>3. \A op : ~Ends(op) BY <1>1 DEF Ends
<1>4. \A i \in 1 .. Len(work) : FALSE
  <2>1. Len(work) = 0 BY <1>1
  <2> QED BY <2>1
<1>5. \A y : y \notin Dying /\ ~Unlinks(y) BY <1>4, DyingHas DEF Has
<1>6. depth >= base BY <1>1 DEF IInv, DepthIs
<1>7. \A y \in Object : home[y] = 0 BY <1>3 DEF IInv, PoolsAre
<1>8. ASSUME NEW y \in Object PROVE y \in live <=> created[y] # 0
  <2>1. KindIs(y) BY DEF IInv, KindsAre
  <2> QED BY <1>2, <1>3, <2>1 DEF KindIs
<1> QED BY <1>1, <1>2, <1>3, <1>5, <1>6, <1>7, <1>8

(* A statement that only lists what is to be done, and may allocate what   *)
(* the list then creates.                                                  *)
LEMMA Started ==
  ASSUME IInv, Ready, UNCHANGED <<share, var, field, cyclic, depth, frames, fault>>,
         NEW ops \in Seq(Op), Replaced(ops), NEW n \in Nat, n = Len(ops), n > 0,
         \A i \in 1 .. n : ops[i].op \notin {"destroy"} /\ EntryIs(ops[i], i)',
         NEW o, \/ live' = live /\ ops[1].op \notin {"create", "unref"}
                \/ o \in Object \ live /\ live' = live \cup {o} /\ ops[1].op = "create" /\ ops[1].obj = o
  PROVE  IInv'
<1>1. /\ \A y \in Object : home[y] = 0 /\ (y \in live <=> created[y] # 0)
      /\ \A y : y \notin Dying /\ ~Unlinks(y) /\ ~Creates(y) /\ Given(y) = 0
      /\ \A op : ~Ends(op)
      /\ depth >= base /\ fault = FALSE /\ work = <<>>
  BY IdleIs
<1>2. WorkAre' /\ (\A y : Given(y)' = 0) /\ (\A y : y \notin Dying')
      /\ (\A y : Creates(y)' <=> ops[1].op = "create" /\ ops[1].obj = y)
  BY WorkReplaced
<1>3. (\A y : Slots(y)' = Slots(y)) /\ (\A y : Holding(y)' = Holding(y)) /\ base' = base BY SameHolders
<1>4. /\ n_shares' = n_shares /\ stray' = stray /\ created' = created /\ home' = home /\ var' = var /\ field' = field
      /\ cyclic' = cyclic /\ depth' = depth /\ frames' = frames /\ fault' = fault
  BY DEF share
<1>5. TypeOK'
  <2>1. live' \subseteq Object BY DEF IInv, TypeOK
  <2> QED BY <1>4, <2>1 DEF IInv, TypeOK
<1>6. PoolsAre' BY <1>1, <1>4 DEF PoolsAre
<1>7. FramesAre' /\ DepthIs' BY <1>1, <1>3, <1>4 DEF IInv, FramesAre, DepthIs
<1>8. ASSUME NEW y \in Object PROVE KindIs(y)' /\ CountIs(y)' /\ InMap(y)'
  <2>1. KindIs(y)'
    <3>1. KindIs(y) BY DEF IInv, KindsAre
    <3>2. CASE live' = live /\ ops[1].op \notin {"create", "unref"}
      BY <1>1, <1>2, <1>4, <3>1, <3>2 DEF KindIs
    <3>3. CASE o \in Object \ live /\ live' = live \cup {o} /\ ops[1].op = "create" /\ ops[1].obj = o
      BY <1>1, <1>2, <1>4, <3>1, <3>3 DEF KindIs
    <3> QED BY <3>2, <3>3
  <2>2. CountIs(y)' BY <1>1, <1>2, <1>3, <1>4 DEF IInv, CountsAre, CountIs
  <2>3. InMap(y)' BY <1>1, <1>3, <1>4 DEF IInv, MapIs, InMap
  <2> QED BY <2>1, <2>2, <2>3
<1> QED BY <1>2, <1>5, <1>6, <1>7, <1>8 DEF IInv, KindsAre, CountsAre, MapIs

LEMMA RunIs ==
  ASSUME NEW ops \in Seq(Op), NEW b \in Block, NEW w, w = ops \o <<Sweep(b, {})>>
  PROVE  /\ w \in Seq(Op) /\ Len(ops) \in Nat /\ Len(w) = Len(ops) + 1
         /\ w[Len(w)].op = "sweep" /\ w[Len(w)].block = b /\ w[Len(w)].ret = {}
         /\ \A i \in 1 .. Len(ops) : w[i] = ops[i]
<1>1. PICK ret : ret = {} OBVIOUS
<1>2. PICK s : s = Sweep(b, ret) OBVIOUS
<1>3. s \in Op /\ s.op = "sweep" /\ s.block = b /\ s.ret = {}
  <2>1. ret \subseteq Object BY <1>1
  <2> QED BY <1>1, <1>2, <2>1, SweepOp
<1>4. PICK z : z = <<s>> OBVIOUS
<1>5. z \in Seq(Op) /\ Len(z) = 1 /\ z[1] = s BY <1>3, <1>4, OneOp
<1>6. w = ops \o z BY <1>1, <1>2, <1>4
<1>7. /\ w \in Seq(Op) /\ Len(w) = Len(ops) + Len(z)
      /\ \A i \in 1 .. Len(ops) : w[i] = ops[i]
      /\ \A i \in Len(ops) + 1 .. Len(w) : w[i] = z[i - Len(ops)]
  <2>1. z \in Seq(Op) BY <1>5
  <2> QED BY <1>6, <2>1, InFront
<1>8. PICK n \in Nat : n = Len(ops) BY SeqIs
<1>9. w[n + 1] = s
  <2>1. n + 1 \in Len(ops) + 1 .. Len(w) /\ n + 1 - Len(ops) = 1 BY <1>5, <1>7, <1>8
  <2>2. w[n + 1] = z[n + 1 - Len(ops)] BY <1>7, <2>1
  <2> QED BY <1>5, <2>1, <2>2
<1> QED BY <1>3, <1>5, <1>7, <1>8, <1>9

LEMMA RunStep ==
  ASSUME IInv, Ready, UNCHANGED <<share, var, field, cyclic, depth, frames, fault>>,
         NEW ops \in Seq(Op), Run(ops), Len(ops) > 0,
         \A i \in 1 .. Len(ops) : /\ ops[i].op \in {"create", "store", "assign"}
                                  /\ i > 1 => ops[i].op # "create"
                                  /\ ops[i].op = "store" => ops[i].at[1] <= depth
                                  /\ ops[i].op = "assign" => i = Len(ops),
         NEW o, \/ live' = live /\ ops[1].op # "create"
                \/ o \in Object \ live /\ live' = live \cup {o} /\ ops[1].op = "create" /\ ops[1].obj = o
  PROVE  IInv'
<1>1. PICK w : w = work' OBVIOUS
<1>2. PICK b \in Block : b = depth BY FramesIs
<1>3. /\ w \in Seq(Op) /\ Len(ops) \in Nat /\ Len(w) = Len(ops) + 1
      /\ w[Len(w)].op = "sweep" /\ w[Len(w)].block = b /\ w[Len(w)].ret = {}
      /\ \A i \in 1 .. Len(ops) : w[i] = ops[i]
  <2>1. w = ops \o <<Sweep(b, {})>> BY <1>1, <1>2 DEF Run
  <2> QED BY <2>1, RunIs
<1>4. PICK n \in Nat : n = Len(w) /\ n = Len(ops) + 1 BY <1>3
<1>5. n > 1 /\ w # <<>> BY <1>3, <1>4
<1>6. Replaced(w) BY <1>1, <1>3 DEF Replaced
<1>7. Ends("sweep")' /\ Last'.block = depth /\ Len(work') = n /\ depth' = depth
  BY <1>1, <1>2, <1>3, <1>4, <1>5 DEF Ends, Last
<1>8. ASSUME NEW i \in 1 .. n PROVE w[i].op \notin {"destroy"} /\ EntryIs(w[i], i)'
  <2>1. i \in Nat BY <1>4
  <2>2. CASE i = n
    <3>1. EntryIs(w[i], i)' BY <1>3, <1>4, <1>5, <1>7, <2>2 DEF EntryIs
    <3> QED BY <1>3, <1>4, <2>2, <3>1
  <2>3. CASE i # n
    <3>1. i \in 1 .. Len(ops) /\ w[i] = ops[i] /\ i # Len(work') BY <1>3, <1>4, <1>7, <2>3
    <3>2. PICK u : u = ops[i] OBVIOUS
    <3>3. /\ u.op \in {"create", "store", "assign"} /\ (i > 1 => u.op # "create")
          /\ u.op = "store" => u.at[1] <= depth
          /\ u.op = "assign" => i = Len(work') - 1
      BY <1>3, <1>4, <1>7, <3>1, <3>2
    <3>4. EntryIs(u, i)' BY <1>7, <3>1, <3>3 DEF EntryIs
    <3> QED BY <3>1, <3>2, <3>3, <3>4
  <2> QED BY <2>2, <2>3
<1>9. \/ live' = live /\ w[1].op \notin {"create", "unref"}
      \/ o \in Object \ live /\ live' = live \cup {o} /\ w[1].op = "create" /\ w[1].obj = o
  <2>1. 1 \in 1 .. Len(ops) BY <1>3
  <2>2. w[1] = ops[1] /\ ops[1].op \in {"create", "store", "assign"} BY <1>3, <2>1
  <2> QED BY <2>2
<1>10. w \in Seq(Op) /\ n > 0 /\ n = Len(w) BY <1>3, <1>4, <1>5
<1> QED BY <1>6, <1>8, <1>9, <1>10, Started

LEMMA SeenIs ==
  ASSUME IInv, NEW p \in Visible
  PROVE  p \in Place /\ p[1] <= depth /\ var[p] \in Object \cup {Null}
<1>1. p \in Place /\ (p[1] = 1 \/ p[1] \in base .. depth) BY DEF Visible
<1>2. base \in Nat /\ depth \in Nat /\ depth >= 1 BY FramesIs
<1> QED BY <1>1, <1>2 DEF IInv, TypeOK

(* The statements that store to a variable.                                *)
LEMMA StoresAre ==
  ASSUME IInv, Ready, UNCHANGED <<share, var, field, cyclic, depth, frames, fault>>,
         NEW p \in Visible, NEW a \in Object \cup {Null}, live' = live, Run(<<Store(p, a)>>)
  PROVE  IInv'
<1>1. PICK t : t = Store(p, a) OBVIOUS
<1>2. p \in Place /\ p[1] <= depth BY SeenIs
<1>3. t \in Op /\ t.op = "store" /\ t.at = p BY <1>1, <1>2, StoreOps
<1>4. PICK ops : ops = <<t>> OBVIOUS
<1>5. ops \in Seq(Op) /\ Len(ops) = 1 /\ ops[1] = t BY <1>3, <1>4, OneOp
<1>6. Run(ops) BY <1>1, <1>4
<1>7. \A i \in 1 .. Len(ops) : i = 1 BY <1>5
<1>8. \A i \in 1 .. Len(ops) : /\ ops[i].op \in {"create", "store", "assign"}
                               /\ i > 1 => ops[i].op # "create"
                               /\ ops[i].op = "store" => ops[i].at[1] <= depth
                               /\ ops[i].op = "assign" => i = Len(ops)
  BY <1>2, <1>3, <1>5, <1>7
<1>9. live' = live /\ ops[1].op # "create" /\ Len(ops) > 0 BY <1>3, <1>5
<1>10. PICK o : o = a OBVIOUS
<1> QED BY <1>5, <1>6, <1>8, <1>9, RunStep

(* The statements that store to a field.                                   *)
LEMMA AssignsAre ==
  ASSUME IInv, Ready, UNCHANGED <<share, var, field, cyclic, depth, frames, fault>>,
         NEW x \in Object, NEW f \in Field, NEW a \in Object, live' = live, Run(<<Assign(x, f, a)>>)
  PROVE  IInv'
<1>1. PICK t : t = Assign(x, f, a) OBVIOUS
<1>2. t \in Op /\ t.op = "assign" BY <1>1, SlotOps
<1>3. PICK ops : ops = <<t>> OBVIOUS
<1>4. ops \in Seq(Op) /\ Len(ops) = 1 /\ ops[1] = t BY <1>2, <1>3, OneOp
<1>5. Run(ops) BY <1>1, <1>3
<1>6. \A i \in 1 .. Len(ops) : i = 1 BY <1>4
<1>7. \A i \in 1 .. Len(ops) : /\ ops[i].op \in {"create", "store", "assign"}
                               /\ i > 1 => ops[i].op # "create"
                               /\ ops[i].op = "store" => ops[i].at[1] <= depth
                               /\ ops[i].op = "assign" => i = Len(ops)
  BY <1>2, <1>4, <1>6
<1>8. live' = live /\ ops[1].op # "create" /\ Len(ops) > 0 BY <1>2, <1>4
<1> QED BY <1>4, <1>5, <1>7, <1>8, RunStep

(* Two operations, of which the first may create an object.                *)
LEMMA PairsAre ==
  ASSUME IInv, Ready, UNCHANGED <<share, var, field, cyclic, depth, frames, fault>>,
         NEW c \in Op, NEW t \in Op, Run(<<c, t>>),
         c.op \in {"create", "store"}, c.op = "store" => c.at[1] <= depth,
         t.op \in {"assign", "store"}, t.op = "store" => t.at[1] <= depth,
         NEW o, \/ live' = live /\ c.op # "create"
                \/ o \in Object \ live /\ live' = live \cup {o} /\ c.op = "create" /\ c.obj = o
  PROVE  IInv'
<1>1. PICK ops : ops = <<c, t>> OBVIOUS
<1>2. ops \in Seq(Op) /\ Len(ops) = 2 /\ ops[1] = c /\ ops[2] = t BY <1>1, TwoOps
<1>3. Run(ops) BY <1>1
<1>4. \A i \in 1 .. Len(ops) : i = 1 \/ i = 2 BY <1>2
<1>5. \A i \in 1 .. Len(ops) : /\ ops[i].op \in {"create", "store", "assign"}
                               /\ i > 1 => ops[i].op # "create"
                               /\ ops[i].op = "store" => ops[i].at[1] <= depth
                               /\ ops[i].op = "assign" => i = Len(ops)
  BY <1>2, <1>4
<1>6. Len(ops) > 0 BY <1>2
<1>7. \/ live' = live /\ ops[1].op # "create"
      \/ o \in Object \ live /\ live' = live \cup {o} /\ ops[1].op = "create" /\ ops[1].obj = o
  BY <1>2
<1> QED BY <1>2, <1>3, <1>5, <1>6, <1>7, RunStep

LEMMA NewStep ==
  ASSUME IInv, NEW p \in Visible, NEW o \in Object, NEW f,
         New(p, o) \/ (f \in Field /\ SetNew(p, f, o))
  PROVE  IInv'
<1>1. /\ Ready /\ UNCHANGED <<share, var, field, cyclic, depth, frames, fault>>
      /\ o \in Object \ live /\ live' = live \cup {o}
  BY DEF New, SetNew, Allocate
<1>2. p \in Place /\ p[1] <= depth /\ var[p] \in Object \cup {Null} BY SeenIs
<1>3. PICK c : c = Create(o) OBVIOUS
<1>4. c \in Op /\ c.op = "create" /\ c.obj = o BY <1>3, ObjectOps
<1>5. CASE New(p, o)
  <2>1. PICK a \in Object \cup {Null} : a = o OBVIOUS
  <2>2. PICK t : t = Store(p, a) OBVIOUS
  <2>3. t \in Op /\ t.op = "store" /\ t.at = p BY <1>2, <2>2, StoreOps
  <2>4. Run(<<c, t>>) BY <1>3, <1>5, <2>1, <2>2 DEF New
  <2> QED BY <1>1, <1>2, <1>4, <2>3, <2>4, PairsAre
<1>6. CASE f \in Field /\ SetNew(p, f, o)
  <2>1. PICK x \in Object : x = var[p] BY <1>2, <1>6 DEF SetNew
  <2>2. PICK t : t = Assign(x, f, o) OBVIOUS
  <2>3. t \in Op /\ t.op = "assign" BY <1>6, <2>2, SlotOps
  <2>4. Run(<<c, t>>) BY <1>3, <1>6, <2>1, <2>2 DEF SetNew
  <2> QED BY <1>1, <1>4, <2>3, <2>4, PairsAre
<1> QED BY <1>5, <1>6

LEMMA CopyStep ==
  ASSUME IInv, NEW p \in Visible, NEW q \in Visible, NEW f,
         Copy(p, q) \/ Forget(p) \/ (f \in Field /\ (Load(p, q, f) \/ Set(p, f, q)))
  PROVE  IInv'
<1>1. Ready /\ UNCHANGED <<live, share, var, field, cyclic, depth, frames, fault>>
  BY DEF Copy, Load, Forget, Set
<1>2. var[p] \in Object \cup {Null} /\ var[q] \in Object \cup {Null} BY SeenIs
<1>3. CASE Copy(p, q)
  <2>1. PICK a \in Object \cup {Null} : a = var[q] BY <1>2
  <2>2. Run(<<Store(p, a)>>) BY <1>3, <2>1 DEF Copy
  <2> QED BY <1>1, <2>2, StoresAre
<1>4. CASE f \in Field /\ Load(p, q, f)
  <2>1. var[q] \in Object BY <1>2, <1>4 DEF Load
  <2>2. PICK a \in Object \cup {Null} : a = field[var[q]][f] BY <1>4, <2>1 DEF IInv, TypeOK
  <2>3. Run(<<Store(p, a)>>) BY <1>4, <2>2 DEF Load
  <2> QED BY <1>1, <2>3, StoresAre
<1>5. CASE Forget(p)
  <2>1. PICK a \in Object \cup {Null} : a = Null OBVIOUS
  <2>2. Run(<<Store(p, a)>>) BY <1>5, <2>1 DEF Forget
  <2> QED BY <1>1, <2>2, StoresAre
<1>6. CASE f \in Field /\ Set(p, f, q)
  <2>1. PICK x \in Object : x = var[p] BY <1>2, <1>6 DEF Set
  <2>2. PICK a \in Object : a = var[q] BY <1>2, <1>6 DEF Set
  <2>3. Run(<<Assign(x, f, a)>>) /\ f \in Field BY <1>6, <2>1, <2>2 DEF Set
  <2> QED BY <1>1, <2>3, AssignsAre
<1> QED BY <1>3, <1>4, <1>5, <1>6

LEMMA SwapStep == ASSUME IInv, NEW p \in Visible, NEW q \in Visible, Swap(p, q) PROVE IInv'
<1>1. Ready /\ UNCHANGED <<live, share, var, field, cyclic, depth, frames, fault>> BY DEF Swap
<1>2. /\ p \in Place /\ p[1] <= depth /\ q \in Place /\ q[1] <= depth
      /\ var[p] \in Object \cup {Null} /\ var[q] \in Object \cup {Null}
  BY SeenIs
<1>3. PICK a \in Object \cup {Null} : a = var[q] BY <1>2
<1>4. PICK b \in Object \cup {Null} : b = var[p] BY <1>2
<1>5. PICK c, t : c = Store(p, a) /\ t = Store(q, b) OBVIOUS
<1>6. c \in Op /\ c.op = "store" /\ c.at = p /\ t \in Op /\ t.op = "store" /\ t.at = q
  BY <1>2, <1>5, StoreOps
<1>7. Run(<<c, t>>) BY <1>3, <1>4, <1>5 DEF Swap
<1>8. PICK o : o = a OBVIOUS
<1> QED BY <1>1, <1>2, <1>6, <1>7, PairsAre

LEMMA AdvanceStep ==
  ASSUME IInv, NEW p \in Visible, NEW f \in Field, NEW g \in Field, Advance(p, f, g)
  PROVE  IInv'
<1>1. Ready /\ UNCHANGED <<live, share, var, field, cyclic, depth, frames, fault>> BY DEF Advance
<1>2. var[p] \in Object BY SeenIs DEF Advance
<1>3. PICK x \in Object : x = var[p] BY <1>2
<1>4. PICK y \in Object : y = field[x][f] BY <1>3 DEF Advance, IInv, TypeOK
<1>5. PICK a \in Object : a = field[y][g] BY <1>3, <1>4 DEF Advance, IInv, TypeOK
<1>6. Run(<<Assign(x, f, a)>>) BY <1>3, <1>4, <1>5 DEF Advance
<1> QED BY <1>1, <1>6, AssignsAre

(* p.f = null takes the slot out of the map and gives its source up.       *)
LEMMA SetNullStep == ASSUME IInv, NEW p \in Visible, NEW f \in Field, SetNull(p, f) PROVE IInv'
<1>1. Ready /\ UNCHANGED <<live, share, var, depth, frames, fault>> BY DEF SetNull
<1>2. PICK x \in Object : x = var[p] BY SeenIs DEF SetNull
<1>3. PICK old : old = field[x][f] OBVIOUS
<1>4. old # Null /\ RemoveSlot(x, f) /\ Run(<<Unref(old, 0)>>) BY <1>2, <1>3 DEF SetNull
<1>5. /\ old \in Object /\ field' \in [Object -> [Field -> Object \cup {Null}]] /\ cyclic' \subseteq Object
      /\ \A y \in Object, g \in Field : field'[y][g] \in {field[y][g], Null}
      /\ \A y \in Object : Cardinality(Slots(y)') = IF y = old THEN Cardinality(Slots(y)) - 1
                                                   ELSE Cardinality(Slots(y))
      /\ \A y \in Object : /\ Slots(y)' # {} => y \in cyclic'
                           /\ y \in cyclic' => Slots(y)' # {} \/ Unlinks(y)
  BY <1>3, <1>4, RemoveIs
<1>6. /\ \A y \in Object : home[y] = 0 /\ (y \in live <=> created[y] # 0)
      /\ \A y : y \notin Dying /\ ~Unlinks(y) /\ ~Creates(y) /\ Given(y) = 0
      /\ \A op : ~Ends(op)
      /\ depth >= base
  BY <1>1, IdleIs
<1>7. PICK u : u = Unref(old, 0) OBVIOUS
<1>8. u \in Op /\ u.op = "unref" /\ u.obj = old /\ u.block = 0 BY <1>5, <1>7, ObjectOps
<1>9. PICK ops : ops = <<u>> OBVIOUS
<1>10. ops \in Seq(Op) /\ Len(ops) = 1 /\ ops[1] = u BY <1>8, <1>9, OneOp
<1>11. PICK b \in Block : b = depth BY FramesIs
<1>12. PICK w : w = work' OBVIOUS
<1>13. /\ w \in Seq(Op) /\ Len(w) = Len(ops) + 1
       /\ w[Len(w)].op = "sweep" /\ w[Len(w)].block = b /\ w[Len(w)].ret = {}
       /\ \A i \in 1 .. Len(ops) : w[i] = ops[i]
  <2>1. w = ops \o <<Sweep(b, {})>> BY <1>4, <1>7, <1>9, <1>11, <1>12 DEF Run
  <2>2. ops \in Seq(Op) BY <1>10
  <2> QED BY <2>1, <2>2, RunIs
<1>14. Len(w) = 2 /\ w[1] = u /\ w[2].op = "sweep" /\ w[2].ret = {} BY <1>10, <1>13
<1>15. Replaced(w) BY <1>12, <1>13 DEF Replaced
<1>16. EntryIs(w[1], 1)'
  <2>1. Len(work') \in Nat /\ Len(work') > 1 BY <1>12, <1>14
  <2>2. EntryIs(u, 1)' BY <1>8, <2>1, UnrefPlaced
  <2> QED BY <1>14, <2>2
<1>17. EntryIs(w[2], 2)'
  <2>1. PICK i \in Nat : i = 2 OBVIOUS
  <2>2. PICK s : s = w[2] OBVIOUS
  <2>3. i = Len(work') /\ s.op = "sweep" /\ s.ret = {} BY <1>12, <1>14, <2>1, <2>2
  <2>4. EntryIs(s, i)' BY <2>3 DEF EntryIs
  <2> QED BY <2>1, <2>2, <2>4
<1>18. /\ WorkAre' /\ (\A y : Given(y)' = IF y = old THEN 1 ELSE 0) /\ (\A y : ~Creates(y)')
       /\ (\A y : y \notin Dying')
  <2>1. PICK n \in Nat : n = 2 OBVIOUS
  <2>2. n = Len(w) /\ n > 0 /\ w \in Seq(Op)
    <3>1. n = Len(w) BY <1>14, <2>1
    <3>2. n > 0 BY <2>1
    <3> QED BY <1>13, <3>1, <3>2
  <2>3. \A i \in 1 .. n : i = 1 \/ i = 2 BY <2>1
  <2>4. \A i \in 1 .. n : w[i].op \notin {"destroy"} /\ EntryIs(w[i], i)'
    BY <1>8, <1>14, <1>16, <1>17, <2>3
  <2>5. /\ WorkAre' /\ (\A y : y \notin Dying')
        /\ (\A y : Given(y)' = IF w[1].op = "unref" /\ w[1].obj = y THEN 1 ELSE 0)
        /\ (\A y : Creates(y)' <=> w[1].op = "create" /\ w[1].obj = y)
    BY <1>15, <2>2, <2>4, WorkReplaced
  <2> QED BY <1>8, <1>14, <2>5
<1>19. (\A y : Holding(y)' = Holding(y)) /\ base' = base BY <1>1, SameHolders
<1>20. TypeOK' BY <1>1, <1>5 DEF IInv, TypeOK, share
<1>21. PoolsAre' BY <1>1, <1>6 DEF PoolsAre, share
<1>22. FramesAre' /\ DepthIs' BY <1>1, <1>6, <1>19 DEF IInv, FramesAre, DepthIs
<1>23. ASSUME NEW y \in Object PROVE KindIs(y)' /\ CountIs(y)' /\ InMap(y)'
  <2>1. KindIs(y)'
    <3>1. KindIs(y) BY DEF IInv, KindsAre
    <3>2. \A g \in Field : field[y][g] = Null => field'[y][g] = Null BY <1>5
    <3> QED BY <1>1, <1>6, <1>18, <3>1, <3>2 DEF KindIs, share
  <2>2. CountIs(y)'
    <3>1. /\ n_shares[y] = Cardinality(Holding(y)) + Cardinality(Slots(y)) + stray[y]
          /\ Cardinality(Holding(y)) \in Nat /\ Cardinality(Slots(y)) \in Nat /\ stray[y] \in Nat
      BY <1>6, HoldersCounted, StrayIs DEF IInv, CountsAre, CountIs
    <3>2. n_shares'[y] = n_shares[y] /\ stray'[y] = stray[y] BY <1>1 DEF share
    <3>3. n_shares'[y] = Cardinality(Holding(y)') + Cardinality(Slots(y)') + Given(y)' + stray'[y]
      BY <1>5, <1>18, <1>19, <3>1, <3>2
    <3> QED BY <3>3 DEF CountIs
  <2>3. InMap(y)' BY <1>5, <1>6 DEF InMap
  <2> QED BY <2>1, <2>2, <2>3
<1> QED BY <1>18, <1>20, <1>21, <1>22, <1>23 DEF IInv, KindsAre, CountsAre, MapIs

LEMMA ReturnOp ==
  ASSUME NEW ret, ret \subseteq Object, NEW value, value \in Value, NEW u, u = Return(ret, value)
  PROVE  u \in Op /\ u.op = "return" /\ u.ret = ret /\ u.value = value
BY DEF Return, Op

(* Statements that list one or two operations and no sweep.                *)
LEMMA OneListed ==
  ASSUME IInv, Ready, UNCHANGED <<live, share, var, field, cyclic, depth, frames, fault>>,
         NEW u \in Op, work' = <<u>>, u.op \in {"pop", "return", "unwind"},
         u.op = "pop" => u.ret = {} /\ depth > base,
         u.op = "return" => /\ frames # <<>>
                            /\ u.value[1] = "object" => u.ret = {u.value[2]}
                            /\ u.value[1] # "object" => u.ret = {}
  PROVE  IInv'
<1>1. PICK ops : ops = <<u>> OBVIOUS
<1>2. ops \in Seq(Op) /\ Len(ops) = 1 /\ ops[1] = u BY <1>1, OneOp
<1>3. work' = ops BY <1>1
<1>4. Replaced(ops) /\ Len(work') = 1 BY <1>2, <1>3 DEF Replaced
<1>5. PICK n \in Nat : n = 1 OBVIOUS
<1>6. n = Len(ops) BY <1>2, <1>5
<1>7. \A i \in 1 .. n : i = 1 BY <1>5
<1>8. depth >= base /\ depth \in Nat /\ base \in Nat BY IdleIs, FramesIs
<1>9. base' = base /\ depth' = depth /\ frames' = frames BY SameHolders
<1>10. EntryIs(u, 1)'
  <2>1. PICK i \in Nat : i = 1 OBVIOUS
  <2>2. i = Len(work') /\ ~(i > 1) BY <1>4, <2>1
  <2>3. EntryIs(u, i)' BY <1>8, <1>9, <2>2 DEF EntryIs
  <2> QED BY <2>1, <2>3
<1>11. \A i \in 1 .. n : ops[i].op \notin {"destroy"} /\ EntryIs(ops[i], i)' BY <1>2, <1>7, <1>10
<1>12. live' = live /\ ops[1].op \notin {"create", "unref"} BY <1>2
<1>13. n > 0 BY <1>5
<1> QED BY <1>2, <1>4, <1>6, <1>11, <1>12, <1>13, Started

LEMMA CreateListed ==
  ASSUME IInv, Ready, UNCHANGED <<share, var, field, cyclic, depth, frames, fault>>,
         NEW o \in Object, Allocate(o), NEW u \in Op, work' = <<Create(o), u>>,
         u.op \in {"return", "unwind"},
         u.op = "return" => /\ frames # <<>>
                            /\ u.value[1] = "object" => u.ret = {u.value[2]}
                            /\ u.value[1] # "object" => u.ret = {}
  PROVE  IInv'
<1>1. PICK c : c = Create(o) OBVIOUS
<1>2. c \in Op /\ c.op = "create" /\ c.obj = o BY <1>1, ObjectOps
<1>3. PICK ops : ops = <<c, u>> OBVIOUS
<1>4. ops \in Seq(Op) /\ Len(ops) = 2 /\ ops[1] = c /\ ops[2] = u /\ ops # <<>> BY <1>2, <1>3, TwoOps
<1>5. work' = ops BY <1>1, <1>3
<1>6. Replaced(ops) /\ Len(work') = 2 BY <1>4, <1>5 DEF Replaced
<1>7. \A op : Ends(op)' <=> u.op = op BY <1>4, <1>5 DEF Ends, Last
<1>8. PICK n \in Nat : n = 2 OBVIOUS
<1>9. n = Len(ops) BY <1>4, <1>8
<1>10. \A i \in 1 .. n : i = 1 \/ i = 2 BY <1>8
<1>11. depth >= base /\ depth \in Nat /\ base \in Nat BY IdleIs, FramesIs
<1>12. base' = base /\ depth' = depth /\ frames' = frames BY SameHolders
<1>13. EntryIs(c, 1)'
  <2>1. PICK i \in Nat : i = 1 OBVIOUS
  <2>2. i # Len(work') /\ ~(i > 1) BY <1>6, <2>1
  <2>3. EntryIs(c, i)' BY <1>2, <1>6, <1>7, <1>11, <1>12, <2>2 DEF EntryIs
  <2> QED BY <2>1, <2>3
<1>14. EntryIs(u, 2)'
  <2>1. PICK i \in Nat : i = 2 OBVIOUS
  <2>2. i = Len(work') BY <1>6, <2>1
  <2>3. EntryIs(u, i)' BY <1>11, <1>12, <2>2 DEF EntryIs
  <2> QED BY <2>1, <2>3
<1>15. \A i \in 1 .. n : ops[i].op \notin {"destroy"} /\ EntryIs(ops[i], i)'
  BY <1>2, <1>4, <1>10, <1>13, <1>14
<1>16. o \in Object \ live /\ live' = live \cup {o} /\ ops[1].op = "create" /\ ops[1].obj = o
  BY <1>2, <1>4 DEF Allocate
<1>17. n > 0 BY <1>8
<1> QED BY <1>4, <1>6, <1>9, <1>15, <1>16, <1>17, Started

LEMMA ExitStep == ASSUME IInv, Exit PROVE IInv'
<1>1. PICK ret : ret = {} OBVIOUS
<1>2. PICK u : u = PopScope(ret) OBVIOUS
<1>3. u \in Op /\ u.op = "pop" /\ u.ret = {}
  <2>1. ret \subseteq Object BY <1>1
  <2> QED BY <1>1, <1>2, <2>1, BlockOps
<1>4. /\ Ready /\ UNCHANGED <<live, share, var, field, cyclic, depth, frames, fault>>
      /\ work' = <<u>> /\ depth > base
  BY <1>1, <1>2 DEF Exit
<1> QED BY <1>3, <1>4, OneListed

LEMMA ReturnVarStep ==
  ASSUME IInv, NEW p \in Visible, NEW f, ReturnVar(p) \/ (f \in Field /\ ReturnItem(p, f))
  PROVE  IInv'
<1>1. /\ Ready /\ UNCHANGED <<live, share, var, field, cyclic, depth, frames, fault>> /\ frames # <<>>
  BY DEF ReturnVar, ReturnItem, Returning
<1>2. p \in Place /\ var[p] \in Object BY SeenIs DEF ReturnVar, ReturnItem
<1>3. PICK ret, value :
        /\ ret \subseteq Object /\ value \in Value /\ work' = <<Return(ret, value)>>
        /\ value[1] = "object" => ret = {value[2]}
        /\ value[1] # "object" => ret = {}
  <2>1. PICK a \in Object : a = var[p] BY <1>2
  <2>2. CASE f \in Field /\ ReturnItem(p, f)
    <3>1. PICK ret, value : ret = {} /\ value = <<"slot", a, f>> OBVIOUS
    <3>2. value \in Value /\ value[1] = "slot" BY <2>2, <3>1 DEF Value
    <3>3. work' = <<Return(ret, value)>> BY <2>1, <2>2, <3>1 DEF ReturnItem
    <3> QED BY <3>1, <3>2, <3>3
  <2>3. CASE ReturnVar(p) /\ p[1] = 1
    <3>1. PICK v \in Variable : v = p[2] BY <1>2 DEF Place
    <3>2. PICK ret, value : ret = {} /\ value = <<"variable", v>> OBVIOUS
    <3>3. value \in Value /\ value[1] = "variable" BY <3>2 DEF Value
    <3>4. work' = <<Return(ret, value)>> BY <2>3, <3>1, <3>2 DEF ReturnVar
    <3> QED BY <3>2, <3>3, <3>4
  <2>4. CASE ReturnVar(p) /\ p[1] # 1
    <3>1. PICK ret, value : ret = {a} /\ value = <<"object", a>> OBVIOUS
    <3>2. value \in Value /\ value[1] = "object" /\ value[2] = a BY <3>1 DEF Value
    <3>3. work' = <<Return(ret, value)>> BY <2>1, <2>4, <3>1 DEF ReturnVar
    <3> QED BY <3>1, <3>2, <3>3
  <2> QED BY <2>2, <2>3, <2>4
<1>4. PICK u : u = Return(ret, value) OBVIOUS
<1>5. u \in Op /\ u.op = "return" /\ u.ret = ret /\ u.value = value BY <1>3, <1>4, ReturnOp
<1>6. work' = <<u>> BY <1>3, <1>4
<1> QED BY <1>1, <1>3, <1>5, <1>6, OneListed

LEMMA ReturnNewStep ==
  ASSUME IInv, NEW o, (o \in Object /\ ReturnNew(o)) \/ ReturnNothing
  PROVE  IInv'
<1>1. Ready /\ UNCHANGED <<share, var, field, cyclic, depth, frames, fault>> /\ frames # <<>>
  BY DEF ReturnNew, ReturnNothing, Returning
<1>2. CASE o \in Object /\ ReturnNew(o)
  <2>1. PICK ret, value : ret = {o} /\ value = <<"object", o>> OBVIOUS
  <2>2. ret \subseteq Object /\ value \in Value /\ value[1] = "object" /\ value[2] = o BY <1>2, <2>1 DEF Value
  <2>3. PICK u : u = Return(ret, value) OBVIOUS
  <2>4. u \in Op /\ u.op = "return" /\ u.ret = ret /\ u.value = value BY <2>2, <2>3, ReturnOp
  <2>5. work' = <<Create(o), u>> /\ Allocate(o) /\ o \in Object BY <1>2, <2>1, <2>3 DEF ReturnNew
  <2> QED BY <1>1, <2>1, <2>2, <2>4, <2>5, CreateListed
<1>3. CASE ReturnNothing
  <2>1. PICK ret, value : ret = {} /\ value = <<"nothing">> OBVIOUS
  <2>2. ret \subseteq Object /\ value \in Value /\ value[1] = "nothing" BY <2>1 DEF Value
  <2>3. PICK u : u = Return(ret, value) OBVIOUS
  <2>4. u \in Op /\ u.op = "return" /\ u.ret = ret /\ u.value = value BY <2>2, <2>3, ReturnOp
  <2>5. work' = <<u>> /\ live' = live BY <1>3, <2>1, <2>3 DEF ReturnNothing
  <2> QED BY <1>1, <2>1, <2>2, <2>4, <2>5, OneListed
<1> QED BY <1>2, <1>3

LEMMA FailStep == ASSUME IInv, Fail PROVE IInv'
<1>1. Ready /\ UNCHANGED <<share, var, field, cyclic, depth, frames, fault>> BY DEF Fail
<1>2. PICK u : u = Unwind(Null) OBVIOUS
<1>3. u \in Op /\ u.op = "unwind" BY <1>2, OtherOps
<1>4. CASE work' = <<u>> /\ live' = live BY <1>1, <1>3, <1>4, OneListed
<1>5. CASE \E o \in Object : Allocate(o) /\ work' = <<Create(o), u>>
  <2>1. PICK o \in Object : Allocate(o) /\ work' = <<Create(o), u>> BY <1>5
  <2> QED BY <1>1, <1>3, <2>1, CreateListed
<1> QED BY <1>2, <1>4, <1>5 DEF Fail

LEMMA CallFailsStep == ASSUME IInv, CallFails PROVE IInv'
<1>1. Ready /\ UNCHANGED <<share, var, field, cyclic, depth, frames, fault>> BY DEF CallFails
<1>2. CASE \E p \in Visible : var[p] # Null /\ work' = <<Unwind(var[p])>> /\ live' = live
  <2>1. PICK p \in Visible : var[p] # Null /\ work' = <<Unwind(var[p])>> /\ live' = live BY <1>2
  <2>2. PICK o \in Object : o = var[p] BY <2>1, SeenIs
  <2>3. PICK u : u = Unwind(o) OBVIOUS
  <2>4. u \in Op /\ u.op = "unwind" /\ work' = <<u>> BY <2>1, <2>2, <2>3, OtherOps
  <2> QED BY <1>1, <2>1, <2>4, OneListed
<1>3. CASE \E o \in Object : Allocate(o) /\ work' = <<Create(o), Unwind(o)>>
  <2>1. PICK o \in Object : Allocate(o) /\ work' = <<Create(o), Unwind(o)>> BY <1>3
  <2>2. PICK u : u = Unwind(o) OBVIOUS
  <2>3. u \in Op /\ u.op = "unwind" /\ work' = <<Create(o), u>> BY <2>1, <2>2, OtherOps
  <2> QED BY <1>1, <2>1, <2>3, CreateListed
<1> QED BY <1>2, <1>3 DEF CallFails

LEMMA ClearStep == ASSUME IInv, ClearGlobalVariables PROVE IInv'
<1>1. Ready /\ UNCHANGED <<live, share, var, field, cyclic, depth, frames, fault>>
  BY DEF ClearGlobalVariables
<1>2. PICK ret : ret = {} OBVIOUS
<1>3. PICK b \in Block : b = 1 BY FramesIs
<1>4. PICK d, g, s : d = Deref /\ g = Globals /\ s = Sweep(b, ret) OBVIOUS
<1>5. s \in Op /\ s.op = "sweep" /\ s.block = 1 /\ s.ret = {}
  <2>1. ret \subseteq Object BY <1>2
  <2>2. s \in Op /\ s.op = "sweep" /\ s.block = b /\ s.ret = ret BY <1>4, <2>1, SweepOp
  <2> QED BY <1>2, <1>3, <2>2
<1>6. d \in Op /\ d.op = "deref" /\ g \in Op /\ g.op = "globals" BY <1>4, OtherOps
<1>7. PICK ops : ops = <<d, g, s>> OBVIOUS
<1>8. /\ ops \in Seq(Op) /\ Len(ops) = 3 /\ ops[1] = d /\ ops[2] = g /\ ops[3] = s /\ ops # <<>>
  BY <1>5, <1>6, <1>7, ThreeOps
<1>9. work' = ops BY <1>2, <1>3, <1>4, <1>7 DEF ClearGlobalVariables
<1>10. Replaced(ops) /\ Len(work') = 3 BY <1>8, <1>9 DEF Replaced
<1>11. Ends("sweep")' /\ Last'.block = 1 BY <1>5, <1>8, <1>9 DEF Ends, Last
<1>12. PICK n \in Nat : n = 3 OBVIOUS
<1>13. n = Len(ops) BY <1>8, <1>12
<1>14. \A i \in 1 .. n : i = 1 \/ i = 2 \/ i = 3 BY <1>12
<1>15. ASSUME NEW i \in 1 .. n PROVE ops[i].op \notin {"destroy"} /\ EntryIs(ops[i], i)'
  <2>1. PICK u : u = ops[i] OBVIOUS
  <2>2. \/ u.op \in {"deref", "globals"} /\ i # Len(work')
        \/ u.op = "sweep" /\ u.ret = {} /\ i = Len(work')
    BY <1>5, <1>6, <1>8, <1>10, <1>14, <2>1
  <2>3. EntryIs(u, i)' BY <1>11, <2>2 DEF EntryIs
  <2> QED BY <2>1, <2>2, <2>3
<1>16. live' = live /\ ops[1].op \notin {"create", "unref"} BY <1>1, <1>6, <1>8
<1>17. n > 0 BY <1>12
<1> QED BY <1>1, <1>8, <1>10, <1>13, <1>15, <1>16, <1>17, Started

(* A block is entered, or a function.                                      *)
LEMMA EnterStep == ASSUME IInv, Enter PROVE IInv'
<1>1. /\ Ready /\ depth < MaxDepth /\ depth' = depth + 1
      /\ UNCHANGED <<live, share, var, field, cyclic, frames, work, fault>>
  BY DEF Enter
<1>2. /\ \A y \in Object : home[y] = 0 /\ (y \in live <=> created[y] # 0)
      /\ \A y : y \notin Dying /\ ~Unlinks(y) /\ ~Creates(y) /\ Given(y) = 0
      /\ \A op : ~Ends(op)
      /\ depth >= base /\ work = <<>>
  BY <1>1, IdleIs
<1>3. /\ WorkAre' /\ (\A op : ~Ends(op)') /\ (\A y : Given(y)' = 0) /\ (\A y : ~Creates(y)')
      /\ (\A y : y \notin Dying') /\ (\A y : ~Unlinks(y)')
  <2>1. work' = <<>> BY <1>1, <1>2
  <2> QED BY <2>1, WorkEmptied
<1>4. (\A y : Slots(y)' = Slots(y)) /\ (\A y : Holding(y)' = Holding(y)) /\ base' = base
  BY <1>1, SameHolders
<1>5. depth \in Nat /\ base \in Nat /\ depth' \in Block BY <1>1, FramesIs, DepthAssumption DEF Block
<1>6. TypeOK' BY <1>1, <1>5 DEF IInv, TypeOK, share
<1>7. PoolsAre' BY <1>1, <1>2 DEF PoolsAre, share
<1>8. FramesAre' BY <1>1 DEF IInv, FramesAre
<1>9. DepthIs'
  <2>1. depth' >= base' BY <1>1, <1>2, <1>4, <1>5
  <2>2. \A q \in Place : q[1] > depth' => q[1] > depth
    <3> TAKE q \in Place
    <3>1. q[1] \in Nat BY DEF Place, Block
    <3> QED BY <1>1, <1>5, <3>1
  <2> QED BY <1>1, <2>1, <2>2 DEF IInv, DepthIs
<1>10. ASSUME NEW y \in Object PROVE KindIs(y)' /\ CountIs(y)' /\ InMap(y)'
  <2>1. KindIs(y)'
    <3>1. KindIs(y) BY DEF IInv, KindsAre
    <3> QED BY <1>1, <1>2, <1>3, <3>1 DEF KindIs, share
  <2>2. CountIs(y)' BY <1>1, <1>2, <1>3, <1>4 DEF IInv, CountsAre, CountIs, share
  <2>3. InMap(y)' BY <1>1, <1>2, <1>4 DEF IInv, MapIs, InMap
  <2> QED BY <2>1, <2>2, <2>3
<1> QED BY <1>3, <1>6, <1>7, <1>8, <1>9, <1>10 DEF IInv, KindsAre, CountsAre, MapIs

LEMMA Entered ==
  ASSUME IInv, depth < MaxDepth, NEW to \in Visible \cup {Null}, depth >= base,
         frames' = Append(frames, [base |-> depth + 1, to |-> to])
  PROVE  /\ frames' \in Seq([base : Block, to : Place \cup {Null}]) /\ base' = depth + 1 /\ FramesAre'
<1>1. frames \in Seq([base : Block, to : Place \cup {Null}]) /\ depth \in Nat /\ depth >= 1 /\ base \in Nat
  BY FramesIs DEF IInv, TypeOK
<1>2. PICK r : r = [base |-> depth + 1, to |-> to] OBVIOUS
<1>3. /\ depth + 1 \in Block /\ to \in Place \cup {Null}
      /\ to # Null => to[1] \in Nat /\ to[1] <= depth
  <2>1. to # Null => to \in Place /\ to[1] <= depth BY SeenIs
  <2>2. to # Null => to[1] \in Nat BY <2>1 DEF Place, Block
  <2> QED BY <1>1, <2>1, <2>2, DepthAssumption DEF Block
<1>4. r \in [base : Block, to : Place \cup {Null}] /\ r.base = depth + 1 /\ r.to = to BY <1>2, <1>3
<1>5. PICK n \in Nat : n = Len(frames) BY <1>1, SeqIs
<1>6. /\ frames' \in Seq([base : Block, to : Place \cup {Null}]) /\ Len(frames') = n + 1
      /\ frames'[n + 1] = r /\ \A i \in 1 .. n : frames'[i] = frames[i]
  <2>1. frames' = Append(frames, r) BY <1>2
  <2> QED BY <1>1, <1>4, <1>5, <2>1, AppendProperties
<1>7. base' = depth + 1
  <2>1. frames' # <<>> BY <1>5, <1>6
  <2>2. base' = frames'[Len(frames')].base BY <2>1 DEF base
  <2> QED BY <1>4, <1>6, <2>2
<1>8. \A j \in 1 .. n : frames[j].base \in Nat /\ frames[j].base <= depth
  <2>1. \A j \in 1 .. n : frames[j] \in [base : Block, to : Place \cup {Null}] BY <1>1, <1>5, SeqIs
  <2>2. \A j \in 1 .. n : frames[j].base \in Nat BY <2>1 DEF Block
  <2>3. n > 0 => base = frames[n].base
    <3>1. n > 0 => frames # <<>> BY <1>5
    <3> QED BY <1>5, <3>1 DEF base
  <2>4. \A j \in 1 .. n : j = n \/ frames[j].base < frames[n].base
    <3> TAKE j \in 1 .. n
    <3>1. CASE j # n
      <4>1. n \in 1 .. Len(frames) /\ j \in 1 .. n - 1 BY <1>5, <3>1
      <4> QED BY <4>1 DEF IInv, FramesAre
    <3> QED BY <3>1
  <2> TAKE j \in 1 .. n
  <2>5. n > 0 /\ n \in 1 .. n OBVIOUS
  <2> QED BY <1>1, <2>2, <2>3, <2>4, <2>5
<1>9. FramesAre'
  <2> SUFFICES ASSUME NEW i \in 1 .. Len(frames')
               PROVE  /\ frames'[i].base > 1
                      /\ frames'[i].to # Null => frames'[i].to[1] < frames'[i].base
                      /\ \A j \in 1 .. i - 1 : frames'[j].base < frames'[i].base
    BY DEF FramesAre
  <2>1. i \in 1 .. n + 1 BY <1>6
  <2>2. \A j \in 1 .. i - 1 : j \in 1 .. n BY <2>1
  <2>3. CASE i = n + 1
    <3>1. frames'[i] = r BY <1>6, <2>3
    <3>2. frames'[i].base > 1 BY <1>1, <1>4, <3>1
    <3>3. frames'[i].to # Null => frames'[i].to[1] < frames'[i].base BY <1>1, <1>3, <1>4, <3>1
    <3>4. \A j \in 1 .. i - 1 : frames'[j].base < frames'[i].base
      <4> TAKE j \in 1 .. i - 1
      <4>1. j \in 1 .. n BY <2>2
      <4>2. frames'[j] = frames[j] /\ frames[j].base \in Nat /\ frames[j].base <= depth BY <1>6, <1>8, <4>1
      <4> QED BY <1>1, <1>4, <3>1, <4>2
    <3> QED BY <3>2, <3>3, <3>4
  <2>4. CASE i # n + 1
    <3>1. i \in 1 .. n /\ i \in 1 .. Len(frames) BY <1>5, <2>1, <2>4
    <3>2. frames'[i] = frames[i] /\ \A j \in 1 .. i - 1 : frames'[j] = frames[j] BY <1>6, <2>2, <3>1
    <3> QED BY <3>1, <3>2 DEF IInv, FramesAre
  <2> QED BY <2>3, <2>4
<1> QED BY <1>6, <1>7, <1>9

LEMMA CallStep ==
  ASSUME IInv, NEW to \in Visible \cup {Null}, NEW q \in Visible, NEW v \in Variable, Call(to, q, v)
  PROVE  IInv'
<1>1. /\ Ready /\ depth < MaxDepth /\ var[q] # Null
      /\ frames' = Append(frames, [base |-> depth + 1, to |-> to]) /\ depth' = depth + 1
      /\ var' = [var EXCEPT ![<<depth + 1, v>>] = var[q]] /\ Share(var[q])
      /\ UNCHANGED <<live, field, cyclic, work, fault>>
  BY DEF Call
<1>2. PICK o \in Object : o = var[q] BY <1>1, SeenIs
<1>3. /\ \A y \in Object : home[y] = 0 /\ (y \in live <=> created[y] # 0)
      /\ \A y : y \notin Dying /\ ~Unlinks(y) /\ ~Creates(y) /\ Given(y) = 0
      /\ \A op : ~Ends(op)
      /\ depth >= base /\ work = <<>>
  BY <1>1, IdleIs
<1>4. /\ WorkAre' /\ (\A op : ~Ends(op)') /\ (\A y : Given(y)' = 0) /\ (\A y : ~Creates(y)')
      /\ (\A y : y \notin Dying') /\ (\A y : ~Unlinks(y)')
  <2>1. work' = <<>> BY <1>1, <1>3
  <2> QED BY <2>1, WorkEmptied
<1>5. depth \in Nat /\ base \in Nat /\ depth + 1 \in Block BY <1>1, FramesIs, DepthAssumption DEF Block
<1>6. /\ frames' \in Seq([base : Block, to : Place \cup {Null}]) /\ base' = depth + 1 /\ FramesAre'
  BY <1>1, <1>3, Entered
<1>7. PICK p \in Place : p = <<depth + 1, v>> BY <1>5 DEF Place
<1>8. var[p] = Null
  <2>1. p[1] = depth + 1 BY <1>7
  <2>2. p[1] > depth BY <1>5, <2>1
  <2> QED BY <2>2 DEF IInv, DepthIs
<1>9. /\ var' \in [Place -> Object \cup {Null}] /\ var'[p] = o
      /\ \A r \in Place : r # p => var'[r] = var[r]
      /\ \A y \in Object : Cardinality(Holding(y)') = IF y = o THEN Cardinality(Holding(y)) + 1
                                                     ELSE Cardinality(Holding(y))
  <2>1. PICK b \in Object \cup {Null} : b = o OBVIOUS
  <2>2. b # var[p] /\ var' = [var EXCEPT ![p] = b] BY <1>1, <1>2, <1>7, <1>8, <2>1
  <2>3. /\ var' \in [Place -> Object \cup {Null}] /\ var'[p] = b
        /\ \A r \in Place : r # p => var'[r] = var[r]
        /\ \A y \in Object : Cardinality(Holding(y)') = IF y = b THEN Cardinality(Holding(y)) + 1
                                                       ELSE IF y = var[p] THEN Cardinality(Holding(y)) - 1
                                                       ELSE Cardinality(Holding(y))
    <3>1. var \in [Place -> Object \cup {Null}] BY DEF IInv, TypeOK
    <3> QED BY <2>2, <3>1, VarSet
  <2>4. \A y \in Object : y # var[p] BY <1>8, NullAssumption
  <2> QED BY <2>1, <2>3, <2>4
<1>10. /\ n_shares' \in [Object -> Nat] /\ home' \in [Object -> Block \cup {0}] /\ created' = created
       /\ n_shares'[o] = n_shares[o] + 1 /\ home'[o] = 0 /\ stray' = stray
       /\ \A y \in Object : y # o => n_shares'[y] = n_shares[y] /\ home'[y] = home[y]
  <2>1. Share(o) BY <1>1, <1>2
  <2> QED BY <2>1, ShareIs DEF IInv
<1>11. \A y : Slots(y)' = Slots(y) BY <1>1, SameHolders
<1>12. TypeOK' BY <1>1, <1>5, <1>6, <1>9, <1>10 DEF IInv, TypeOK
<1>13. \A y \in Object : home'[y] = 0 BY <1>3, <1>10
<1>14. PoolsAre' BY <1>13 DEF PoolsAre
<1>15. DepthIs'
  <2>1. depth' >= base' BY <1>1, <1>5, <1>6
  <2>2. \A r \in Place : r[1] > depth' => r[1] > depth /\ r # p
    <3> TAKE r \in Place
    <3>1. r[1] \in Nat BY DEF Place, Block
    <3> QED BY <1>1, <1>5, <1>7, <3>1
  <2> QED BY <1>1, <1>9, <2>1, <2>2 DEF IInv, DepthIs
<1>16. o \in live /\ created[o] # 0
  <2>1. /\ Cardinality(Holding(o)) \in Nat /\ Cardinality(Holding(o)) # 0 /\ Cardinality(Slots(o)) \in Nat
        /\ stray[o] \in Nat
    <3>1. q \in Place BY SeenIs
    <3> QED BY <1>2, <3>1, HoldersCounted, StrayIs
  <2>2. n_shares[o] = Cardinality(Holding(o)) + Cardinality(Slots(o)) + stray[o]
    BY <1>3, HoldersCounted, StrayIs DEF IInv, CountsAre, CountIs
  <2>3. n_shares[o] # 0 BY <2>1, <2>2
  <2>4. KindIs(o) BY DEF IInv, KindsAre
  <2> QED BY <1>3, <2>3, <2>4 DEF KindIs
<1>17. ASSUME NEW y \in Object PROVE KindIs(y)' /\ CountIs(y)' /\ InMap(y)'
  <2>1. KindIs(y)'
    <3>1. KindIs(y) BY DEF IInv, KindsAre
    <3>2. y # o => n_shares'[y] = n_shares[y] BY <1>10
    <3>3. n_shares[o] \in Nat BY DEF IInv, TypeOK
    <3>4. n_shares'[o] # 0 BY <1>10, <3>3
    <3> QED BY <1>1, <1>3, <1>4, <1>10, <1>13, <1>16, <3>1, <3>2, <3>4 DEF KindIs
  <2>2. CountIs(y)'
    <3>1. /\ n_shares[y] = Cardinality(Holding(y)) + Cardinality(Slots(y)) + stray[y]
          /\ Cardinality(Holding(y)) \in Nat /\ Cardinality(Slots(y)) \in Nat /\ stray[y] \in Nat
      BY <1>3, HoldersCounted, StrayIs DEF IInv, CountsAre, CountIs
    <3>2. n_shares'[y] = Cardinality(Holding(y)') + Cardinality(Slots(y)') + Given(y)' + stray'[y]
      BY <1>4, <1>9, <1>10, <1>11, <3>1
    <3> QED BY <3>2 DEF CountIs
  <2>3. InMap(y)' BY <1>1, <1>3, <1>11 DEF IInv, MapIs, InMap
  <2> QED BY <2>1, <2>2, <2>3
<1> QED BY <1>4, <1>6, <1>12, <1>14, <1>15, <1>17 DEF IInv, KindsAre, CountsAre, MapIs
-----------------------------------------------------------------------------
LEMMA InitKeeps == ASSUME Init PROVE IInv
<1>1. /\ live = {} /\ n_shares = [o \in Object |-> 0] /\ created = [o \in Object |-> 0]
      /\ home = [o \in Object |-> 0] /\ stray = [o \in Object |-> 0] /\ var = [p \in Place |-> Null]
      /\ field = [o \in Object |-> [f \in Field |-> Null]] /\ cyclic = {}
      /\ depth = 1 /\ frames = <<>> /\ work = <<>> /\ fault = FALSE
  BY DEF Init
<1>2. depth \in Block BY <1>1, DepthAssumption DEF Block
<1>3. TypeOK
  <2>1. live \subseteq Object /\ cyclic \subseteq Object /\ depth \in Block /\ fault \in BOOLEAN BY <1>1, <1>2
  <2>2. /\ n_shares \in [Object -> Nat] /\ created \in [Object -> Block \cup {0}]
        /\ home \in [Object -> Block \cup {0}] /\ stray \in [Object -> Nat]
    BY <1>1
  <2>3. /\ var \in [Place -> Object \cup {Null}]
        /\ field \in [Object -> [Field -> Object \cup {Null}]]
    BY <1>1
  <2>4. frames \in Seq([base : Block, to : Place \cup {Null}]) BY <1>1
  <2> QED BY <2>1, <2>2, <2>3, <2>4 DEF TypeOK
<1>4. \A i \in 1 .. Len(work) : FALSE
  <2>1. Len(work) = 0 BY <1>1
  <2> QED BY <2>1
<1>5. WorkAre
  <2>1. work \in Seq(Op) BY <1>1
  <2> QED BY <1>4, <2>1 DEF WorkAre
<1>6. \A y : ~Creates(y) /\ Given(y) = 0 BY <1>1 DEF Creates, Given, First
<1>7. \A y : y \notin Dying /\ ~Unlinks(y) BY <1>4, DyingHas DEF Has
<1>8. ASSUME NEW y \in Object PROVE KindIs(y) /\ CountIs(y) /\ InMap(y)
  <2>1. y # Null BY NullAssumption
  <2>2. Holding(y) = {} /\ Slots(y) = {} BY <1>1, <2>1 DEF Holding, Slots
  <2>3. KindIs(y) BY <1>1, <1>6, <1>7 DEF KindIs
  <2>4. CountIs(y)
    <3>1. Cardinality(Holding(y)) = 0 /\ Cardinality(Slots(y)) = 0 BY <2>2, FS_EmptySet
    <3> QED BY <1>1, <1>6, <3>1 DEF CountIs
  <2>5. InMap(y) BY <1>1, <2>2 DEF InMap
  <2> QED BY <2>3, <2>4, <2>5
<1>9. PoolsAre BY <1>1 DEF PoolsAre
<1>10. FramesAre
  <2>1. Len(frames) = 0 BY <1>1
  <2> QED BY <2>1 DEF FramesAre
<1>11. DepthIs BY <1>1 DEF DepthIs, base
<1> QED BY <1>3, <1>5, <1>8, <1>9, <1>10, <1>11 DEF IInv, KindsAre, CountsAre, MapIs

LEMMA StepIs == ASSUME IInv, Step PROVE IInv'
BY CreateStep, StoreStep, AssignStep, LinkStep, UnrefStep, DestroyStep, SweepStep, PopStep,
   ReturnStep, StrandStep, UnwindStep, DerefStep, UnlinkStep, GlobalsStep DEF Step

LEMMA StatementIs == ASSUME IInv, Statement PROVE IInv'
<1>1. ASSUME NEW p \in Visible,
             \/ \E o \in Object : New(p, o) \/ \E f \in Field : SetNew(p, f, o)
             \/ \E q \in Visible :
                  \/ Copy(p, q)
                  \/ Swap(p, q)
                  \/ \E f \in Field : Load(p, q, f) \/ Set(p, f, q)
             \/ \E f, g \in Field : Advance(p, f, g)
             \/ \E f \in Field : SetNull(p, f) \/ ReturnItem(p, f)
             \/ Forget(p)
             \/ ReturnVar(p)
             \/ \E to \in Visible \union {Null}, v \in Variable : Call(to, p, v)
      PROVE  IInv'
  <2>1. CASE \E o \in Object : New(p, o) \/ \E f \in Field : SetNew(p, f, o) BY <2>1, NewStep
  <2>2. CASE \E q \in Visible : \/ Copy(p, q)
                               \/ \E f \in Field : Load(p, q, f) \/ Set(p, f, q)
    BY <2>2, CopyStep
  <2>3. CASE \E q \in Visible : Swap(p, q) BY <2>3, SwapStep
  <2>4. CASE \E f, g \in Field : Advance(p, f, g) BY <2>4, AdvanceStep
  <2>5. CASE \E f \in Field : SetNull(p, f) BY <2>5, SetNullStep
  <2>6. CASE (\E f \in Field : ReturnItem(p, f)) \/ ReturnVar(p) BY <2>6, ReturnVarStep
  <2>7. CASE Forget(p) BY <2>7, CopyStep
  <2>8. CASE \E to \in Visible \union {Null}, v \in Variable : Call(to, p, v) BY <2>8, CallStep
  <2> QED BY <1>1, <2>1, <2>2, <2>3, <2>4, <2>5, <2>6, <2>7, <2>8
<1>2. CASE (\E o \in Object : ReturnNew(o)) \/ ReturnNothing BY <1>2, ReturnNewStep
<1>3. CASE Enter \/ Exit \/ Fail \/ CallFails \/ ClearGlobalVariables
  BY <1>3, EnterStep, ExitStep, FailStep, CallFailsStep, ClearStep
<1> QED BY <1>1, <1>2, <1>3 DEF Statement

LEMMA StutterKeeps == ASSUME IInv, UNCHANGED vars PROVE IInv'
<1>1. /\ UNCHANGED <<live, share, var, field, cyclic, depth, frames, work>> /\ fault' = fault BY DEF vars
<1>2. fault' \in BOOLEAN BY <1>1 DEF IInv, TypeOK
<1> QED BY <1>1, <1>2, FaultStep

(* The inductive invariant, for any program: it asks for no rule and holds *)
(* on after a fault too.                                                   *)
THEOREM HeapInvariant == Spec => []IInv
<1>1. Init => IInv BY InitKeeps
<1>2. IInv /\ [Next]_vars => IInv' BY StepIs, StatementIs, StutterKeeps DEF Next
<1> QED BY <1>1, <1>2, PTL DEF Spec
-----------------------------------------------------------------------------
(* What holds an object keeps it.                                          *)
LEMMA HeldLives ==
  ASSUME IInv, NEW o \in Object, (\E p \in Place : var[p] = o) \/ Slots(o) # {}
  PROVE  o \in live \ Dying /\ created[o] # 0 /\ n_shares[o] # 0
<1>1. /\ Cardinality(Holding(o)) \in Nat /\ Cardinality(Slots(o)) \in Nat
      /\ Cardinality(Holding(o)) # 0 \/ Cardinality(Slots(o)) # 0
  BY HoldersCounted
<1>2. Given(o) \in {0, 1} BY DEF Given
<1>3. n_shares[o] = Cardinality(Holding(o)) + Cardinality(Slots(o)) + Given(o) + stray[o] /\ stray[o] \in Nat
  BY StrayIs DEF IInv, CountsAre, CountIs
<1>4. n_shares[o] # 0
  <2>1. PICK h \in Nat : h = Cardinality(Holding(o)) BY <1>1
  <2>2. PICK s \in Nat : s = Cardinality(Slots(o)) BY <1>1
  <2>3. PICK g \in Nat : g = Given(o) BY <1>2
  <2>4. PICK t \in Nat : t = stray[o] BY <1>3
  <2>5. n_shares[o] = h + s + g + t /\ (h # 0 \/ s # 0) BY <1>1, <1>3, <2>1, <2>2, <2>3, <2>4
  <2> QED BY <2>5
<1>5. KindIs(o) BY DEF IInv, KindsAre
<1> QED BY <1>4, <1>5 DEF KindIs

LEMMA NoneDangles == ASSUME IInv PROVE NothingDangles
<1>1. ASSUME NEW p \in Place, var[p] # Null PROVE var[p] \in live \ Dying
  <2>1. PICK o \in Object : o = var[p] BY <1>1 DEF IInv, TypeOK
  <2> QED BY <2>1, HeldLives
<1>2. ASSUME NEW x \in live, NEW f \in Field, field[x][f] # Null PROVE field[x][f] \in live
  <2>1. x \in Object BY DEF IInv, TypeOK
  <2>2. PICK o \in Object : o = field[x][f] BY <1>2, <2>1 DEF IInv, TypeOK
  <2>3. <<x, f>> \in Slots(o) BY <2>1, <2>2 DEF Slots
  <2> QED BY <2>2, <2>3, HeldLives
<1> QED BY <1>1, <1>2 DEF NothingDangles

(* Nothing dangles: in every nesting of stores, destructors, ends of       *)
(* scopes, returns and clears, and whatever the script does, what a        *)
(* variable or a field of a living object holds is allocated, and no       *)
(* variable holds an object whose destructor has started.                  *)
THEOREM NothingEverDangles == Spec => []NothingDangles
<1>1. IInv => NothingDangles BY NoneDangles
<1> QED BY <1>1, HeapInvariant, PTL

LEMMA BooksExact == ASSUME IInv PROVE CountsExact /\ CyclicMapExact
<1>1. CASE work = <<>> /\ fault = FALSE
  <2>1. Ready BY <1>1 DEF Ready
  <2>2. \A y : ~Unlinks(y) /\ Given(y) = 0 BY <2>1, IdleIs
  <2>3. ASSUME NEW o \in live
        PROVE  n_shares[o] = Cardinality({p \in Place : var[p] = o}) + Cardinality(Slots(o)) + stray[o]
    <3>1. o \in Object BY DEF IInv, TypeOK
    <3>2. n_shares[o] = Cardinality(Holding(o)) + Cardinality(Slots(o)) + 0 + stray[o]
      BY <2>2, <3>1 DEF IInv, CountsAre, CountIs
    <3>3. Cardinality(Holding(o)) \in Nat /\ Cardinality(Slots(o)) \in Nat /\ stray[o] \in Nat
      BY <3>1, HoldersCounted, StrayIs
    <3>4. n_shares[o] = Cardinality(Holding(o)) + Cardinality(Slots(o)) + stray[o] BY <3>2, <3>3
    <3> QED BY <3>4 DEF Holding
  <2>4. cyclic = {o \in live : Slots(o) # {}}
    <3>1. cyclic \subseteq Object /\ live \subseteq Object BY DEF IInv, TypeOK
    <3>2. \A o \in Object : o \in cyclic <=> Slots(o) # {} BY <2>2 DEF IInv, MapIs, InMap
    <3>3. \A o \in Object : Slots(o) # {} => o \in live BY HeldLives
    <3> QED BY <3>1, <3>2, <3>3
  <2> QED BY <2>3, <2>4 DEF CountsExact, CyclicMapExact
<1> QED BY <1>1 DEF CountsExact, CyclicMapExact

(* The books are right: between statements the count of every object is    *)
(* the number of variables and fields that hold it and of the calls that   *)
(* took it and did not start, and the map of container instances has       *)
(* exactly the objects that slots refer to.                                *)
THEOREM BooksStayExact == Spec => []BookkeepingExact
<1>1. IInv => BookkeepingExact BY BooksExact DEF BookkeepingExact, IInv
<1> QED BY <1>1, HeapInvariant, PTL
-----------------------------------------------------------------------------
(* What can be reached.                                                    *)
LEMMA ReachStart == ASSUME NEW S, S \subseteq Object PROVE S \subseteq Reach(S)
BY DEF Reach

LEMMA ReachWithin ==
  ASSUME NEW S, NEW R, R \subseteq Object, S \subseteq R, Closed(R)
  PROVE  Reach(S) \subseteq R
BY DEF Reach

LEMMA ReachClosed ==
  ASSUME field \in [Object -> [Field -> Object \cup {Null}]], NEW S, NEW x \in Reach(S),
         NEW f \in Field, field[x][f] # Null
  PROVE  field[x][f] \in Reach(S)
<1>1. x \in Object /\ \A R \in SUBSET Object : S \subseteq R /\ Closed(R) => x \in R BY DEF Reach
<1>2. ASSUME NEW R \in SUBSET Object, S \subseteq R, Closed(R) PROVE field[x][f] \in R
  <2>1. x \in R BY <1>1, <1>2
  <2> QED BY <1>2, <2>1 DEF Closed
<1>3. field[x][f] \in Object BY <1>1
<1> QED BY <1>2, <1>3 DEF Reach

(* What an object's fields hold, directly or not.                          *)
LEMMA BelowIs ==
  ASSUME field \in [Object -> [Field -> Object \cup {Null}]], NEW x \in Object
  PROVE  /\ Below(x) \subseteq Object
         /\ \A f \in Field : field[x][f] # Null => field[x][f] \in Below(x)
         /\ \A y \in Below(x) : Below(y) \subseteq Below(x)
<1>1. PICK S : S = {field[x][f] : f \in Field} \ {Null} OBVIOUS
<1>2. S \subseteq Object BY <1>1
<1>3. Below(x) = Reach(S) BY <1>1 DEF Below
<1>4. Below(x) \subseteq Object BY <1>3 DEF Reach
<1>5. \A f \in Field : field[x][f] # Null => field[x][f] \in Below(x)
  <2>1. S \subseteq Reach(S) BY <1>2, ReachStart
  <2> QED BY <1>1, <1>3, <2>1
<1>6. ASSUME NEW y \in Below(x) PROVE Below(y) \subseteq Below(x)
  <2>1. PICK T : T = {field[y][f] : f \in Field} \ {Null} OBVIOUS
  <2>2. T \subseteq Reach(S)
    <3> SUFFICES ASSUME NEW f \in Field, field[y][f] # Null PROVE field[y][f] \in Reach(S) BY <2>1
    <3> QED BY <1>3, <1>6, ReachClosed
  <2>3. Closed(Reach(S)) BY <1>3, ReachClosed DEF Closed
  <2>4. Reach(S) \subseteq Object BY DEF Reach
  <2>5. Reach(T) \subseteq Reach(S) BY <2>2, <2>3, <2>4, ReachWithin
  <2> QED BY <1>3, <2>1, <2>5 DEF Below
<1> QED BY <1>4, <1>5, <1>6

(* In a finite set where everything but some ends is below something, each *)
(* element is an end, below one, or below a cycle.                         *)
LEMMA CycleAbove ==
  ASSUME field \in [Object -> [Field -> Object \cup {Null}]], NEW S, S \subseteq Object,
         NEW End, \A y \in S \ End : \E x \in S : y \in Below(x), NEW o \in S
  PROVE  \E x \in S : \/ x \in Below(x) /\ o \in Below(x)
                      \/ x \in End /\ o \in Below(x) \cup {x}
<1> DEFINE Above(y) == {x \in S : y \in Below(x)}
           T == {Above(y) : y \in Above(o)}
<1>0. SUFFICES ASSUME o \notin End, \A x \in Above(o) : x \notin End
               PROVE  \E x \in S : x \in Below(x) /\ o \in Below(x)
  OBVIOUS
<1>1. \A y \in S : \A x \in Above(y) : x \in S /\ y \in Below(x) /\ Above(x) \subseteq Above(y)
  <2> SUFFICES ASSUME NEW y \in S, NEW x \in Above(y), NEW z \in Above(x) PROVE z \in Above(y) OBVIOUS
  <2>1. z \in S /\ x \in Below(z) /\ y \in Below(x) OBVIOUS
  <2>2. Below(x) \subseteq Below(z) BY <2>1, BelowIs
  <2> QED BY <2>1, <2>2
<1>2. IsWellFoundedOn(StrictSubsetOrdering(Object), SUBSET Object)
  <2>1. IsFiniteSet(Object) BY PlacesFinite
  <2>2. FiniteSubsetsOf(Object) = SUBSET Object BY <2>1, FS_FiniteSubsetsOfFinite
  <2> QED BY <2>2, FS_StrictSubsetOrderingWellFounded
<1>3. T \subseteq SUBSET Object OBVIOUS
<1>4. T # {}
  <2>1. PICK x \in S : o \in Below(x) BY <1>0
  <2>2. x \in Above(o) BY <2>1
  <2>3. Above(x) \in T BY <2>2
  <2> QED BY <2>3
<1>5. PICK A \in T : \A B \in T : <<B, A>> \notin StrictSubsetOrdering(Object)
  BY <1>2, <1>3, <1>4, WFMin
<1>6. PICK y \in Above(o) : A = Above(y) OBVIOUS
<1>7. PICK x \in S : y \in Below(x)
  <2>1. y \in S \ End BY <1>0, <1>6
  <2> QED BY <2>1
<1>8. x \in Above(y) /\ x \in Above(o) BY <1>1, <1>6, <1>7
<1>9. Above(x) \in T /\ Above(x) \subseteq A BY <1>1, <1>6, <1>8
<1>10. Above(x) = A
  <2>1. <<Above(x), A>> \notin StrictSubsetOrdering(Object) BY <1>5, <1>9
  <2>2. <<Above(x), A>> \in (SUBSET Object) \X (SUBSET Object) BY <1>3, <1>9
  <2> QED BY <1>9, <2>1, <2>2 DEF StrictSubsetOrdering
<1>11. x \in Above(x) BY <1>6, <1>8, <1>10
<1> QED BY <1>8, <1>11

LEMMA CyclesLeak == ASSUME IInv PROVE OnlyCyclesLeak
<1>1. CASE work = <<>> /\ fault = FALSE
  <2>1. Ready BY <1>1 DEF Ready
  <2>2. /\ \A y \in Object : home[y] = 0 /\ (y \in live <=> created[y] # 0)
        /\ \A y : y \notin Dying /\ ~Unlinks(y) /\ ~Creates(y) /\ Given(y) = 0
    BY <2>1, IdleIs
  <2>3. field \in [Object -> [Field -> Object \cup {Null}]] /\ live \subseteq Object
        /\ var \in [Place -> Object \cup {Null}]
    BY DEF IInv, TypeOK
  <2>4. Roots = {var[p] : p \in Place} \ {Null}
    <3>1. \A i \in DOMAIN work : FALSE BY <1>1
    <3>2. ~Clearing BY <3>1 DEF Clearing, Pending
    <3> QED BY <3>2 DEF Roots
  <2>5. PICK S : S = live \ Reachable OBVIOUS
  <2>6. ASSUME NEW y \in S \ Stranded PROVE \E x \in S : y \in Below(x)
    <3>1. y \in Object /\ y \in live /\ y \notin Reachable BY <2>3, <2>5
    <3>0. stray[y] = 0
      <4>1. ~(stray[y] > 0) /\ stray[y] \in Nat BY <3>1, StrayIs DEF Stranded
      <4> QED BY <4>1
    <3>2. \A p \in Place : var[p] # y
      <4> SUFFICES ASSUME NEW p \in Place, var[p] = y PROVE FALSE OBVIOUS
      <4>1. y # Null BY <3>1, NullAssumption
      <4>2. Roots \subseteq Object /\ y \in Roots BY <2>3, <2>4, <4>1
      <4>3. Roots \subseteq Reach(Roots) BY <4>2, ReachStart
      <4> QED BY <3>1, <4>2, <4>3 DEF Reachable
    <3>3. n_shares[y] # 0
      <4>1. KindIs(y) BY <3>1 DEF IInv, KindsAre
      <4> QED BY <2>2, <3>1, <4>1 DEF KindIs
    <3>4. Slots(y) # {}
      <4>1. n_shares[y] = Cardinality(Holding(y)) + Cardinality(Slots(y)) + 0 + 0
        BY <2>2, <3>0, <3>1 DEF IInv, CountsAre, CountIs
      <4>2. Cardinality(Holding(y)) = 0 /\ (Cardinality(Slots(y)) = 0 <=> Slots(y) = {}) BY <3>2, HoldersCounted
      <4>3. Cardinality(Slots(y)) # 0 BY <3>3, <4>1, <4>2
      <4> QED BY <4>2, <4>3
    <3>5. PICK s \in Slots(y) : s = <<s[1], s[2]>> /\ s[1] \in Object /\ s[2] \in Field /\ field[s[1]][s[2]] = y
      BY <3>4 DEF Slots
    <3>6. PICK x, f : x = s[1] /\ f = s[2] OBVIOUS
    <3>7. x \in Object /\ f \in Field /\ field[x][f] = y /\ y # Null BY <3>1, <3>5, <3>6, NullAssumption
    <3>8. x \in live
      <4>1. KindIs(x) BY <3>7 DEF IInv, KindsAre
      <4> QED BY <3>7, <4>1 DEF KindIs
    <3>9. x \notin Reachable
      <4> SUFFICES ASSUME x \in Reach(Roots) PROVE FALSE BY DEF Reachable
      <4>1. field[x][f] \in Reach(Roots) BY <2>3, <3>7, ReachClosed
      <4> QED BY <3>1, <3>7, <4>1 DEF Reachable
    <3>10. y \in Below(x) BY <2>3, <3>7, BelowIs
    <3> QED BY <2>5, <3>8, <3>9, <3>10
  <2>7. S \subseteq Object BY <2>3, <2>5
  <2>8. ASSUME NEW o \in live \ Reachable
        PROVE  \E x \in live \ Reachable : \/ x \in Below(x) /\ o \in Below(x)
                                           \/ x \in Stranded /\ o \in Below(x) \cup {x}
    <3>1. o \in S BY <2>5
    <3>2. \E x \in S : \/ x \in Below(x) /\ o \in Below(x)
                       \/ x \in Stranded /\ o \in Below(x) \cup {x}
      BY <2>3, <2>6, <2>7, <3>1, CycleAbove
    <3> QED BY <2>5, <3>2
  <2> QED BY <2>8 DEF OnlyCyclesLeak
<1> QED BY <1>1 DEF OnlyCyclesLeak

LEMMA BlocksAreClean == ASSUME IInv PROVE BlocksClean
<1>1. \A p \in Place : p[1] > depth => var[p] = Null BY DEF IInv, DepthIs
<1>2. ASSUME work = <<>>, fault = FALSE, NEW b \in Block PROVE Pool(b) = {}
  <2>1. Ready BY <1>2 DEF Ready
  <2>2. \A y \in Object : home[y] = 0 BY <2>1, IdleIs
  <2>3. b # 0 BY DEF Block
  <2> QED BY <2>2, <2>3 DEF Pool
<1> QED BY <1>1, <1>2 DEF BlocksClean

(* Nothing stays that should go: between statements an object no variable  *)
(* reaches is reached from a cycle of fields or from the argument of a     *)
(* call that did not start, no block has a temporary, and blocks that were *)
(* left hold nothing.                                                      *)
THEOREM NothingEverStays == Spec => []NothingStays
<1>1. IInv => NothingStays BY CyclesLeak, BlocksAreClean DEF NothingStays
<1> QED BY <1>1, HeapInvariant, PTL
-----------------------------------------------------------------------------
(* The interpreter seen from the share manager.  An object whose           *)
(* destructor runs is one that nothing counts and no block waits for, so   *)
(* that its status can be read off the books.                              *)
Kept(o) == IF created[o] = 0 THEN IF o \in live THEN "loose" ELSE "free"
           ELSE IF n_shares[o] = 0 /\ home[o] = 0 THEN "free" ELSE "managed"
Status == [o \in Object |-> IF o \notin live \/ o \in Dying THEN "free"
                            ELSE IF created[o] = 0 THEN "loose" ELSE "managed"]
Pools == [b \in Block |-> Pool(b)]

LEMMA StatusIs == IInv => Status = [o \in Object |-> Kept(o)]
<1>1. ASSUME IInv, NEW o \in Object
      PROVE  (IF o \notin live \/ o \in Dying THEN "free"
              ELSE IF created[o] = 0 THEN "loose" ELSE "managed") = Kept(o)
  <2>1. KindIs(o) BY <1>1 DEF IInv, KindsAre
  <2> QED BY <2>1 DEF KindIs, Kept
<1> QED BY <1>1 DEF Status

LEMMA StatusAfter == (IInv => Status = [o \in Object |-> Kept(o)])'
<1>1. IInv => Status = [o \in Object |-> Kept(o)] BY StatusIs
<1> QED BY <1>1, PTL

(* A step changes the status and the books of one object at most.          *)
LEMMA StatusMoves ==
  ASSUME IInv, IInv', NEW o \in Object,
         \A y \in Object : y # o => /\ y \in live' <=> y \in live
                                    /\ created'[y] = created[y] /\ n_shares'[y] = n_shares[y]
                                    /\ home'[y] = home[y]
  PROVE  /\ Status' = [Status EXCEPT ![o] = Kept(o)']
         /\ Status[o] = Kept(o)
<1>1. Status = [y \in Object |-> Kept(y)] BY StatusIs
<1>2. Status' = [y \in Object |-> Kept(y)'] BY StatusAfter
<1>3. \A y \in Object : y # o => Kept(y)' = Kept(y) BY DEF Kept
<1> QED BY <1>1, <1>2, <1>3

LEMMA PoolsMove ==
  ASSUME IInv, IInv', NEW o \in Object, \A y \in Object : y # o => home'[y] = home[y]
  PROVE  /\ home'[o] = home[o] => Pools' = Pools
         /\ home'[o] = 0 => Pools' = [b \in Block |-> Pools[b] \ {o}]
         /\ \A b \in Block :
              /\ home[o] = 0 /\ home'[o] = b => Pools' = [Pools EXCEPT ![b] = @ \union {o}]
              /\ home[o] = b /\ home'[o] = 0 => Pools' = [Pools EXCEPT ![b] = @ \ {o}]
<1>1. \A b \in Block : b # 0 BY DEF Block
<1>2. Pools = [b \in Block |-> {y \in Object : home[y] = b}] BY DEF Pools, Pool
<1>3. Pools' = [b \in Block |-> {y \in Object : home'[y] = b}] BY DEF Pools, Pool
<1>4. home'[o] = home[o] => Pools' = Pools
  <2>1. home'[o] = home[o] => \A y \in Object : home'[y] = home[y] OBVIOUS
  <2> QED BY <1>2, <1>3, <2>1
<1>5. ASSUME home'[o] = 0 PROVE Pools' = [b \in Block |-> Pools[b] \ {o}]
  <2>1. \A b \in Block : {y \in Object : home'[y] = b} = {y \in Object : home[y] = b} \ {o}
    BY <1>1, <1>5
  <2> QED BY <1>2, <1>3, <2>1
<1>6. ASSUME NEW b \in Block, home[o] = 0, home'[o] = b
      PROVE  Pools' = [Pools EXCEPT ![b] = @ \union {o}]
  <2>1. \A c \in Block : {y \in Object : home'[y] = c}
                           = IF c = b THEN {y \in Object : home[y] = c} \union {o}
                             ELSE {y \in Object : home[y] = c}
    BY <1>1, <1>6
  <2> QED BY <1>2, <1>3, <2>1
<1>7. ASSUME NEW b \in Block, home[o] = b, home'[o] = 0
      PROVE  Pools' = [Pools EXCEPT ![b] = @ \ {o}]
  <2>1. \A c \in Block : {y \in Object : home'[y] = c}
                           = IF c = b THEN {y \in Object : home[y] = c} \ {o}
                             ELSE {y \in Object : home[y] = c}
    BY <1>1, <1>7
  <2> QED BY <1>2, <1>3, <2>1
<1> QED BY <1>4, <1>5, <1>6, <1>7

Unmoved == UNCHANGED <<Status, n_shares, Pools>>

LEMMA Still ==
  ASSUME IInv, IInv', UNCHANGED <<live, share>>
  PROVE  Unmoved
<1>1. Status = [y \in Object |-> Kept(y)] BY StatusIs
<1>2. Status' = [y \in Object |-> Kept(y)'] BY StatusAfter
<1>3. \A y \in Object : Kept(y)' = Kept(y) BY DEF Kept, share
<1>4. Status' = Status BY <1>1, <1>2, <1>3
<1>5. Pools' = Pools /\ n_shares' = n_shares BY DEF Pools, Pool, share
<1> QED BY <1>4, <1>5 DEF Unmoved

LEMMA BooksOf ==
  ASSUME IInv, NEW o \in Object
  PROVE  /\ n_shares[o] \in Nat /\ created[o] \in Block \cup {0} /\ home[o] \in Block \cup {0}
         /\ \A b \in Block : b # 0
         /\ n_shares \in [Object -> Nat] /\ created \in [Object -> Block \cup {0}]
         /\ home \in [Object -> Block \cup {0}]
BY DEF IInv, TypeOK, Block

LEMMA AllocateMove ==
  ASSUME IInv, IInv', NEW o \in Object, Allocate(o), UNCHANGED share
  PROVE  Pool1!Allocate(o)
<1>1. o \notin live /\ live' = live \cup {o} /\ created' = created /\ n_shares' = n_shares /\ home' = home
  BY DEF Allocate, share
<1>2. created[o] = 0 BY <1>1 DEF IInv, KindsAre, KindIs
<1>3. Status' = [Status EXCEPT ![o] = Kept(o)'] /\ Status[o] = Kept(o) BY <1>1, StatusMoves
<1>4. Kept(o) = "free" /\ Kept(o)' = "loose" BY <1>1, <1>2 DEF Kept
<1>5. Pools' = Pools BY <1>1, PoolsMove
<1> QED BY <1>1, <1>3, <1>4, <1>5 DEF Pool1!Allocate, Status, Pools

LEMMA AcquireMove ==
  ASSUME IInv, IInv', NEW o \in Object, TakeShare(o), CanShare(o), live' = live
  PROVE  Pool1!Acquire(o)
<1>1. /\ n_shares' = [n_shares EXCEPT ![o] = @ + 1] /\ home' = [home EXCEPT ![o] = 0] /\ created' = created
      /\ created[o] # 0 /\ (n_shares[o] = 0 => home[o] # 0)
  BY DEF TakeShare, CanShare
<1>2. n_shares[o] \in Nat /\ n_shares \in [Object -> Nat] /\ home \in [Object -> Block \cup {0}] BY BooksOf
<1>3. /\ n_shares'[o] = n_shares[o] + 1 /\ home'[o] = 0
      /\ \A y \in Object : y # o => n_shares'[y] = n_shares[y] /\ home'[y] = home[y]
  BY <1>1, <1>2
<1>4. Status' = [Status EXCEPT ![o] = Kept(o)'] /\ Status[o] = Kept(o) BY <1>1, <1>3, StatusMoves
<1>5. Kept(o) = "managed" /\ Kept(o)' = "managed" BY <1>1, <1>2, <1>3 DEF Kept
<1>6. Status' = Status BY <1>4, <1>5 DEF Status
<1>7. Pools' = [b \in Block |-> Pools[b] \ {o}] BY <1>3, PoolsMove
<1> QED BY <1>1, <1>4, <1>5, <1>6, <1>7 DEF Pool1!Acquire, Status, Pools
-----------------------------------------------------------------------------
(* The steps, as the share manager sees them.                              *)
Moved == Pool1!Next \/ Unmoved

LEMMA CreateMoves == ASSUME IInv, IInv', DoCreate PROVE Moved
<1>1. PICK o : o = Current.obj OBVIOUS
<1>2. /\ Current = work[1] /\ work[1].op = "create" /\ work[1] \in Op /\ First("create")
  BY FrontIs DEF DoCreate
<1>3. o \in Object /\ Creates(o) BY <1>1, <1>2, OpIs DEF Creates
<1>4. o \in live /\ created[o] = 0 /\ n_shares[o] = 0 /\ home[o] = 0 BY <1>3 DEF IInv, KindsAre, KindIs
<1>5. PICK b \in Block : b = depth BY FramesIs
<1>6. /\ created' = [created EXCEPT ![o] = b] /\ home' = [home EXCEPT ![o] = b]
      /\ n_shares' = n_shares /\ live' = live
  BY <1>1, <1>5 DEF DoCreate
<1>7. /\ created'[o] = b /\ home'[o] = b /\ b # 0
      /\ \A y \in Object : y # o => created'[y] = created[y] /\ home'[y] = home[y]
  BY <1>3, <1>6, BooksOf
<1>8. Status' = [Status EXCEPT ![o] = Kept(o)'] /\ Status[o] = Kept(o) BY <1>3, <1>6, <1>7, StatusMoves
<1>9. Kept(o) = "loose" /\ Kept(o)' = "managed" BY <1>4, <1>7 DEF Kept
<1>10. Pools' = [Pools EXCEPT ![b] = @ \union {o}] BY <1>3, <1>4, <1>7, PoolsMove
<1>11. Pool1!Manage(o, b) BY <1>6, <1>8, <1>9, <1>10 DEF Pool1!Manage, Status, Pools
<1> QED BY <1>3, <1>11 DEF Moved, Pool1!Next

LEMMA StoreMoves == ASSUME IInv, IInv', DoStore PROVE Moved
<1>1. PICK o : o = Current.obj OBVIOUS
<1>2. Current = work[1] /\ work[1].op = "store" /\ work[1] \in Op BY FrontIs DEF DoStore
<1>3. o \in Object \cup {Null} BY <1>1, <1>2, OpIs
<1>4. CASE UNCHANGED share
  <2>1. live' = live BY DEF DoStore
  <2> QED BY <1>4, <2>1, Still DEF Moved
<1>5. CASE ~UNCHANGED share
  <2>1. o # Null /\ CanShare(o) /\ TakeShare(o) /\ live' = live BY <1>1, <1>5 DEF DoStore, Share
  <2>2. Pool1!Acquire(o) BY <1>3, <2>1, AcquireMove
  <2> QED BY <1>3, <2>1, <2>2 DEF Moved, Pool1!Next
<1> QED BY <1>4, <1>5

LEMMA LinkMoves == ASSUME IInv, IInv', DoLink PROVE Moved
<1>1. PICK o : o = Current.obj OBVIOUS
<1>2. Current = work[1] /\ work[1].op = "link" /\ work[1] \in Op BY FrontIs DEF DoLink
<1>3. o \in Object BY <1>1, <1>2, OpIs
<1>4. CASE UNCHANGED share
  <2>1. live' = live BY DEF DoLink
  <2> QED BY <1>4, <2>1, Still DEF Moved
<1>5. CASE ~UNCHANGED share
  <2>1. CanShare(o) /\ TakeShare(o) /\ live' = live BY <1>1, <1>5 DEF DoLink, Share
  <2>2. Pool1!Acquire(o) BY <1>3, <2>1, AcquireMove
  <2> QED BY <1>3, <2>2 DEF Moved, Pool1!Next
<1> QED BY <1>4, <1>5

LEMMA StrandMoves == ASSUME IInv, IInv', DoStrand PROVE Moved
<1>1. PICK o : o = Current.arg OBVIOUS
<1>2. Current = work[1] /\ work[1].op = "unwind" /\ work[1] \in Op BY FrontIs DEF DoStrand
<1>3. o \in Object BY <1>1, <1>2, OpIs DEF DoStrand
<1>4. CASE UNCHANGED share
  <2>1. live' = live BY DEF DoStrand
  <2> QED BY <1>4, <2>1, Still DEF Moved
<1>5. CASE ~UNCHANGED share
  <2>1. CanShare(o) /\ TakeShare(o) /\ live' = live BY <1>1, <1>5 DEF DoStrand
  <2>2. Pool1!Acquire(o) BY <1>3, <2>1, AcquireMove
  <2> QED BY <1>3, <2>2 DEF Moved, Pool1!Next
<1> QED BY <1>4, <1>5

LEMMA UnrefMoves == ASSUME IInv, IInv', DoUnref PROVE Moved
<1>1. PICK o, b : o = Current.obj /\ b = Current.block OBVIOUS
<1>2. Current = work[1] /\ work[1].op = "unref" /\ work[1] \in Op BY FrontIs DEF DoUnref
<1>3. o \in Object /\ b \in Block \cup {0} BY <1>1, <1>2, OpIs
<1>4. CASE UNCHANGED share
  <2>1. live' = live BY DEF DoUnref
  <2> QED BY <1>4, <2>1, Still DEF Moved
<1>5. CASE ~UNCHANGED share
  <2>1. /\ created[o] # 0 /\ n_shares[o] # 0 /\ n_shares' = [n_shares EXCEPT ![o] = @ - 1]
        /\ home' = IF n_shares[o] = 1 THEN [home EXCEPT ![o] = b] ELSE home
        /\ created' = created /\ live' = live
    BY <1>1, <1>5 DEF DoUnref
  <2>2. n_shares[o] \in Nat /\ n_shares \in [Object -> Nat] /\ home \in [Object -> Block \cup {0}]
    BY <1>3, BooksOf
  <2>3. home[o] = 0 BY <1>3, <2>1 DEF IInv, KindsAre, KindIs
  <2>4. /\ n_shares'[o] = n_shares[o] - 1 /\ home'[o] = IF n_shares[o] = 1 THEN b ELSE home[o]
        /\ \A y \in Object : y # o => n_shares'[y] = n_shares[y] /\ home'[y] = home[y]
    BY <1>3, <2>1, <2>2
  <2>5. Status' = [Status EXCEPT ![o] = Kept(o)'] /\ Status[o] = Kept(o) BY <1>3, <2>1, <2>4, StatusMoves
  <2>6. Kept(o) = "managed" BY <2>1 DEF Kept
  <2>7. CASE n_shares[o] # 1
    <3>1. n_shares[o] > 1 /\ n_shares'[o] # 0 /\ home'[o] = home[o] BY <2>1, <2>2, <2>4, <2>7
    <3>2. Kept(o)' = "managed" BY <2>1, <3>1 DEF Kept
    <3>3. Status' = Status BY <2>5, <2>6, <3>2 DEF Status
    <3>4. Pools' = Pools BY <1>3, <2>4, <3>1, PoolsMove
    <3>5. Pool1!Release(o) BY <2>1, <2>5, <2>6, <3>1, <3>3, <3>4 DEF Pool1!Release, Status, Pools
    <3> QED BY <1>3, <3>5 DEF Moved, Pool1!Next
  <2>8. CASE n_shares[o] = 1 /\ b = 0
    <3>1. n_shares'[o] = 0 /\ home'[o] = 0 /\ n_shares' = [n_shares EXCEPT ![o] = 0]
      BY <2>1, <2>2, <2>4, <2>8
    <3>2. Kept(o)' = "free" BY <2>1, <3>1 DEF Kept
    <3>3. Pools' = Pools BY <1>3, <2>3, <2>4, <3>1, PoolsMove
    <3>4. Pool1!ReleaseAndFree(o)
      BY <2>5, <2>6, <2>8, <3>1, <3>2, <3>3 DEF Pool1!ReleaseAndFree, Status, Pools
    <3> QED BY <1>3, <3>4 DEF Moved, Pool1!Next
  <2>9. CASE n_shares[o] = 1 /\ b # 0
    <3>1. n_shares'[o] = 0 /\ home'[o] = b /\ n_shares' = [n_shares EXCEPT ![o] = 0] /\ b \in Block
      BY <1>3, <2>1, <2>2, <2>4, <2>9
    <3>2. Kept(o)' = "managed" BY <2>1, <2>9, <3>1 DEF Kept
    <3>3. Status' = Status BY <2>5, <2>6, <3>2 DEF Status
    <3>4. Pools' = [Pools EXCEPT ![b] = @ \union {o}] BY <1>3, <2>3, <2>4, <3>1, PoolsMove
    <3>5. Pool1!ReleaseTo(o, b)
      BY <2>5, <2>6, <2>9, <3>1, <3>3, <3>4 DEF Pool1!ReleaseTo, Status, Pools
    <3> QED BY <1>3, <3>1, <3>5 DEF Moved, Pool1!Next
  <2> QED BY <2>7, <2>8, <2>9
<1> QED BY <1>4, <1>5

(* The end of a destructor: the object was free for its callers already.   *)
LEMMA DestroyMoves == ASSUME IInv, IInv', DoDestroy PROVE Moved
<1>1. PICK o : o = Current.obj OBVIOUS
<1>2. Current = work[1] /\ work[1].op = "destroy" /\ work[1] \in Op /\ Len(work) >= 1 /\ Len(work) \in Nat
  BY FrontIs DEF DoDestroy
<1>3. o \in Object /\ o \in Dying
  <2>1. 1 \in 1 .. Len(work) BY <1>2
  <2>2. Has("destroy", o) BY <1>1, <1>2, <2>1 DEF Has
  <2> QED BY <1>1, <1>2, <2>2, OpIs, DyingHas
<1>4. n_shares' = n_shares /\ home' = home /\ stray' = stray BY DEF DoDestroy
<1>5. CASE UNCHANGED <<live, created>> BY <1>4, <1>5, Still DEF Moved, share
<1>6. CASE ~UNCHANGED <<live, created>>
  <2>1. live' = live \ {o} /\ created' = [created EXCEPT ![o] = 0] BY <1>1, <1>6 DEF DoDestroy
  <2>2. created'[o] = 0 /\ \A y \in Object : y # o => created'[y] = created[y] BY <1>3, <2>1, BooksOf
  <2>3. created[o] # 0 /\ n_shares[o] = 0 /\ home[o] = 0 BY <1>3 DEF IInv, KindsAre, KindIs
  <2>4. Kept(o) = "free" /\ Kept(o)' = "free" BY <2>1, <2>2, <2>3 DEF Kept
  <2>5. Status' = [Status EXCEPT ![o] = Kept(o)'] /\ Status[o] = Kept(o)
    BY <1>3, <1>4, <2>1, <2>2, StatusMoves
  <2>6. Status' = Status BY <2>4, <2>5 DEF Status
  <2>7. Pools' = Pools BY <1>4 DEF Pools, Pool
  <2> QED BY <1>4, <2>6, <2>7 DEF Moved, Unmoved
<1> QED BY <1>5, <1>6

LEMMA SweepMoves == ASSUME IInv, IInv', DoSweep PROVE Moved
<1>1. PICK b : b = Current.block OBVIOUS
<1>2. Current = work[1] /\ work[1].op = "sweep" /\ work[1] \in Op BY FrontIs DEF DoSweep
<1>3. b \in Block BY <1>1, <1>2, OpIs
<1>4. live' = live BY DEF DoSweep
<1>5. CASE UNCHANGED share BY <1>4, <1>5, Still DEF Moved
<1>6. CASE ~UNCHANGED share
  <2>1. PICK o \in Pool(b) : /\ home' = [home EXCEPT ![o] = 0] /\ n_shares' = n_shares
                             /\ created' = [created EXCEPT ![o] = 0] \/ created' = created
    BY <1>1, <1>6 DEF DoSweep, Take
  <2>2. o \in Object /\ home[o] = b /\ b # 0 BY <1>3, <2>1, BooksOf DEF Pool
  <2>3. created[o] # 0 /\ n_shares[o] = 0 BY <2>2 DEF IInv, KindsAre, KindIs
  <2>4. /\ home'[o] = 0 /\ created'[o] \in {0, created[o]}
        /\ \A y \in Object : y # o => created'[y] = created[y] /\ home'[y] = home[y]
    BY <2>1, <2>2, BooksOf
  <2>5. Status' = [Status EXCEPT ![o] = Kept(o)'] BY <1>4, <2>1, <2>2, <2>4, StatusMoves
  <2>6. Kept(o)' \in {"free", "loose"} BY <2>1, <2>3, <2>4 DEF Kept
  <2>7. Pools' = [Pools EXCEPT ![b] = @ \ {o}] BY <1>3, <2>2, <2>4, PoolsMove
  <2>8. o \in Pools[b] BY <1>3, <2>1 DEF Pools
  <2>9. Pool1!Collect(o, b) BY <2>1, <2>5, <2>6, <2>7, <2>8 DEF Pool1!Collect, Status, Pools
  <2> QED BY <1>3, <2>2, <2>9 DEF Moved, Pool1!Next
<1> QED BY <1>5, <1>6

LEMMA PopMoves == ASSUME IInv, IInv', DoPop PROVE Moved
<1>1. live' = live BY DEF DoPop
<1>2. CASE UNCHANGED share BY <1>1, <1>2, Still DEF Moved
<1>3. CASE ~UNCHANGED share
  <2>1. PICK v \in Variable, o \in {var[<<depth, w>>] : w \in Variable} :
          /\ o = var[<<depth, v>>] /\ o # Null /\ HandsOver(o, Current.ret)
          /\ n_shares' = [n_shares EXCEPT ![o] = 0] /\ created' = [created EXCEPT ![o] = 0]
          /\ home' = [home EXCEPT ![o] = 0]
    BY <1>3 DEF DoPop
  <2>2. <<depth, v>> \in Place BY FramesIs DEF Place
  <2>3. o \in Object BY <2>1, <2>2 DEF IInv, TypeOK
  <2>4. created[o] # 0 /\ n_shares[o] # 0 BY <2>1, <2>2, <2>3, HeldLives
  <2>5. n_shares[o] <= 1 BY <2>1 DEF HandsOver
  <2>6. o \in live BY <2>1, <2>2, <2>3, HeldLives
  <2>7. /\ n_shares'[o] = 0 /\ created'[o] = 0 /\ home'[o] = 0
        /\ \A y \in Object : y # o => /\ created'[y] = created[y] /\ home'[y] = home[y]
                                      /\ n_shares'[y] = n_shares[y]
    BY <2>1, <2>3, BooksOf
  <2>8. Status' = [Status EXCEPT ![o] = Kept(o)'] /\ Status[o] = Kept(o) BY <1>1, <2>3, <2>7, StatusMoves
  <2>9. Kept(o) = "managed" /\ Kept(o)' = "loose" BY <1>1, <2>4, <2>6, <2>7 DEF Kept
  <2>10. Pools' = [c \in Block |-> Pools[c] \ {o}] BY <2>3, <2>7, PoolsMove
  <2>11. Pool1!HandOver(o) BY <2>1, <2>5, <2>8, <2>9, <2>10 DEF Pool1!HandOver, Status, Pools
  <2> QED BY <2>3, <2>11 DEF Moved, Pool1!Next
<1> QED BY <1>2, <1>3

LEMMA StepMoves == ASSUME IInv, IInv', Step PROVE Moved
<1>1. CASE DoAssign \/ DoReturn \/ DoUnwind \/ DoDeref \/ DoUnlink \/ DoGlobals
  <2>1. UNCHANGED <<live, share>>
    BY <1>1 DEF DoAssign, DoReturn, DoUnwind, DoDeref, DoUnlink, DoGlobals
  <2> QED BY <2>1, Still DEF Moved
<1> QED BY <1>1, CreateMoves, StoreMoves, LinkMoves, StrandMoves, UnrefMoves, DestroyMoves,
   SweepMoves, PopMoves DEF Step

LEMMA CallMoves ==
  ASSUME IInv, IInv', NEW p \in Visible, NEW to, NEW v, Call(to, p, v)
  PROVE  Moved
<1>1. PICK o : o = var[p] OBVIOUS
<1>2. p \in Place /\ o \in Object BY <1>1, SeenIs DEF Call
<1>3. o \in live /\ created[o] # 0 /\ n_shares[o] # 0 BY <1>1, <1>2, HeldLives
<1>4. CanShare(o) BY <1>3 DEF CanShare
<1>5. TakeShare(o) /\ live' = live BY <1>1 DEF Call, Share
<1>6. Pool1!Acquire(o) BY <1>2, <1>4, <1>5, AcquireMove
<1> QED BY <1>2, <1>6 DEF Moved, Pool1!Next

LEMMA AllocateMoves ==
  ASSUME IInv, IInv', NEW o \in Object, Allocate(o), UNCHANGED share
  PROVE  Moved
BY AllocateMove DEF Moved, Pool1!Next

LEMMA VisibleMoves ==
  ASSUME IInv, IInv', NEW p \in Visible,
         \/ \E o \in Object : New(p, o) \/ \E f \in Field : SetNew(p, f, o)
         \/ \E q \in Visible :
              \/ Copy(p, q)
              \/ Swap(p, q)
              \/ \E f \in Field : Load(p, q, f) \/ Set(p, f, q)
         \/ \E f, g \in Field : Advance(p, f, g)
         \/ \E f \in Field : SetNull(p, f) \/ ReturnItem(p, f)
         \/ Forget(p)
         \/ ReturnVar(p)
         \/ \E to \in Visible \union {Null}, v \in Variable : Call(to, p, v)
  PROVE  Moved
<1>1. ASSUME NEW o \in Object, New(p, o) \/ \E f \in Field : SetNew(p, f, o) PROVE Moved
  <2>1. Allocate(o) /\ UNCHANGED share BY <1>1 DEF New, SetNew
  <2> QED BY <2>1, AllocateMoves
<1>2. ASSUME NEW q \in Visible, \/ Copy(p, q) \/ Swap(p, q)
                                \/ \E f \in Field : Load(p, q, f) \/ Set(p, f, q)
      PROVE  Moved
  <2>1. UNCHANGED <<live, share>> BY <1>2 DEF Copy, Swap, Load, Set
  <2> QED BY <2>1, Still DEF Moved
<1>3. CASE \/ \E f, g \in Field : Advance(p, f, g)
           \/ \E f \in Field : SetNull(p, f) \/ ReturnItem(p, f)
           \/ Forget(p)
           \/ ReturnVar(p)
  <2>1. UNCHANGED <<live, share>> BY <1>3 DEF Advance, SetNull, ReturnItem, Forget, ReturnVar
  <2> QED BY <2>1, Still DEF Moved
<1>4. CASE \E to \in Visible \union {Null}, v \in Variable : Call(to, p, v) BY <1>4, CallMoves
<1> QED BY <1>1, <1>2, <1>3, <1>4

LEMMA StatementMoves == ASSUME IInv, IInv', Statement PROVE Moved
<1>1. CASE \E o \in Object : ReturnNew(o)
  <2>1. PICK o \in Object : Allocate(o) /\ UNCHANGED share BY <1>1 DEF ReturnNew
  <2> QED BY <2>1, AllocateMoves
<1>2. CASE Fail \/ CallFails
  <2>1. UNCHANGED share /\ (live' = live \/ \E o \in Object : Allocate(o)) 
    BY <1>2 DEF Fail, CallFails
  <2>2. CASE live' = live BY <2>1, <2>2, Still DEF Moved
  <2>3. CASE \E o \in Object : Allocate(o) BY <2>1, <2>3, AllocateMoves
  <2> QED BY <2>1, <2>2, <2>3
<1>3. CASE Enter \/ Exit \/ ReturnNothing \/ ClearGlobalVariables
  <2>1. UNCHANGED <<live, share>> BY <1>3 DEF Enter, Exit, ReturnNothing, ClearGlobalVariables
  <2> QED BY <2>1, Still DEF Moved
<1> QED BY <1>1, <1>2, <1>3, VisibleMoves DEF Statement

(* The refinement: every step of the interpreter, in any program, takes,   *)
(* gives up, hands over and collects objects as the share manager allows,  *)
(* so that what is proved of the lists of nodes holds under it.            *)
THEOREM PoolRespected == Spec => UsesSharedPool
<1>1. Init => Pool1!Init
  <2> SUFFICES ASSUME Init PROVE Pool1!Init OBVIOUS
  <2>1. IInv BY InitKeeps
  <2>2. /\ live = {} /\ n_shares = [o \in Object |-> 0] /\ created = [o \in Object |-> 0]
        /\ home = [o \in Object |-> 0]
    BY DEF Init
  <2>3. Status = [o \in Object |-> "free"]
    <3>1. \A o \in Object : Kept(o) = "free" BY <2>2 DEF Kept
    <3> QED BY <2>1, <3>1, StatusIs
  <2>4. Pools = [b \in Block |-> {}] BY <2>2 DEF Pools, Pool, Block
  <2> QED BY <2>2, <2>3, <2>4 DEF Pool1!Init, Status, Pools
<1>2. IInv /\ IInv' /\ [Next]_vars => [Pool1!Next]_(Pool1!vars)
  <2> SUFFICES ASSUME IInv, IInv', [Next]_vars PROVE [Pool1!Next]_(Pool1!vars) OBVIOUS
  <2>1. CASE Next
    <3>1. Moved BY <2>1, StepMoves, StatementMoves DEF Next
    <3> QED BY <3>1 DEF Moved, Unmoved, Pool1!vars, Status, Pools
  <2>2. CASE UNCHANGED vars
    <3>1. UNCHANGED <<live, share>> BY <2>2 DEF vars
    <3>2. Unmoved BY <3>1, Still
    <3> QED BY <3>2 DEF Unmoved, Pool1!vars, Status, Pools
  <2> QED BY <2>1, <2>2
<1> QED BY <1>1, <1>2, HeapInvariant, PTL DEF Spec, Pool1!Spec, UsesSharedPool
-----------------------------------------------------------------------------
(* Clearing the globals.  While vm_deref_cyclic_references runs nothing    *)
(* else does but giving up, destroying and unlinking; what the saved       *)
(* variables reach is held by variables or by calls that did not start,    *)
(* what is unlinked is not.                                                *)
HeldIn(x) == \E p \in Place : var[p] = x
SavedObjects == {var[<<1, v>>] : v \in Saved} \ {Null}
Claimed(x) == HeldIn(x) \/ stray[x] > 0
Covered == \A y \in Reach(SavedObjects) : Claimed(y)
ClearIs(e, i) ==
  /\ e.op = "deref" => /\ i = Len(work) - 2
                       /\ \A j \in 1 .. i - 1 : work[j].op \in {"unref", "destroy", "unlink"}
                       /\ Covered
  /\ e.op = "unlink" => /\ ~Claimed(e.obj)
                        /\ \E j \in i + 1 .. Len(work) : work[j].op = "deref"
Clears == \A i \in 1 .. Len(work) : ClearIs(work[i], i)

PlainOp == {e \in Op : e.op \notin {"deref", "unlink"}}

LEMMA PlainOps ==
  /\ \A o \in Object : /\ Create(o) \in PlainOp /\ Destroy(o) \in PlainOp
                       /\ \A b \in Block \cup {0} : Unref(o, b) \in PlainOp
  /\ \A x \in Object, f \in Field, o \in Object :
       Assign(x, f, o) \in PlainOp /\ Link(x, f, o) \in PlainOp
  /\ \A p \in Place, o \in Object \cup {Null} : Store(p, o) \in PlainOp
  /\ (\A o \in Object \cup {Null} : Unwind(o) \in PlainOp) /\ Globals \in PlainOp
<1>1. /\ \A o \in Object : /\ Create(o) \in PlainOp /\ Destroy(o) \in PlainOp
                           /\ \A b \in Block \cup {0} : Unref(o, b) \in PlainOp
  BY ObjectOps DEF PlainOp
<1>2. \A x \in Object, f \in Field, o \in Object :
        Assign(x, f, o) \in PlainOp /\ Link(x, f, o) \in PlainOp
  BY SlotOps DEF PlainOp
<1>3. \A p \in Place, o \in Object \cup {Null} : Store(p, o) \in PlainOp BY StoreOps DEF PlainOp
<1>4. (\A o \in Object \cup {Null} : Unwind(o) \in PlainOp) /\ Globals \in PlainOp BY OtherOps DEF PlainOp
<1> QED BY <1>1, <1>2, <1>3, <1>4

LEMMA PlainBlockOps ==
  ASSUME NEW ret, ret \subseteq Object
  PROVE  /\ PopScope(ret) \in PlainOp
         /\ \A b \in Block : Sweep(b, ret) \in PlainOp
         /\ \A v \in Value : Return(ret, v) \in PlainOp
BY BlockOps DEF PlainOp

LEMMA PlainClears == ASSUME work \in Seq(PlainOp) PROVE Clears
<1>1. \A i \in 1 .. Len(work) : work[i] \in PlainOp BY SeqIs
<1> QED BY <1>1 DEF Clears, ClearIs, PlainOp

LEMMA PlainAfter == (work \in Seq(PlainOp) => Clears)'
<1>1. work \in Seq(PlainOp) => Clears BY PlainClears
<1> QED BY <1>1, PTL

(* Nothing is being unlinked when anything else comes first.               *)
LEMMA PlainWork ==
  ASSUME IInv, Clears, work = <<>> \/ work[1].op \notin {"unref", "destroy", "unlink", "deref"}
  PROVE  work \in Seq(PlainOp)
<1>1. work \in Seq(Op) /\ Len(work) \in Nat BY SeqIs DEF IInv, WorkAre
<1>2. ASSUME NEW i \in 1 .. Len(work) PROVE work[i].op # "deref"
  <2>1. ClearIs(work[i], i) BY DEF Clears
  <2>2. CASE i = 1 BY <1>1, <2>2
  <2>3. CASE i # 1
    <3>1. 1 \in 1 .. i - 1 BY <1>1, <2>3
    <3>2. work # <<>> BY <1>1
    <3> QED BY <2>1, <3>1, <3>2 DEF ClearIs
  <2> QED BY <2>2, <2>3
<1>3. ASSUME NEW i \in 1 .. Len(work) PROVE work[i].op # "unlink"
  <2>1. ClearIs(work[i], i) BY DEF Clears
  <2>2. \A j \in i + 1 .. Len(work) : j \in 1 .. Len(work) BY <1>1
  <2> QED BY <1>2, <2>1, <2>2 DEF ClearIs
<1>4. \A i \in 1 .. Len(work) : work[i] \in PlainOp BY <1>1, <1>2, <1>3, SeqIs DEF PlainOp
<1> QED BY <1>1, <1>4

LEMMA PlainThen ==
  ASSUME work \in Seq(PlainOp), work # <<>>, NEW ops \in Seq(PlainOp),
         Then(ops) \/ work' = ops \o work
  PROVE  Clears'
<1>1. PICK w : w = IF Then(ops) THEN Tail(work) ELSE work OBVIOUS
<1>2. w \in Seq(PlainOp) BY <1>1, TailIs
<1>3. PICK z : z = ops \o w OBVIOUS
<1>4. z \in Seq(PlainOp) BY <1>2, <1>3, InFront
<1>5. work' = z BY <1>1, <1>3 DEF Then
<1> QED BY <1>4, <1>5, PlainAfter

(* Fields that are emptied only make less reachable.                       *)
LEMMA ReachShrinks ==
  ASSUME NEW S, \A x \in Object, f \in Field : field'[x][f] \in {field[x][f], Null}
  PROVE  Reach(S)' \subseteq Reach(S)
<1>1. ASSUME NEW R \in SUBSET Object, Closed(R) PROVE Closed(R)' BY <1>1 DEF Closed
<1> QED BY <1>1 DEF Reach

DerefLater(d) == \E j \in 1 + d .. Len(work) : work[j].op = "deref"

(* The steps while something is unlinked.                                  *)
LEMMA ClearsKept ==
  ASSUME IInv, Clears, NEW ops \in Seq(Op), NEW d \in {0, 1}, d <= Len(work), After(ops, d),
         var' = var, stray' = stray, \A x \in Object, f \in Field : field'[x][f] \in {field[x][f], Null},
         \A i \in 1 .. Len(ops) :
           /\ ops[i].op \in {"unref", "destroy", "unlink"}
           /\ ops[i].op = "unlink" => ~Claimed(ops[i].obj) /\ DerefLater(d)
  PROVE  Clears'
<1>1. Len(work) \in Nat /\ Len(ops) \in Nat BY SeqIs DEF IInv, WorkAre
<1>2. /\ Len(work') = Len(ops) + Len(work) - d
      /\ \A i \in 1 .. Len(ops) : work'[i] = ops[i]
      /\ \A i \in Len(ops) + 1 .. Len(work') : work'[i] = work[i - Len(ops) + d]
  BY DEF After
<1>3. \A x : Claimed(x)' <=> Claimed(x) BY DEF Claimed, HeldIn
<1>4. Covered => Covered'
  <2>1. SavedObjects' = SavedObjects BY DEF SavedObjects
  <2>2. PICK S : S = SavedObjects OBVIOUS
  <2>3. Reach(S)' \subseteq Reach(S) BY ReachShrinks
  <2>4. Covered <=> \A y \in Reach(S) : Claimed(y) BY <2>2 DEF Covered
  <2>5. Covered' <=> \A y \in Reach(S)' : Claimed(y)' BY <2>1, <2>2 DEF Covered
  <2> QED BY <1>3, <2>3, <2>4, <2>5
<1>5. ASSUME NEW i \in Nat, NEW j \in i + 1 .. Len(work), work[j].op = "deref", j >= 1 + d
      PROVE  \E k \in i + Len(ops) - d + 1 .. Len(work') : work'[k].op = "deref"
  <2>1. PICK k \in Nat : k = j + Len(ops) - d BY <1>1, <1>5
  <2>2. k \in Len(ops) + 1 .. Len(work') /\ k - Len(ops) + d = j /\ k \in i + Len(ops) - d + 1 .. Len(work')
    BY <1>1, <1>2, <1>5, <2>1
  <2>3. work'[k] = work[j] BY <1>2, <2>2
  <2> QED BY <1>5, <2>2, <2>3
<1>6. ASSUME NEW i \in 1 .. Len(work'), i <= Len(ops) PROVE ClearIs(work[i], i)'
  <2>1. i \in 1 .. Len(ops) /\ work'[i] = ops[i] BY <1>1, <1>2, <1>6
  <2>2. ops[i].op # "deref" BY <2>1
  <2>3. ASSUME ops[i].op = "unlink"
        PROVE  ~Claimed(ops[i].obj)' /\ \E k \in i + 1 .. Len(work') : work'[k].op = "deref"
    <3>1. ~Claimed(ops[i].obj) /\ DerefLater(d) BY <2>1, <2>3
    <3>2. PICK j \in 1 + d .. Len(work) : work[j].op = "deref" BY <3>1 DEF DerefLater
    <3>3. PICK c \in Nat : c = d OBVIOUS
    <3>4. j \in c + 1 .. Len(work) /\ j >= 1 + d BY <1>1, <3>2, <3>3
    <3>5. \E k \in c + Len(ops) - d + 1 .. Len(work') : work'[k].op = "deref" BY <1>5, <3>2, <3>4
    <3>6. \E k \in Len(ops) + 1 .. Len(work') : work'[k].op = "deref" BY <1>1, <3>3, <3>5
    <3>7. \A k \in Len(ops) + 1 .. Len(work') : k \in i + 1 .. Len(work') BY <1>1, <1>2, <2>1
    <3> QED BY <1>3, <3>1, <3>6, <3>7
  <2> QED BY <2>1, <2>2, <2>3 DEF ClearIs
<1>7. ASSUME NEW i \in 1 .. Len(work'), i > Len(ops) PROVE ClearIs(work[i], i)'
  <2>1. i \in Len(ops) + 1 .. Len(work') BY <1>1, <1>2, <1>7
  <2>2. PICK j \in 1 + d .. Len(work) : j = i - Len(ops) + d BY <1>1, <1>2, <2>1
  <2>3. work'[i] = work[j] /\ j \in 1 .. Len(work) BY <1>1, <1>2, <2>1, <2>2
  <2>0. PICK e : e = work[j] OBVIOUS
  <2>4. ClearIs(e, j) BY <2>0, <2>3 DEF Clears
  <2>5. ASSUME e.op = "deref"
        PROVE  /\ i = Len(work') - 2 /\ Covered'
               /\ \A k \in 1 .. i - 1 : work'[k].op \in {"unref", "destroy", "unlink"}
    <3>1. /\ j = Len(work) - 2 /\ Covered
          /\ \A k \in 1 .. j - 1 : work[k].op \in {"unref", "destroy", "unlink"}
      BY <2>4, <2>5 DEF ClearIs
    <3>2. i = Len(work') - 2 BY <1>1, <1>2, <2>1, <2>2, <3>1
    <3>3. ASSUME NEW k \in 1 .. i - 1 PROVE work'[k].op \in {"unref", "destroy", "unlink"}
      <4>1. CASE k <= Len(ops)
        <5>1. k \in 1 .. Len(ops) BY <1>1, <2>1, <4>1
        <5> QED BY <1>2, <5>1
      <4>2. CASE k > Len(ops)
        <5>1. k \in Len(ops) + 1 .. Len(work') /\ k - Len(ops) + d \in 1 .. j - 1
          BY <1>1, <1>2, <2>1, <2>2, <4>2
        <5> QED BY <1>2, <3>1, <5>1
      <4> QED BY <1>1, <2>1, <4>1, <4>2
    <3> QED BY <1>4, <3>1, <3>2, <3>3
  <2>6. ASSUME e.op = "unlink"
        PROVE  ~Claimed(e.obj)' /\ \E k \in i + 1 .. Len(work') : work'[k].op = "deref"
    <3>1. ~Claimed(e.obj) /\ \E k \in j + 1 .. Len(work) : work[k].op = "deref"
      BY <2>4, <2>6 DEF ClearIs
    <3>2. PICK n \in j + 1 .. Len(work) : work[n].op = "deref" BY <3>1
    <3>3. n >= 1 + d /\ j \in Nat BY <1>1, <2>2
    <3>4. \E k \in j + Len(ops) - d + 1 .. Len(work') : work'[k].op = "deref" BY <1>5, <3>2, <3>3
    <3>5. j + Len(ops) - d + 1 = i + 1 BY <1>1, <2>1, <2>2
    <3> QED BY <1>3, <3>1, <3>4, <3>5
  <2>7. ClearIs(e, i)' BY <2>5, <2>6 DEF ClearIs
  <2> QED BY <2>0, <2>3, <2>7
<1>8. \A i \in 1 .. Len(work') : ClearIs(work[i], i)'
  <2> TAKE i \in 1 .. Len(work')
  <2>1. i <= Len(ops) \/ i > Len(ops) BY <1>1
  <2> QED BY <1>6, <1>7, <2>1
<1> QED BY <1>8 DEF Clears

LEMMA ClearsSame == ASSUME Clears, UNCHANGED <<work, var, stray, field>> PROVE Clears'
<1>1. Covered' <=> Covered BY DEF Covered, SavedObjects, Claimed, HeldIn, Reach, Closed
<1>2. \A x : Claimed(x)' <=> Claimed(x) BY DEF Claimed, HeldIn
<1>3. \A i \in 1 .. Len(work) : ClearIs(work[i], i)' <=> ClearIs(work[i], i) BY <1>1, <1>2 DEF ClearIs
<1> QED BY <1>3 DEF Clears

LEMMA PlainShort ==
  /\ <<>> \in Seq(PlainOp)
  /\ \A a \in PlainOp : <<a>> \in Seq(PlainOp)
  /\ \A a, b \in PlainOp : <<a, b>> \in Seq(PlainOp)
OBVIOUS

LEMMA FieldEmptied ==
  ASSUME IInv, NEW x \in Object, NEW f \in Field, field' = [field EXCEPT ![x][f] = Null]
  PROVE  \A y \in Object, g \in Field : field'[y][g] \in {field[y][g], Null}
<1>1. field' = [field EXCEPT ![x] = [field[x] EXCEPT ![f] = Null]] OBVIOUS
<1>2. field \in [Object -> [Field -> Object \cup {Null}]] BY DEF IInv, TypeOK
<1>3. PICK b \in Object \cup {Null} : b = Null OBVIOUS
<1>4. field' = [field EXCEPT ![x] = [field[x] EXCEPT ![f] = b]] BY <1>1, <1>3
<1>5. /\ field'[x][f] = b
      /\ \A y \in Object, g \in Field : <<y, g>> # <<x, f>> => field'[y][g] = field[y][g]
  BY <1>2, <1>4, FieldChanged
<1>6. ASSUME NEW y \in Object, NEW g \in Field PROVE field'[y][g] \in {field[y][g], Null}
  <2>1. CASE <<y, g>> = <<x, f>> BY <1>3, <1>5, <2>1
  <2>2. CASE <<y, g>> # <<x, f>> BY <1>5, <2>2
  <2> QED BY <2>1, <2>2
<1> QED BY <1>6

(* Taking the first entry away, or putting one in front, while clearing.   *)
LEMMA ClearsThen ==
  ASSUME IInv, Clears, work # <<>>, NEW ops \in Seq(Op), Then(ops),
         \A i \in 1 .. Len(ops) : ops[i].op \in {"unref", "destroy"},
         var' = var, stray' = stray, \A x \in Object, f \in Field : field'[x][f] \in {field[x][f], Null}
  PROVE  Clears'
<1>1. work \in Seq(Op) BY DEF IInv, WorkAre
<1>2. After(ops, 1) /\ Len(work) > 0 BY <1>1, ThenIs
<1>3. PICK d \in {0, 1} : d = 1 OBVIOUS
<1>4. Len(work) \in Nat BY <1>1, SeqIs
<1>5. d <= Len(work) /\ After(ops, d) BY <1>2, <1>3, <1>4
<1>6. \A i \in 1 .. Len(ops) : /\ ops[i].op \in {"unref", "destroy", "unlink"}
                               /\ ops[i].op = "unlink" => ~Claimed(ops[i].obj) /\ DerefLater(d)
  OBVIOUS
<1> QED BY <1>5, <1>6, ClearsKept

LEMMA ClearsDrop ==
  ASSUME IInv, Clears, work # <<>>, Then(<<>>), var' = var, stray' = stray,
         \A x \in Object, f \in Field : field'[x][f] \in {field[x][f], Null}
  PROVE  Clears'
<1>1. PICK ops : ops = <<>> OBVIOUS
<1>2. Then(ops) /\ ops \in Seq(Op) BY <1>1
<1>3. \A i \in 1 .. Len(ops) : FALSE
  <2>1. Len(ops) = 0 BY <1>1
  <2> QED BY <2>1
<1>4. \A i \in 1 .. Len(ops) : ops[i].op \in {"unref", "destroy"} BY <1>3
<1> QED BY <1>2, <1>4, ClearsThen

LEMMA ClearsPush ==
  ASSUME IInv, Clears, NEW u \in Op, work' = <<u>> \o work,
         u.op \in {"unref", "destroy", "unlink"},
         u.op = "unlink" => ~Claimed(u.obj) /\ \E j \in 1 .. Len(work) : work[j].op = "deref",
         var' = var, stray' = stray, \A x \in Object, f \in Field : field'[x][f] \in {field[x][f], Null}
  PROVE  Clears'
<1>1. work \in Seq(Op) BY DEF IInv, WorkAre
<1>2. PICK ops : ops = <<u>> OBVIOUS
<1>3. ops \in Seq(Op) /\ Len(ops) = 1 /\ ops[1] = u BY <1>2, OneOp
<1>4. PICK d \in {0, 1} : d = 0 OBVIOUS
<1>5. After(ops, d)
  <2>1. work' = ops \o work BY <1>2
  <2> QED BY <1>1, <1>3, <1>4, <2>1, PushedIs
<1>6. \A i \in 1 .. Len(ops) : i = 1 BY <1>3
<1>7. u.op = "unlink" => DerefLater(d) BY <1>4 DEF DerefLater
<1>8. \A i \in 1 .. Len(ops) : /\ ops[i].op \in {"unref", "destroy", "unlink"}
                               /\ ops[i].op = "unlink" => ~Claimed(ops[i].obj) /\ DerefLater(d)
  BY <1>3, <1>6, <1>7
<1>9. d <= Len(work) BY <1>1, <1>4, SeqIs
<1> QED BY <1>3, <1>5, <1>8, <1>9, ClearsKept

LEMMA UnrefClears == ASSUME IInv, Clears, DoUnref PROVE Clears'
<1>1. PICK o : o = Current.obj OBVIOUS
<1>2. Current = work[1] /\ work[1].op = "unref" /\ work[1] \in Op /\ work # <<>> BY FrontIs DEF DoUnref
<1>3. o \in Object BY <1>1, <1>2, OpIs
<1>4. var' = var /\ field' = field /\ stray' = stray BY DEF DoUnref, share
<1>5. CASE work' = work BY <1>4, <1>5, ClearsSame
<1>6. CASE work' # work
  <2>1. Then(<<>>) \/ Then(<<Destroy(o)>>) BY <1>1, <1>6 DEF DoUnref
  <2>2. \A x \in Object, f \in Field : field'[x][f] \in {field[x][f], Null} BY <1>4
  <2>3. CASE Then(<<>>) BY <1>2, <1>4, <2>2, <2>3, ClearsDrop
  <2>4. CASE Then(<<Destroy(o)>>)
    <3>1. PICK u : u = Destroy(o) OBVIOUS
    <3>2. u \in Op /\ u.op = "destroy" BY <1>3, <3>1, ObjectOps
    <3>3. PICK ops : ops = <<u>> OBVIOUS
    <3>4. ops \in Seq(Op) /\ Len(ops) = 1 /\ ops[1] = u BY <3>2, <3>3, OneOp
    <3>5. \A i \in 1 .. Len(ops) : i = 1 BY <3>4
    <3>6. \A i \in 1 .. Len(ops) : ops[i].op \in {"unref", "destroy"} BY <3>2, <3>4, <3>5
    <3>7. Then(ops) BY <2>4, <3>1, <3>3
    <3> QED BY <1>2, <1>4, <2>2, <3>4, <3>6, <3>7, ClearsThen
  <2> QED BY <2>1, <2>3, <2>4
<1> QED BY <1>5, <1>6

LEMMA DestroyClears == ASSUME IInv, Clears, DoDestroy PROVE Clears'
<1>1. PICK o : o = Current.obj OBVIOUS
<1>2. Current = work[1] /\ work[1].op = "destroy" /\ work[1] \in Op /\ work # <<>>
  BY FrontIs DEF DoDestroy
<1>3. o \in Object BY <1>1, <1>2, OpIs
<1>4. var' = var /\ stray' = stray BY DEF DoDestroy
<1>5. CASE \E f \in Field : field[o][f] # Null
  <2>1. PICK f \in Field : /\ field[o][f] # Null /\ RemoveSlot(o, f)
                           /\ work' = <<Unref(field[o][f], 0)>> \o work
    BY <1>1, <1>5 DEF DoDestroy
  <2>2. PICK y \in Object : y = field[o][f] BY <1>3, <2>1 DEF IInv, TypeOK
  <2>3. PICK u : u = Unref(y, 0) OBVIOUS
  <2>4. u \in Op /\ u.op = "unref" BY <2>3, ObjectOps
  <2>5. work' = <<u>> \o work BY <2>1, <2>2, <2>3
  <2>6. field' = [field EXCEPT ![o][f] = Null] BY <2>1 DEF RemoveSlot
  <2>7. \A x \in Object, g \in Field : field'[x][g] \in {field[x][g], Null} BY <1>3, <2>6, FieldEmptied
  <2> QED BY <1>4, <2>4, <2>5, <2>7, ClearsPush
<1>6. CASE ~ \E f \in Field : field[o][f] # Null
  <2>1. {f \in Field : field[o][f] # Null} = {} BY <1>6
  <2>2. field' = field /\ (work' = work \/ Then(<<>>)) BY <1>1, <2>1 DEF DoDestroy
  <2>3. CASE work' = work BY <1>4, <2>2, <2>3, ClearsSame
  <2>4. CASE Then(<<>>)
    <3>1. \A x \in Object, f \in Field : field'[x][f] \in {field[x][f], Null} BY <2>2
    <3> QED BY <1>2, <1>4, <2>4, <3>1, ClearsDrop
  <2> QED BY <2>2, <2>3, <2>4
<1> QED BY <1>5, <1>6

(* An instance that only slots hold is neither a variable's nor a call's   *)
(* that did not start.                                                     *)
LEMMA LonelyNotHeld ==
  ASSUME IInv, NEW o \in Object, Given(o) = 0
  PROVE  Lonely(o) <=> ~Claimed(o) /\ Slots(o) # {}
<1>1. n_shares[o] = Cardinality(Holding(o)) + Cardinality(Slots(o)) + Given(o) + stray[o]
  BY DEF IInv, CountsAre, CountIs
<1>2. /\ Cardinality(Holding(o)) \in Nat /\ Cardinality(Slots(o)) \in Nat /\ stray[o] \in Nat
      /\ Cardinality(Holding(o)) = 0 <=> \A p \in Place : var[p] # o
  BY HoldersCounted, StrayIs
<1>3. n_shares[o] = Cardinality(Slots(o)) <=> Cardinality(Holding(o)) = 0 /\ ~(stray[o] > 0) BY <1>1, <1>2
<1> QED BY <1>2, <1>3 DEF Lonely, Claimed, HeldIn

LEMMA DerefClears == ASSUME IInv, Clears, DoDeref PROVE Clears'
<1>1. /\ Current = work[1] /\ work[1].op = "deref" /\ work # <<>> /\ Len(work) \in Nat /\ Len(work) >= 1
      /\ \A o : Given(o) = 0
  BY FrontIs DEF DoDeref
<1>2. var' = var /\ field' = field /\ stray' = stray BY DEF DoDeref, share
<1>3. CASE Then(<<>>)
  <2>1. \A x \in Object, f \in Field : field'[x][f] \in {field[x][f], Null} BY <1>2
  <2> QED BY <1>1, <1>2, <1>3, <2>1, ClearsDrop
<1>4. CASE ~Then(<<>>)
  <2>1. PICK o \in cyclic : Lonely(o) /\ work' = <<Unlink(o)>> \o work BY <1>4 DEF DoDeref
  <2>2. o \in Object BY DEF IInv, TypeOK
  <2>3. ~Claimed(o) BY <1>1, <2>1, <2>2, LonelyNotHeld
  <2>4. PICK u : u = Unlink(o) OBVIOUS
  <2>5. u \in Op /\ u.op = "unlink" /\ u.obj = o BY <2>2, <2>4, ObjectOps
  <2>6. \E j \in 1 .. Len(work) : work[j].op = "deref"
    <3>1. 1 \in 1 .. Len(work) BY <1>1
    <3> QED BY <1>1, <3>1
  <2>7. work' = <<u>> \o work /\ (u.op = "unlink" => ~Claimed(u.obj)) BY <2>1, <2>3, <2>4, <2>5
  <2> QED BY <1>2, <2>5, <2>6, <2>7, ClearsPush
<1> QED BY <1>3, <1>4

LEMMA UnlinkClears == ASSUME IInv, Clears, DoUnlink PROVE Clears'
<1>1. PICK o : o = Current.obj OBVIOUS
<1>2. Current = work[1] /\ work[1].op = "unlink" /\ work[1] \in Op /\ work # <<>> BY FrontIs DEF DoUnlink
<1>3. o \in Object BY <1>1, <1>2, OpIs
<1>4. var' = var /\ stray' = stray BY DEF DoUnlink, share
<1>5. CASE Slots(o) = {}
  <2>1. field' = field /\ Then(<<>>) BY <1>1, <1>5 DEF DoUnlink
  <2>2. \A x \in Object, f \in Field : field'[x][f] \in {field[x][f], Null} BY <2>1
  <2> QED BY <1>2, <1>4, <2>1, <2>2, ClearsDrop
<1>6. CASE Slots(o) # {}
  <2>1. PICK s \in Slots(o) : /\ field' = [field EXCEPT ![s[1]][s[2]] = Null]
                              /\ work' = <<Unref(o, 1)>> \o work
    BY <1>1, <1>6 DEF DoUnlink
  <2>2. PICK x \in Object, f \in Field : x = s[1] /\ f = s[2] BY DEF Slots
  <2>3. field' = [field EXCEPT ![x][f] = Null] BY <2>1, <2>2
  <2>4. \A y \in Object, g \in Field : field'[y][g] \in {field[y][g], Null} BY <2>3, FieldEmptied
  <2>5. PICK u : u = Unref(o, 1) OBVIOUS
  <2>6. u \in Op /\ u.op = "unref"
    <3>1. 1 \in Block \cup {0} BY DepthAssumption DEF Block
    <3> QED BY <1>3, <2>5, <3>1, ObjectOps
  <2>7. work' = <<u>> \o work BY <2>1, <2>5
  <2> QED BY <1>4, <2>4, <2>6, <2>7, ClearsPush
<1> QED BY <1>5, <1>6

(* The steps of anything else.                                             *)
LEMMA PlainFront ==
  ASSUME IInv, Clears, NEW op, Does(op), op \notin {"unref", "destroy", "unlink", "deref"}
  PROVE  /\ work \in Seq(PlainOp) /\ work # <<>> /\ Current = work[1] /\ work[1] \in Op
         /\ work[1].op = op
         /\ work' = work => Clears'
         /\ depth \in Block
<1>1. work # <<>> /\ Current = work[1] /\ work[1] \in Op /\ work[1].op = op BY FrontIs
<1>2. work \in Seq(PlainOp) BY <1>1, PlainWork
<1>3. work' = work => Clears' BY <1>2, PlainAfter
<1> QED BY <1>1, <1>2, <1>3, FramesIs

LEMMA StoreClears == ASSUME IInv, Clears, DoStore \/ DoCreate PROVE Clears'
<1>1. CASE DoCreate
  <2>1. work \in Seq(PlainOp) /\ work # <<>> BY <1>1, PlainFront DEF DoCreate
  <2>2. Then(<<>>) BY <1>1 DEF DoCreate
  <2> QED BY <2>1, <2>2, PlainShort, PlainThen
<1>2. CASE DoStore
  <2>1. /\ work \in Seq(PlainOp) /\ work # <<>> /\ Current = work[1] /\ work[1] \in Op
        /\ work[1].op = "store" /\ (work' = work => Clears') /\ depth \in Block
    BY <1>2, PlainFront DEF DoStore
  <2>2. Current.at \in Place BY <2>1, OpIs
  <2>3. PICK old \in Object \cup {Null} : old = var[Current.at] BY <2>2 DEF IInv, TypeOK
  <2>4. GiveUpOld(old) \in Seq(PlainOp)
    <3>1. old # Null => Unref(old, depth) \in PlainOp BY <2>1, PlainOps
    <3> QED BY <3>1, PlainShort DEF GiveUpOld
  <2>5. work' = work \/ Then(<<>>) \/ Then(GiveUpOld(old)) BY <1>2, <2>3 DEF DoStore
  <2> QED BY <2>1, <2>4, <2>5, PlainShort, PlainThen
<1> QED BY <1>1, <1>2

LEMMA AssignClears == ASSUME IInv, Clears, DoAssign \/ DoLink PROVE Clears'
<1>1. CASE DoAssign
  <2>1. /\ work \in Seq(PlainOp) /\ work # <<>> /\ Current = work[1] /\ work[1] \in Op
        /\ work[1].op = "assign" /\ (work' = work => Clears')
    BY <1>1, PlainFront DEF DoAssign
  <2>2. PICK x \in Object, f \in Field, o \in Object :
          x = Current.slot[1] /\ f = Current.slot[2] /\ o = Current.obj
    BY <2>1, OpIs
  <2>3. PICK old \in Object \cup {Null} : old = field[x][f] BY DEF IInv, TypeOK
  <2>4. PICK l : l = Link(x, f, o) OBVIOUS
  <2>5. l \in PlainOp BY <2>4, PlainOps
  <2>6. \/ work' = work \/ Then(<<>>) \/ Then(<<l>>)
        \/ old # Null /\ Then(<<Unref(old, 0), l>>)
    BY <1>1, <2>2, <2>3, <2>4 DEF DoAssign
  <2>7. CASE old # Null /\ Then(<<Unref(old, 0), l>>)
    <3>1. Unref(old, 0) \in PlainOp BY <2>7, PlainOps
    <3>2. <<Unref(old, 0), l>> \in Seq(PlainOp) BY <2>5, <3>1, PlainShort
    <3> QED BY <2>1, <2>7, <3>2, PlainThen
  <2> QED BY <2>1, <2>5, <2>6, <2>7, PlainShort, PlainThen
<1>2. CASE DoLink
  <2>1. work \in Seq(PlainOp) /\ work # <<>> /\ (work' = work => Clears') BY <1>2, PlainFront DEF DoLink
  <2>2. work' = work \/ Then(<<>>) BY <1>2 DEF DoLink
  <2> QED BY <2>1, <2>2, PlainShort, PlainThen
<1> QED BY <1>1, <1>2

LEMMA SweepClears == ASSUME IInv, Clears, DoSweep \/ DoPop PROVE Clears'
<1>1. CASE DoSweep
  <2>1. work \in Seq(PlainOp) /\ work # <<>> /\ (work' = work => Clears') BY <1>1, PlainFront DEF DoSweep
  <2>2. work' = work \/ Then(<<>>) \/ \E o \in Object : work' = <<Destroy(o)>> \o work
    BY <1>1 DEF DoSweep, Pool
  <2>3. ASSUME NEW o \in Object, work' = <<Destroy(o)>> \o work PROVE Clears'
    <3>1. <<Destroy(o)>> \in Seq(PlainOp) BY PlainOps, PlainShort
    <3> QED BY <2>1, <2>3, <3>1, PlainThen
  <2> QED BY <2>1, <2>2, <2>3, PlainShort, PlainThen
<1>2. CASE DoPop
  <2>1. /\ work \in Seq(PlainOp) /\ work # <<>> /\ Current = work[1] /\ work[1] \in Op
        /\ work[1].op = "pop" /\ (work' = work => Clears') /\ depth \in Block
    BY <1>2, PlainFront DEF DoPop
  <2>2. PICK ret : ret = Current.ret OBVIOUS
  <2>3. ret \subseteq Object BY <2>1, <2>2, OpIs
  <2>4. <<Sweep(depth, ret)>> \in Seq(PlainOp) BY <2>1, <2>3, PlainBlockOps, PlainShort
  <2>5. \/ Then(<<Sweep(depth, ret)>>) \/ work' = work
        \/ \E v \in Variable : /\ var[<<depth, v>>] # Null
                               /\ work' = <<Unref(var[<<depth, v>>], 0)>> \o work
    BY <1>2, <2>2 DEF DoPop
  <2>6. ASSUME NEW v \in Variable, var[<<depth, v>>] # Null,
               work' = <<Unref(var[<<depth, v>>], 0)>> \o work
        PROVE  Clears'
    <3>1. <<depth, v>> \in Place BY <2>1 DEF Place
    <3>2. PICK o \in Object : o = var[<<depth, v>>] BY <2>6, <3>1 DEF IInv, TypeOK
    <3>3. <<Unref(o, 0)>> \in Seq(PlainOp) BY PlainOps, PlainShort
    <3> QED BY <2>1, <2>6, <3>2, <3>3, PlainThen
  <2> QED BY <2>1, <2>4, <2>5, <2>6, PlainThen
<1> QED BY <1>1, <1>2

LEMMA GlobalsClears == ASSUME IInv, Clears, DoGlobals \/ DoStrand \/ DoUnwind PROVE Clears'
<1>1. CASE DoGlobals
  <2>1. work \in Seq(PlainOp) /\ work # <<>> BY <1>1, PlainFront DEF DoGlobals
  <2>2. Then(<<>>) \/ \E v \in Variable : /\ var[<<1, v>>] # Null
                                          /\ work' = <<Unref(var[<<1, v>>], 0)>> \o work
    BY <1>1 DEF DoGlobals
  <2>3. ASSUME NEW v \in Variable, var[<<1, v>>] # Null, work' = <<Unref(var[<<1, v>>], 0)>> \o work
        PROVE  Clears'
    <3>1. <<1, v>> \in Place BY DepthAssumption DEF Place, Block
    <3>2. PICK o \in Object : o = var[<<1, v>>] BY <2>3, <3>1 DEF IInv, TypeOK
    <3>3. <<Unref(o, 0)>> \in Seq(PlainOp) BY PlainOps, PlainShort
    <3> QED BY <2>1, <2>3, <3>2, <3>3, PlainThen
  <2> QED BY <2>1, <2>2, <2>3, PlainShort, PlainThen
<1>2. CASE DoUnwind
  <2>1. work \in Seq(PlainOp) /\ work # <<>> BY <1>2, PlainFront DEF DoUnwind
  <2>2. PICK ret : ret = {} OBVIOUS
  <2>3. PICK s, u : s = Sweep(1, ret) /\ u = PopScope(ret) OBVIOUS
  <2>4. <<s>> \in Seq(PlainOp) /\ <<u>> \in Seq(PlainOp)
    <3>1. ret \subseteq Object /\ 1 \in Block BY <2>2, DepthAssumption DEF Block
    <3>2. s \in PlainOp /\ u \in PlainOp BY <2>3, <3>1, PlainBlockOps
    <3> QED BY <3>2, PlainShort
  <2>5. work' = <<u>> \o work \/ Then(<<s>>) BY <1>2, <2>2, <2>3 DEF DoUnwind
  <2> QED BY <2>1, <2>4, <2>5, PlainThen
<1>3. CASE DoStrand
  <2>1. work \in Seq(PlainOp) /\ work # <<>> /\ (work' = work => Clears') BY <1>3, PlainFront DEF DoStrand
  <2>2. PICK n \in Object \cup {Null} : n = Null OBVIOUS
  <2>3. <<Unwind(n)>> \in Seq(PlainOp) BY PlainOps, PlainShort
  <2>4. work' = work \/ Then(<<Unwind(n)>>) BY <1>3, <2>2 DEF DoStrand
  <2> QED BY <2>1, <2>3, <2>4, PlainThen
<1> QED BY <1>1, <1>2, <1>3

LEMMA PlainJoin == ASSUME NEW a \in Seq(PlainOp), NEW b \in Seq(PlainOp) PROVE a \o b \in Seq(PlainOp)
BY ConcatProperties

LEMMA FinishPlain ==
  ASSUME NEW to \in Place \cup {Null}, NEW r \in Object \cup {Null}, depth \in Block
  PROVE  Finish(to, r) \in Seq(PlainOp)
<1>1. PICK ret : ret = {} OBVIOUS
<1>2. PICK s : s = Sweep(depth, ret) OBVIOUS
<1>3. <<s>> \in Seq(PlainOp)
  <2>1. ret \subseteq Object BY <1>1
  <2> QED BY <1>2, <2>1, PlainBlockOps, PlainShort
<1>4. (IF to = Null THEN <<>> ELSE <<Store(to, r)>>) \in Seq(PlainOp)
  <2>1. CASE to = Null BY <2>1, PlainShort
  <2>2. CASE to # Null
    <3>1. to \in Place BY <2>2
    <3>2. Store(to, r) \in PlainOp BY <3>1, PlainOps
    <3> QED BY <2>2, <3>2, PlainShort
  <2> QED BY <2>1, <2>2
<1>5. Finish(to, r) = (IF to = Null THEN <<>> ELSE <<Store(to, r)>>) \o <<s>> BY <1>1, <1>2 DEF Finish
<1> QED BY <1>3, <1>4, <1>5, PlainJoin

LEMMA ReturnClears == ASSUME IInv, Clears, DoReturn PROVE Clears'
<1>1. /\ work \in Seq(PlainOp) /\ work # <<>> /\ Current = work[1] /\ work[1] \in Op
      /\ work[1].op = "return" /\ (work' = work => Clears') /\ depth \in Block
  BY PlainFront DEF DoReturn
<1>2. PICK ret, value : ret = Current.ret /\ value = Current.value OBVIOUS
<1>3. ret \subseteq Object /\ value \in Value BY <1>1, <1>2, OpIs
<1>4. PICK to : to = frames[Len(frames)].to OBVIOUS
<1>5. CASE InFunction
  <2>1. work' = <<PopScope(ret)>> \o work BY <1>2, <1>5 DEF DoReturn
  <2>2. <<PopScope(ret)>> \in Seq(PlainOp) BY <1>3, PlainBlockOps, PlainShort
  <2> QED BY <1>1, <2>1, <2>2, PlainThen
<1>6. CASE ~InFunction /\ Gone(value) /\ (value[1] = "slot" => to # Null)
  BY <1>1, <1>2, <1>4, <1>6 DEF DoReturn
<1>7. CASE ~InFunction /\ ~(Gone(value) /\ (value[1] = "slot" => to # Null))
  <2>1. to \in Place \cup {Null}
    <3>1. EntryIs(work[1], 1) BY FrontIs DEF DoReturn
    <3>2. frames # <<>> BY <1>1, <3>1 DEF EntryIs
    <3> QED BY <1>4, <3>2, FramesIs
  <2>2. PICK a : a = (IF value[1] = "object" /\ created[value[2]] = 0 THEN <<Create(value[2])>> ELSE <<>>)
    OBVIOUS
  <2>3. PICK b : b = (CASE value[1] = "object" -> Finish(to, value[2])
                        [] value[1] = "slot" /\ to # Null
                               -> Finish(to, field[value[2]][value[3]])
                        [] value[1] = "variable" -> Finish(to, var[<<1, value[2]>>])
                        [] OTHER -> Finish(to, Null))
    OBVIOUS
  <2>4. Then(a \o b) BY <1>2, <1>4, <1>7, <2>2, <2>3 DEF DoReturn
  <2>5. a \in Seq(PlainOp)
    <3>1. CASE value[1] = "object" /\ created[value[2]] = 0
      <4>1. value[2] \in Object BY <1>3, <3>1, ValueIs
      <4>2. Create(value[2]) \in PlainOp BY <4>1, PlainOps
      <4>3. a = <<Create(value[2])>> BY <2>2, <3>1
      <4> QED BY <4>2, <4>3, PlainShort
    <3>2. CASE ~(value[1] = "object" /\ created[value[2]] = 0) BY <2>2, <3>2, PlainShort
    <3> QED BY <3>1, <3>2
  <2>6. \E r \in Object \cup {Null} : b = Finish(to, r)
    <3>1. CASE value[1] = "object"
      <4>1. value[2] \in Object BY <1>3, <3>1, ValueIs
      <4>2. b = Finish(to, value[2]) BY <2>3, <3>1
      <4> QED BY <4>1, <4>2
    <3>2. CASE value[1] = "slot" /\ to # Null
      <4>1. value[2] \in Object /\ value[3] \in Field BY <1>3, <3>2, ValueIs
      <4>2. field[value[2]][value[3]] \in Object \cup {Null} BY <4>1 DEF IInv, TypeOK
      <4>3. b = Finish(to, field[value[2]][value[3]]) BY <2>3, <3>2
      <4> QED BY <4>2, <4>3
    <3>3. CASE value[1] = "variable"
      <4>1. value[2] \in Variable BY <1>3, <3>3, ValueIs
      <4>2. <<1, value[2]>> \in Place BY <4>1, FramesIs DEF Place
      <4>3. var[<<1, value[2]>>] \in Object \cup {Null} BY <4>2 DEF IInv, TypeOK
      <4>4. b = Finish(to, var[<<1, value[2]>>]) BY <2>3, <3>3
      <4> QED BY <4>3, <4>4
    <3>4. CASE value[1] # "object" /\ ~(value[1] = "slot" /\ to # Null) /\ value[1] # "variable"
      <4>1. b = Finish(to, Null) BY <2>3, <3>4
      <4> QED BY <4>1
    <3> QED BY <3>1, <3>2, <3>3, <3>4
  <2>7. b \in Seq(PlainOp) BY <1>1, <2>1, <2>6, FinishPlain
  <2>8. PICK ops : ops = a \o b OBVIOUS
  <2>9. ops \in Seq(PlainOp) /\ Then(ops) BY <2>4, <2>5, <2>7, <2>8, PlainJoin
  <2> QED BY <1>1, <2>9, PlainThen
<1> QED BY <1>5, <1>6, <1>7

LEMMA StepClears == ASSUME IInv, Clears, Step PROVE Clears'
BY StoreClears, AssignClears, UnrefClears, DestroyClears, SweepClears, ReturnClears, DerefClears,
   UnlinkClears, GlobalsClears DEF Step

LEMMA RunClears == ASSUME IInv, NEW ops \in Seq(PlainOp), Run(ops) PROVE Clears'
<1>1. PICK ret : ret = {} OBVIOUS
<1>2. PICK s : s = Sweep(depth, ret) OBVIOUS
<1>3. s \in PlainOp
  <2>1. ret \subseteq Object /\ depth \in Block BY <1>1, FramesIs
  <2> QED BY <1>2, <2>1, PlainBlockOps
<1>4. PICK z : z = <<s>> OBVIOUS
<1>5. z \in Seq(PlainOp) BY <1>3, <1>4, PlainShort
<1>6. work' = ops \o z BY <1>1, <1>2, <1>4 DEF Run
<1>7. work' \in Seq(PlainOp) BY <1>5, <1>6, PlainJoin
<1> QED BY <1>7, PlainAfter

LEMMA RunOne == ASSUME IInv, NEW a \in PlainOp, Run(<<a>>) PROVE Clears'
<1>1. PICK ops : ops = <<a>> OBVIOUS
<1>2. ops \in Seq(PlainOp) /\ Run(ops) BY <1>1, PlainShort
<1> QED BY <1>2, RunClears

LEMMA RunTwo == ASSUME IInv, NEW a \in PlainOp, NEW b \in PlainOp, Run(<<a, b>>) PROVE Clears'
<1>1. PICK ops : ops = <<a, b>> OBVIOUS
<1>2. ops \in Seq(PlainOp) /\ Run(ops) BY <1>1, PlainShort
<1> QED BY <1>2, RunClears

LEMMA ListClears ==
  ASSUME NEW a \in PlainOp, NEW b \in PlainOp, work' = <<a>> \/ work' = <<a, b>>
  PROVE  Clears'
BY PlainShort, PlainAfter

LEMMA NewClears ==
  ASSUME IInv, NEW p \in Visible, NEW o \in Object, NEW f,
         New(p, o) \/ (f \in Field /\ SetNew(p, f, o))
  PROVE  Clears'
<1>1. p \in Place /\ var[p] \in Object \cup {Null} BY SeenIs
<1>2. PICK c : c = Create(o) OBVIOUS
<1>3. c \in PlainOp BY <1>2, PlainOps
<1>4. CASE New(p, o)
  <2>1. PICK a \in Object \cup {Null} : a = o OBVIOUS
  <2>2. PICK t : t = Store(p, a) OBVIOUS
  <2>3. t \in PlainOp BY <1>1, <2>2, PlainOps
  <2>4. Run(<<c, t>>) BY <1>2, <1>4, <2>1, <2>2 DEF New
  <2> QED BY <1>3, <2>3, <2>4, RunTwo
<1>5. CASE f \in Field /\ SetNew(p, f, o)
  <2>1. PICK x \in Object : x = var[p] BY <1>1, <1>5 DEF SetNew
  <2>2. PICK t : t = Assign(x, f, o) OBVIOUS
  <2>3. t \in PlainOp BY <1>5, <2>2, PlainOps
  <2>4. Run(<<c, t>>) BY <1>2, <1>5, <2>1, <2>2 DEF SetNew
  <2> QED BY <1>3, <2>3, <2>4, RunTwo
<1> QED BY <1>4, <1>5

LEMMA CopyClears ==
  ASSUME IInv, NEW p \in Visible, NEW q \in Visible, NEW f, NEW g,
         \/ Copy(p, q) \/ Forget(p) \/ Swap(p, q)
         \/ f \in Field /\ (Load(p, q, f) \/ Set(p, f, q))
         \/ f \in Field /\ g \in Field /\ Advance(p, f, g)
  PROVE  Clears'
<1>1. /\ p \in Place /\ q \in Place /\ var[p] \in Object \cup {Null} /\ var[q] \in Object \cup {Null}
  BY SeenIs
<1>2. ASSUME NEW r \in Place, NEW b \in Object \cup {Null}, Run(<<Store(r, b)>>) PROVE Clears'
  <2>1. Store(r, b) \in PlainOp BY PlainOps
  <2> QED BY <1>2, <2>1, RunOne
<1>3. ASSUME NEW x \in Object, NEW h \in Field, NEW b \in Object, Run(<<Assign(x, h, b)>>) PROVE Clears'
  <2>1. Assign(x, h, b) \in PlainOp BY PlainOps
  <2> QED BY <1>3, <2>1, RunOne
<1>4. CASE Copy(p, q) BY <1>1, <1>2, <1>4 DEF Copy
<1>5. CASE Forget(p)
  <2>1. Null \in Object \cup {Null} OBVIOUS
  <2> QED BY <1>1, <1>2, <1>5, <2>1 DEF Forget
<1>6. CASE Swap(p, q)
  <2>1. Store(p, var[q]) \in PlainOp /\ Store(q, var[p]) \in PlainOp BY <1>1, PlainOps
  <2>2. Run(<<Store(p, var[q]), Store(q, var[p])>>) BY <1>6 DEF Swap
  <2> QED BY <2>1, <2>2, RunTwo
<1>7. CASE f \in Field /\ Load(p, q, f)
  <2>1. var[q] \in Object BY <1>1, <1>7 DEF Load
  <2>2. field[var[q]][f] \in Object \cup {Null} BY <1>7, <2>1 DEF IInv, TypeOK
  <2> QED BY <1>1, <1>2, <1>7, <2>2 DEF Load
<1>8. CASE f \in Field /\ Set(p, f, q)
  <2>1. var[p] \in Object /\ var[q] \in Object BY <1>1, <1>8 DEF Set
  <2> QED BY <1>3, <1>8, <2>1 DEF Set
<1>9. CASE f \in Field /\ g \in Field /\ Advance(p, f, g)
  <2>1. PICK x \in Object : x = var[p] BY <1>1, <1>9 DEF Advance
  <2>2. PICK y \in Object : y = field[x][f]
    <3>1. field[x][f] # Null BY <1>9, <2>1 DEF Advance
    <3> QED BY <1>9, <3>1 DEF IInv, TypeOK
  <2>3. PICK a \in Object : a = field[y][g]
    <3>1. field[y][g] # Null BY <1>9, <2>1, <2>2 DEF Advance
    <3> QED BY <1>9, <3>1 DEF IInv, TypeOK
  <2>4. Run(<<Assign(x, f, a)>>) BY <1>9, <2>1, <2>2, <2>3 DEF Advance
  <2> QED BY <1>3, <1>9, <2>4
<1> QED BY <1>4, <1>5, <1>6, <1>7, <1>8, <1>9

LEMMA SetNullClears ==
  ASSUME IInv, NEW p \in Visible, NEW f \in Field, SetNull(p, f)
  PROVE  Clears'
<1>1. var[p] \in Object BY SeenIs DEF SetNull
<1>2. PICK old \in Object : old = field[var[p]][f] BY <1>1 DEF SetNull, IInv, TypeOK
<1>3. Unref(old, 0) \in PlainOp BY PlainOps
<1>4. Run(<<Unref(old, 0)>>) BY <1>2 DEF SetNull
<1> QED BY <1>3, <1>4, RunOne

LEMMA ReturningClears ==
  ASSUME IInv, NEW p, NEW f, NEW o,
         \/ p \in Visible /\ (ReturnVar(p) \/ (f \in Field /\ ReturnItem(p, f)))
         \/ (o \in Object /\ ReturnNew(o)) \/ ReturnNothing
  PROVE  Clears'
<1>1. PICK ret, value, c :
        /\ ret \subseteq Object /\ value \in Value /\ c \in PlainOp
        /\ work' = <<Return(ret, value)>> \/ work' = <<c, Return(ret, value)>>
  <2>1. CASE p \in Visible /\ (ReturnVar(p) \/ (f \in Field /\ ReturnItem(p, f)))
    <3>1. PICK a \in Object : a = var[p] BY <2>1, SeenIs DEF ReturnVar, ReturnItem
    <3>2. p \in Place BY <2>1, SeenIs
    <3>3. CASE f \in Field /\ ReturnItem(p, f)
      <4>1. PICK ret, value, c : ret = {} /\ value = <<"slot", a, f>> /\ c = Create(a) OBVIOUS
      <4>2. value \in Value /\ c \in PlainOp BY <3>3, <4>1, PlainOps DEF Value
      <4>3. work' = <<Return(ret, value)>> BY <3>1, <3>3, <4>1 DEF ReturnItem
      <4> QED BY <4>1, <4>2, <4>3
    <3>4. CASE ReturnVar(p) /\ p[1] = 1
      <4>1. PICK v \in Variable : v = p[2] BY <3>2 DEF Place
      <4>2. PICK ret, value, c : ret = {} /\ value = <<"variable", v>> /\ c = Create(a) OBVIOUS
      <4>3. value \in Value /\ c \in PlainOp BY <4>2, PlainOps DEF Value
      <4>4. work' = <<Return(ret, value)>> BY <3>4, <4>1, <4>2 DEF ReturnVar
      <4> QED BY <4>2, <4>3, <4>4
    <3>5. CASE ReturnVar(p) /\ p[1] # 1
      <4>1. PICK ret, value, c : ret = {a} /\ value = <<"object", a>> /\ c = Create(a) OBVIOUS
      <4>2. value \in Value /\ c \in PlainOp BY <4>1, PlainOps DEF Value
      <4>3. work' = <<Return(ret, value)>> BY <3>1, <3>5, <4>1 DEF ReturnVar
      <4> QED BY <4>1, <4>2, <4>3
    <3> QED BY <2>1, <3>3, <3>4, <3>5
  <2>2. CASE o \in Object /\ ReturnNew(o)
    <3>1. PICK ret, value, c : ret = {o} /\ value = <<"object", o>> /\ c = Create(o) OBVIOUS
    <3>2. ret \subseteq Object /\ value \in Value /\ c \in PlainOp BY <2>2, <3>1, PlainOps DEF Value
    <3>3. work' = <<c, Return(ret, value)>> BY <2>2, <3>1 DEF ReturnNew
    <3> QED BY <3>2, <3>3
  <2>3. CASE ReturnNothing
    <3>1. PICK ret, value, c : ret = {} /\ value = <<"nothing">> /\ c = Unwind(Null) OBVIOUS
    <3>2. value \in Value /\ c \in PlainOp BY <3>1, PlainOps DEF Value
    <3>3. work' = <<Return(ret, value)>> BY <2>3, <3>1 DEF ReturnNothing
    <3> QED BY <3>1, <3>2, <3>3
  <2> QED BY <2>1, <2>2, <2>3
<1>2. Return(ret, value) \in PlainOp BY <1>1, PlainBlockOps
<1> QED BY <1>1, <1>2, ListClears

LEMMA EndClears == ASSUME IInv, Exit \/ Fail \/ CallFails PROVE Clears'
<1>1. CASE Exit
  <2>1. PICK ret : ret = {} OBVIOUS
  <2>2. ret \subseteq Object BY <2>1
  <2>3. PopScope(ret) \in PlainOp BY <2>2, PlainBlockOps
  <2>4. work' = <<PopScope(ret)>> BY <1>1, <2>1 DEF Exit
  <2> QED BY <2>3, <2>4, ListClears
<1>2. CASE Fail \/ CallFails
  <2>1. \E a \in Object \cup {Null} : \/ work' = <<Unwind(a)>>
                                     \/ \E o \in Object : work' = <<Create(o), Unwind(a)>>
    <3>1. CASE Fail BY <1>2, <3>1 DEF Fail
    <3>2. CASE CallFails
      <4>1. \A p \in Visible : var[p] \in Object \cup {Null} BY SeenIs
      <4> QED BY <3>2, <4>1 DEF CallFails
    <3> QED BY <1>2, <3>1, <3>2
  <2>2. PICK a \in Object \cup {Null} : \/ work' = <<Unwind(a)>>
                                        \/ \E o \in Object : work' = <<Create(o), Unwind(a)>>
    BY <2>1
  <2>3. Unwind(a) \in PlainOp /\ \A o \in Object : Create(o) \in PlainOp BY PlainOps
  <2> QED BY <2>2, <2>3, ListClears
<1> QED BY <1>1, <1>2

LEMMA EnterClears ==
  ASSUME IInv, NEW p, NEW to, NEW v, Enter \/ Call(to, p, v)
  PROVE  Clears'
<1>1. Ready /\ work' = work BY DEF Enter, Call
<1>2. work' = <<>> BY <1>1 DEF Ready
<1> QED BY <1>2, PlainShort, PlainAfter

(* What no variable and no slot holds cannot be reached.                   *)
LEMMA NotReached ==
  ASSUME IInv, NEW o \in Object, Slots(o) = {}, NEW S, S \subseteq Object, o \notin S
  PROVE  o \notin Reach(S)
<1>1. PICK R : R = Object \ {o} OBVIOUS
<1>2. \A x \in R : \A f \in Field : field[x][f] \in R \cup {Null}
  <2> SUFFICES ASSUME NEW x \in R, NEW f \in Field, field[x][f] = o PROVE FALSE
    BY <1>1 DEF IInv, TypeOK
  <2>1. <<x, f>> \in Slots(o) BY <1>1 DEF Slots
  <2> QED BY <2>1
<1>3. Closed(R) BY <1>2 DEF Closed
<1>4. R \subseteq Object /\ S \subseteq R BY <1>1
<1>5. Reach(S) \subseteq R BY <1>3, <1>4, ReachWithin
<1> QED BY <1>1, <1>5

LEMMA RootsHeld ==
  ASSUME IInv
  PROVE  /\ Roots \subseteq Object /\ \A o \in Roots : HeldIn(o)
         /\ SavedObjects \subseteq Object /\ \A o \in SavedObjects : HeldIn(o)
<1>1. \A p \in Place : var[p] \in Object \cup {Null} BY DEF IInv, TypeOK
<1>2. \A v \in Saved : <<1, v>> \in Place BY FramesIs, SavedAssumption DEF Place
<1>3. SavedObjects \subseteq Object /\ \A o \in SavedObjects : HeldIn(o)
  BY <1>1, <1>2 DEF SavedObjects, HeldIn
<1>4. Roots = SavedObjects \/ Roots = {var[p] : p \in Place} \ {Null} BY DEF Roots, SavedObjects
<1>5. CASE Roots = SavedObjects BY <1>3, <1>5
<1>6. CASE Roots = {var[p] : p \in Place} \ {Null} BY <1>1, <1>3, <1>6 DEF HeldIn
<1> QED BY <1>4, <1>5, <1>6

LEMMA GlobalClears == ASSUME "saved" \in Rules, IInv, ClearGlobalVariables PROVE Clears'
<1>1. /\ Ready /\ var' = var /\ field' = field /\ stray' = stray
      /\ \A o \in Reach(SavedObjects) : ~Lonely(o)
      /\ work' = <<Deref, Globals, Sweep(1, {})>>
  BY DEF ClearGlobalVariables, SavedObjects, share
<1>2. Covered
  <2> SUFFICES ASSUME NEW y \in Reach(SavedObjects), ~Claimed(y) PROVE FALSE BY DEF Covered
  <2>1. y \in Object BY DEF Reach
  <2>2. Given(y) = 0 BY <1>1, IdleIs
  <2>3. Slots(y) = {} BY <1>1, <2>1, <2>2, LonelyNotHeld
  <2>4. y \notin SavedObjects /\ SavedObjects \subseteq Object BY RootsHeld DEF Claimed
  <2>5. PICK S : S = SavedObjects OBVIOUS
  <2>6. y \notin Reach(S) BY <2>1, <2>3, <2>4, <2>5, NotReached
  <2> QED BY <2>5, <2>6
<1>3. Covered' BY <1>1, <1>2 DEF Covered, Claimed, HeldIn, SavedObjects, Reach, Closed
<1>4. PICK d, g, s : d = Deref /\ g = Globals /\ s = Sweep(1, {}) OBVIOUS
<1>5. d.op = "deref" /\ g.op = "globals" /\ s.op = "sweep" BY <1>4 DEF Deref, Globals, Sweep
<1>6. work' = <<d, g, s>> BY <1>1, <1>4
<1>7. PICK n \in Nat : n = 3 OBVIOUS
<1>8. Len(work') = n /\ work'[1] = d /\ work'[2] = g /\ work'[3] = s BY <1>6, <1>7
<1>9. ASSUME NEW i \in 1 .. Len(work'), NEW e, e = work'[i] PROVE ClearIs(e, i)'
  <2>1. i = 1 \/ i = 2 \/ i = 3 BY <1>7, <1>8
  <2>2. e.op # "unlink" /\ (e.op = "deref" => i = 1) BY <1>5, <1>8, <1>9, <2>1
  <2>3. i = 1 => i = Len(work') - 2 /\ \A j \in 1 .. i - 1 : FALSE BY <1>7, <1>8
  <2> QED BY <1>3, <2>2, <2>3 DEF ClearIs
<1> QED BY <1>9 DEF Clears

LEMMA StatementClears == ASSUME "saved" \in Rules, IInv, Statement PROVE Clears'
<1>1. ASSUME NEW p \in Visible,
             \/ \E o \in Object : New(p, o) \/ \E f \in Field : SetNew(p, f, o)
             \/ \E q \in Visible :
                  \/ Copy(p, q)
                  \/ Swap(p, q)
                  \/ \E f \in Field : Load(p, q, f) \/ Set(p, f, q)
             \/ \E f, g \in Field : Advance(p, f, g)
             \/ \E f \in Field : SetNull(p, f) \/ ReturnItem(p, f)
             \/ Forget(p)
             \/ ReturnVar(p)
             \/ \E to \in Visible \union {Null}, v \in Variable : Call(to, p, v)
      PROVE  Clears'
  <2>1. CASE \E o \in Object : New(p, o) \/ \E f \in Field : SetNew(p, f, o) BY <2>1, NewClears
  <2>2. CASE \E q \in Visible : \/ Copy(p, q) \/ Swap(p, q)
                               \/ \E f \in Field : Load(p, q, f) \/ Set(p, f, q)
    BY <2>2, CopyClears
  <2>3. CASE Forget(p) \/ \E f, g \in Field : Advance(p, f, g) BY <2>3, CopyClears
  <2>4. CASE \E f \in Field : SetNull(p, f) BY <2>4, SetNullClears
  <2>5. CASE (\E f \in Field : ReturnItem(p, f)) \/ ReturnVar(p) BY <2>5, ReturningClears
  <2>6. CASE \E to \in Visible \union {Null}, v \in Variable : Call(to, p, v) BY <2>6, EnterClears
  <2> QED BY <1>1, <2>1, <2>2, <2>3, <2>4, <2>5, <2>6
<1>2. CASE (\E o \in Object : ReturnNew(o)) \/ ReturnNothing BY <1>2, ReturningClears
<1>3. CASE Enter BY <1>3, EnterClears
<1>4. CASE Exit \/ Fail \/ CallFails \/ ClearGlobalVariables BY <1>4, EndClears, GlobalClears
<1> QED BY <1>1, <1>2, <1>3, <1>4 DEF Statement

(* Which steps change a field.                                             *)
LEMMA FieldMoves ==
  ASSUME IInv, Clears, [Next]_vars, NEW x \in Reachable, field'[x] # field[x]
  PROVE  Ready \/ Does("assign") \/ Does("link")
<1>1. x \in Object /\ x \in Reach(Roots) BY DEF Reachable, Reach
<1>2. field' # field BY DEF Reachable
<1>3. CASE DoDestroy
  <2>1. Current = work[1] /\ work[1].op = "destroy" /\ work[1] \in Op /\ Len(work) >= 1 /\ Len(work) \in Nat
    BY <1>3, FrontIs DEF DoDestroy
  <2>2. PICK o \in Object : o = Current.obj BY <2>1, OpIs
  <2>3. 1 \in 1 .. Len(work) BY <2>1
  <2>4. o \in Dying BY <2>1, <2>2, <2>3, DyingHas DEF Has
  <2>5. ~HeldIn(o) /\ Slots(o) = {} BY <2>4, HeldLives DEF HeldIn
  <2>6. PICK S : S = Roots OBVIOUS
  <2>7. S \subseteq Object /\ o \notin S BY <2>5, <2>6, RootsHeld
  <2>8. o \notin Reach(S) BY <2>5, <2>7, NotReached
  <2>9. \A y \in Object : y # o => field'[y] = field[y]
    <3>1. \/ field' = field
          \/ \E f \in Field : field' = [field EXCEPT ![o][f] = Null]
      BY <1>3, <2>2 DEF DoDestroy, RemoveSlot
    <3> QED BY <3>1 DEF IInv, TypeOK
  <2> QED BY <1>1, <2>6, <2>8, <2>9
<1>4. CASE DoUnlink
  <2>1. Current = work[1] /\ work[1].op = "unlink" /\ work[1] \in Op /\ Len(work) >= 1 /\ Len(work) \in Nat
    BY <1>4, FrontIs DEF DoUnlink
  <2>2. PICK o \in Object : o = Current.obj BY <2>1, OpIs
  <2>3. PICK s \in Slots(o) : field' = [field EXCEPT ![s[1]][s[2]] = Null] BY <1>2, <1>4, <2>2 DEF DoUnlink
  <2>4. s[1] \in Object /\ s[2] \in Field /\ field[s[1]][s[2]] = o BY DEF Slots
  <2>5. x = s[1] BY <1>1, <2>3, <2>4 DEF IInv, TypeOK
  <2>6. ClearIs(work[1], 1)
    <3>1. 1 \in 1 .. Len(work) BY <2>1
    <3> QED BY <3>1 DEF Clears
  <2>7. ~Claimed(o) /\ \E j \in 2 .. Len(work) : work[j].op = "deref" BY <2>1, <2>2, <2>6 DEF ClearIs
  <2>8. PICK j \in 1 .. Len(work) : work[j].op = "deref" BY <2>7
  <2>9. Covered
    <3>1. ClearIs(work[j], j) BY DEF Clears
    <3> QED BY <2>8, <3>1 DEF ClearIs
  <2>10. Roots = SavedObjects
    <3>1. work \in Seq(Op) BY DEF IInv, WorkAre
    <3>2. j \in DOMAIN work BY <3>1, SeqIs
    <3>3. Clearing BY <2>8, <3>2 DEF Clearing, Pending
    <3> QED BY <3>3 DEF Roots, SavedObjects
  <2>11. o \in Reach(SavedObjects)
    <3>1. PICK S : S = SavedObjects OBVIOUS
    <3>2. x \in Reach(S) BY <1>1, <2>10, <3>1
    <3>3. field[x][s[2]] # Null BY <2>4, <2>5, NullAssumption
    <3>4. field[x][s[2]] \in Reach(S) BY <2>4, <3>2, <3>3, ReachClosed DEF IInv, TypeOK
    <3> QED BY <2>4, <2>5, <3>1, <3>4
  <2> QED BY <2>7, <2>9, <2>11 DEF Covered
<1>5. CASE Statement
  <2>1. (Enter \/ Exit \/ ReturnNothing \/ Fail \/ CallFails \/ ClearGlobalVariables) => Ready
    BY DEF Enter, Exit, Returning, ReturnNothing, Fail, CallFails, ClearGlobalVariables
  <2>2. \A o : ReturnNew(o) => Ready BY DEF ReturnNew, Returning
  <2>3. \A p, o : New(p, o) => Ready BY DEF New
  <2>4. \A p, f, o : SetNew(p, f, o) => Ready BY DEF SetNew
  <2>5. \A p, q : Copy(p, q) \/ Swap(p, q) => Ready BY DEF Copy, Swap
  <2>6. \A p, f, q : Load(p, q, f) \/ Set(p, f, q) => Ready BY DEF Load, Set
  <2>7. \A p, f, g : Advance(p, f, g) => Ready BY DEF Advance
  <2>8. \A p, f : SetNull(p, f) \/ ReturnItem(p, f) => Ready BY DEF SetNull, ReturnItem, Returning
  <2>9. \A p : Forget(p) \/ ReturnVar(p) => Ready BY DEF Forget, ReturnVar, Returning
  <2>10. \A to, q, v : Call(to, q, v) => Ready BY DEF Call
  <2> QED BY <1>5, <2>1, <2>2, <2>3, <2>4, <2>5, <2>6, <2>7, <2>8, <2>9, <2>10 DEF Statement
<1>6. CASE Step /\ ~DoDestroy /\ ~DoUnlink
  <2>1. DoAssign \/ DoLink
    BY <1>2, <1>6 DEF Step, DoCreate, DoStore, DoUnref, DoSweep, DoPop, DoReturn, DoStrand, DoUnwind, DoDeref,
       DoGlobals
  <2> QED BY <2>1 DEF DoAssign, DoLink
<1>7. CASE UNCHANGED vars BY <1>2, <1>7 DEF vars
<1> QED BY <1>3, <1>4, <1>5, <1>6, <1>7 DEF Next

(* Collection is invisible: when what the saved variables reach is also    *)
(* held by variables, no sweep, end of a scope or clear of the globals     *)
(* changes a field of an object that the script can still name.            *)
THEOREM CollectionStaysInvisible ==
  ASSUME "saved" \in Rules
  PROVE  Spec => CollectionInvisible
<1>1. Init => Clears
  <2> SUFFICES ASSUME Init PROVE Clears OBVIOUS
  <2>1. work \in Seq(PlainOp) BY PlainShort DEF Init
  <2> QED BY <2>1, PlainClears
<1>2. IInv /\ Clears /\ [Next]_vars => Clears'
  <2> SUFFICES ASSUME IInv, Clears, [Next]_vars PROVE Clears' OBVIOUS
  <2>1. CASE Step BY <2>1, StepClears
  <2>2. CASE Statement BY <2>2, StatementClears
  <2>3. CASE UNCHANGED vars BY <2>3, ClearsSame DEF vars, share
  <2> QED BY <2>1, <2>2, <2>3 DEF Next
<1>3. IInv /\ Clears /\ [Next]_vars
        => [\A x \in Reachable : field'[x] # field[x] => Ready \/ Does("assign") \/ Does("link")]_vars
  BY FieldMoves
<1> QED BY <1>1, <1>2, <1>3, HeapInvariant, PTL DEF Spec, CollectionInvisible
-----------------------------------------------------------------------------
(* Scripts that keep to the rules.  What is about to be stored, or to be   *)
(* taken by a call that does not start, can be shared; the slots about to  *)
(* be assigned are in objects that variables hold; and what is returned    *)
(* outlives the blocks that are popped.                                    *)
KeepsRules == {"swap", "advance", "return", "item"} \subseteq Rules

Wanted(e) == IF e.op = "unwind" THEN e.arg ELSE e.obj   \* what an entry will share
Storing(e) == e.op \in {"store", "unwind"} /\ Wanted(e) # Null
Assigning(e) == e.op \in {"assign", "link"}
Firm(o) == n_shares[o] > 1 \/ created[o] = depth
Fresh(o) == created[o] # 0 /\ home[o] = created[o]
StoreIs(e, i) ==
  Storing(e) =>
    \/ i = 1 /\ CanShare(Wanted(e))
    \/ i = 2 /\ Creates(Wanted(e))
    \/ i = 2 /\ CanShare(Wanted(e)) /\ Firm(Wanted(e)) /\ First("store") /\ var[work[1].at] = Wanted(e)
    \/ i = 2 /\ CanShare(Wanted(e)) /\ Firm(Wanted(e)) /\ First("unref") /\ work[1].obj = Wanted(e)
             /\ work[1].block = depth
AssignIs(e, i) ==
  Assigning(e) =>
    /\ \A j \in 1 .. i - 1 : work[j].op \in {"create", "unref", "destroy"}
    /\ HeldIn(e.slot[1])
    /\ HeldIn(e.obj) \/ Fresh(e.obj) \/ Creates(e.obj)
ListSafe == \A i \in 1 .. Len(work) : StoreIs(work[i], i) /\ AssignIs(work[i], i)

Safe(o) == Slots(o) = {} /\ o \in live \ Dying /\ (Given(o) = 1 => n_shares[o] > 1)
ObjectIs(o) == Creates(o) \/ o \in HeldBelow(base) \/ Safe(o)
SlotIs(x, f) == x \in HeldBelow(base) /\ field[x][f] # Null
ResultIs(e) == /\ e.value[1] = "object" => ObjectIs(e.value[2])
               /\ e.value[1] = "slot" => SlotIs(e.value[2], e.value[3])
ResultSafe == Ends("return") => ResultIs(Last)

SafeInv == fault = FALSE /\ ListSafe /\ ResultSafe

(* Where the entries of work are after a step.                             *)
LEMMA EntriesAre ==
  ASSUME IInv, NEW ops \in Seq(Op), NEW d \in {0, 1}, d <= Len(work), After(ops, d),
         NEW i \in 1 .. Len(work')
  PROVE  \/ i \in 1 .. Len(ops) /\ work'[i] = ops[i]
         \/ \E k \in 1 + d .. Len(work) : work'[i] = work[k] /\ i = k + Len(ops) - d
<1>1. PICK m \in Nat : m = Len(ops) BY SeqIs
<1>2. PICK n \in Nat : n = Len(work) BY SeqIs DEF IInv, WorkAre
<1>3. /\ Len(work') = m + n - d /\ \A k \in 1 .. m : work'[k] = ops[k]
      /\ \A k \in m + 1 .. Len(work') : work'[k] = work[k - m + d]
  BY <1>1, <1>2 DEF After
<1>4. i \in Nat /\ i >= 1 /\ i <= m + n - d BY <1>2, <1>3
<1>5. CASE i <= m BY <1>1, <1>3, <1>4, <1>5
<1>6. CASE i > m
  <2>1. i \in m + 1 .. Len(work') BY <1>3, <1>4, <1>6
  <2>2. PICK k \in 1 + d .. n : k = i - m + d /\ i = k + m - d BY <1>2, <1>4, <1>6
  <2>3. work'[i] = work[k] BY <1>3, <2>1, <2>2
  <2> QED BY <1>1, <1>2, <2>2, <2>3
<1>7. i <= m \/ i > m BY <1>4
<1> QED BY <1>5, <1>6, <1>7

(* Steps of objects: what stays is as before.                              *)
LEMMA ListKept ==
  ASSUME IInv, ListSafe, NEW ops \in Seq(Op), NEW d \in {0, 1}, d <= Len(work), After(ops, d), var' = var,
         \A i \in 1 .. Len(ops) : ops[i].op \in {"create", "unref", "destroy"},
         \A k \in 1 + d .. Len(work) : \A e : e = work[k] /\ Storing(e) => StoreIs(e, k + Len(ops) - d)',
         \A y \in Object : Fresh(y) \/ Creates(y) => Fresh(y)' \/ Creates(y)'
  PROVE  ListSafe'
<1>1. PICK m \in Nat : m = Len(ops) BY SeqIs
<1>2. PICK n \in Nat : n = Len(work) /\ work \in Seq(Op) BY SeqIs DEF IInv, WorkAre
<1>3. /\ Len(work') = m + n - d /\ \A k \in 1 .. m : work'[k] = ops[k]
      /\ \A k \in m + 1 .. Len(work') : work'[k] = work[k - m + d]
  BY <1>1, <1>2 DEF After
<1>4. \A y : HeldIn(y)' <=> HeldIn(y) BY DEF HeldIn
<1>5. ASSUME NEW i \in 1 .. Len(work'), NEW e, e = work'[i]
      PROVE  StoreIs(e, i)' /\ AssignIs(e, i)'
  <2>1. CASE i \in 1 .. Len(ops) /\ e = ops[i] BY <2>1 DEF StoreIs, AssignIs, Storing, Assigning, Wanted
  <2>2. CASE \E k \in 1 + d .. Len(work) : e = work[k] /\ i = k + Len(ops) - d
    <3>1. PICK k \in 1 + d .. n : e = work[k] /\ i = k + m - d BY <1>1, <1>2, <2>2
    <3>2. k \in 1 .. Len(work) BY <1>2, <3>1
    <3>3. StoreIs(e, k) /\ AssignIs(e, k) /\ e \in Op BY <1>2, <3>1, <3>2, SeqIs DEF ListSafe
    <3>4. StoreIs(e, i)'
      <4>1. Storing(e) => StoreIs(e, k + Len(ops) - d)' BY <1>2, <3>1
      <4>2. i = k + Len(ops) - d BY <1>1, <3>1
      <4> QED BY <4>1, <4>2 DEF StoreIs, Storing, Wanted
    <3>5. ASSUME Assigning(e) PROVE AssignIs(e, i)'
      <4>1. /\ \A j \in 1 .. k - 1 : work[j].op \in {"create", "unref", "destroy"}
            /\ HeldIn(e.slot[1])
            /\ HeldIn(e.obj) \/ Fresh(e.obj) \/ Creates(e.obj)
        BY <3>3, <3>5 DEF AssignIs
      <4>2. e.obj \in Object BY <3>3, <3>5, OpIs DEF Assigning
      <4>3. ASSUME NEW j \in 1 .. i - 1 PROVE work'[j].op \in {"create", "unref", "destroy"}
        <5>1. CASE j <= m
          <6>1. j \in 1 .. m BY <3>1, <5>1
          <6> QED BY <1>1, <1>3, <6>1
        <5>2. CASE j > m
          <6>1. i \in Int /\ i >= 1 /\ i <= Len(work') /\ j \in Int /\ j <= i - 1 /\ k \in Int /\ k <= n
            <7>1. d \in Int OBVIOUS
            <7>2. Len(work') = m + n - d BY <1>3
            <7>3. Len(work') \in Int BY <7>1, <7>2
            <7> QED BY <7>1, <7>3
          <6>2. j \in m + 1 .. Len(work')
            <7>1. Len(work') = m + n - d BY <1>3
            <7> QED BY <5>2, <6>1, <7>1
          <6>3. j - m + d \in 1 .. k - 1
            <7>1. d = 0 \/ d = 1 OBVIOUS
            <7>2. i = k + m - d BY <3>1
            <7> QED BY <5>2, <6>1, <7>1, <7>2
          <6> QED BY <1>3, <4>1, <6>2, <6>3
        <5> QED BY <3>1, <5>1, <5>2
      <4>4. HeldIn(e.slot[1])' BY <1>4, <4>1
      <4>5. HeldIn(e.obj)' \/ Fresh(e.obj)' \/ Creates(e.obj)' BY <1>4, <4>1, <4>2
      <4> QED BY <4>3, <4>4, <4>5 DEF AssignIs
    <3> QED BY <3>4, <3>5 DEF AssignIs
  <2> QED BY <1>5, <2>1, <2>2, EntriesAre
<1> QED BY <1>5 DEF ListSafe

(* Entries that neither store an object nor assign.                        *)
QuietOp == {e \in Op : ~Storing(e) /\ ~Assigning(e)}

LEMMA QuietSafe == ASSUME work \in Seq(QuietOp) PROVE ListSafe
<1>1. \A i \in 1 .. Len(work) : work[i] \in QuietOp BY SeqIs
<1> QED BY <1>1 DEF ListSafe, StoreIs, AssignIs, QuietOp

LEMMA QuietAfter == (work \in Seq(QuietOp) => ListSafe)'
<1>1. work \in Seq(QuietOp) => ListSafe BY QuietSafe
<1> QED BY <1>1, PTL

LEMMA QuietShort ==
  /\ <<>> \in Seq(QuietOp)
  /\ \A a \in QuietOp : <<a>> \in Seq(QuietOp)
  /\ \A a, b \in QuietOp : <<a, b>> \in Seq(QuietOp)
  /\ \A a, b, c \in QuietOp : <<a, b, c>> \in Seq(QuietOp)
OBVIOUS

LEMMA QuietWork ==
  ASSUME IInv, ListSafe,
         work = <<>> \/ (/\ work[1].op \notin {"create", "store", "unref", "destroy", "assign", "link"}
                         /\ ~Storing(work[1]))
  PROVE  work \in Seq(QuietOp)
<1>1. work \in Seq(Op) /\ Len(work) \in Nat BY SeqIs DEF IInv, WorkAre
<1>2. ASSUME NEW i \in 1 .. Len(work) PROVE ~Storing(work[i]) /\ ~Assigning(work[i])
  <2>1. StoreIs(work[i], i) /\ AssignIs(work[i], i) BY DEF ListSafe
  <2>2. work # <<>> BY <1>1
  <2>3. work[1].op \notin {"create", "store", "unref", "destroy", "assign", "link"} /\ ~Storing(work[1]) BY <2>2
  <2>4. CASE i = 1 BY <2>3, <2>4 DEF Assigning
  <2>5. CASE i # 1
    <3>1. 1 \in 1 .. i - 1 BY <1>1, <2>5
    <3>2. ~Assigning(work[i]) BY <2>1, <2>3, <3>1 DEF AssignIs
    <3>3. ~Storing(work[i]) BY <2>1, <2>3, <2>5 DEF StoreIs, First, Creates
    <3> QED BY <3>2, <3>3
  <2> QED BY <2>4, <2>5
<1>3. \A i \in 1 .. Len(work) : work[i] \in QuietOp BY <1>1, <1>2, SeqIs DEF QuietOp
<1> QED BY <1>1, <1>3, IsASeq

LEMMA QuietThen ==
  ASSUME work \in Seq(QuietOp), work # <<>>, NEW ops \in Seq(QuietOp),
         Then(ops) \/ work' = ops \o work
  PROVE  ListSafe'
<1>1. Tail(work) \in Seq(QuietOp) BY TailIs
<1>2. work' \in Seq(QuietOp) BY <1>1, ConcatProperties DEF Then
<1> QED BY <1>2, QuietAfter

(* What is returned.                                                       *)
LEMMA EndThen ==
  ASSUME IInv, NEW ops \in Seq(Op), Then(ops), work # <<>>, \A i \in 1 .. Len(ops) : ops[i].op # "return"
  PROVE  Ends("return")' => Ends("return") /\ Last' = Last
<1>1. work \in Seq(Op) BY DEF IInv, WorkAre
<1>2. After(ops, 1) /\ Len(work) > 0 BY <1>1, ThenIs
<1>3. Len(work) \in Nat /\ Len(ops) \in Nat BY <1>1, SeqIs
<1>4. CASE Len(work) > 1
  <2>1. PICK d \in {0, 1} : d = 1 OBVIOUS
  <2>2. d < Len(work) /\ After(ops, d) BY <1>2, <1>4, <2>1
  <2> QED BY <1>1, <2>2, LastAfter
<1>5. CASE Len(work) = 1
  <2>1. Len(work') = Len(ops) /\ \A i \in 1 .. Len(ops) : work'[i] = ops[i]
    BY <1>2, <1>3, <1>5 DEF After
  <2>2. work' \in Seq(Op) BY <1>2 DEF After
  <2>3. work' # <<>> => Len(work') # 0 BY <2>2, EmptySeq
  <2>4. Ends("return")' => Len(ops) \in 1 .. Len(ops) BY <1>3, <2>1, <2>3 DEF Ends
  <2> QED BY <2>1, <2>4 DEF Ends, Last
<1>6. Len(work) = 1 \/ Len(work) > 1
  <2>1. PICK n \in Nat : n = Len(work) BY <1>3
  <2>2. n >= 1 BY <1>2, <2>1
  <2> QED BY <2>1, <2>2
<1> QED BY <1>4, <1>5, <1>6

LEMMA EndPush ==
  ASSUME IInv, NEW ops \in Seq(Op), work' = ops \o work, work # <<>>
  PROVE  Ends("return")' => Ends("return") /\ Last' = Last
<1>1. work \in Seq(Op) BY DEF IInv, WorkAre
<1>2. Len(work) \in Nat /\ Len(work) > 0 BY <1>1, TailIs, SeqIs
<1>3. PICK d \in {0, 1} : d = 0 OBVIOUS
<1>4. After(ops, d) /\ d < Len(work) BY <1>1, <1>2, <1>3, PushedIs
<1> QED BY <1>1, <1>4, LastAfter

LEMMA ResultKept ==
  ASSUME IInv, ResultSafe, Ends("return")' => Ends("return") /\ Last' = Last,
         \A x \in Object, f \in Field : SlotIs(x, f) => SlotIs(x, f)',
         \A o \in Object : Ends("return") /\ Last.value = <<"object", o>> /\ ObjectIs(o) => ObjectIs(o)'
  PROVE  ResultSafe'
<1> SUFFICES ASSUME Ends("return")' PROVE ResultIs(Last)' BY DEF ResultSafe
<1>1. PICK e : e = Last OBVIOUS
<1>2. Ends("return") /\ Last' = e /\ ResultIs(e) BY <1>1 DEF ResultSafe
<1>3. work \in Seq(Op) /\ Len(work) \in Nat BY SeqIs DEF IInv, WorkAre
<1>4. Len(work) \in 1 .. Len(work) /\ e.op = "return" BY <1>1, <1>2, <1>3, EmptySeq DEF Ends
<1>5. e \in Op BY <1>1, <1>3, <1>4, SeqIs DEF Last
<1>6. PICK v \in Value : v = e.value BY <1>4, <1>5, OpIs
<1>7. v[1] = "object" => ObjectIs(v[2])'
  <2> SUFFICES ASSUME v[1] = "object" PROVE ObjectIs(v[2])' OBVIOUS
  <2>1. PICK o \in Object : o = v[2] /\ v = <<"object", o>> BY ValueIs
  <2>2. ObjectIs(o) BY <1>2, <1>6, <2>1 DEF ResultIs
  <2> QED BY <1>1, <1>2, <1>6, <2>1, <2>2
<1>8. v[1] = "slot" => SlotIs(v[2], v[3])'
  <2> SUFFICES ASSUME v[1] = "slot" PROVE SlotIs(v[2], v[3])' OBVIOUS
  <2>1. v[2] \in Object /\ v[3] \in Field BY ValueIs
  <2> QED BY <1>2, <1>6, <2>1 DEF ResultIs
<1>9. ResultIs(e)' BY <1>6, <1>7, <1>8 DEF ResultIs
<1> QED BY <1>2, <1>9

LEMMA BelowSame ==
  ASSUME var' = var, field' = field, frames' = frames
  PROVE  HeldBelow(base)' = HeldBelow(base)
BY DEF HeldBelow, Reach, Closed, base

LEMMA ResultStays ==
  ASSUME IInv, ResultSafe, Ends("return")' => Ends("return") /\ Last' = Last,
         var' = var, field' = field, frames' = frames,
         \A o \in Object : Ends("return") /\ Last.value = <<"object", o>> /\ (Creates(o) \/ Safe(o))
                             => Creates(o)' \/ Safe(o)'
  PROVE  ResultSafe'
<1>1. HeldBelow(base)' = HeldBelow(base) BY BelowSame
<1>2. \A x \in Object, f \in Field : SlotIs(x, f) => SlotIs(x, f)' BY <1>1 DEF SlotIs
<1>3. \A o \in Object : Ends("return") /\ Last.value = <<"object", o>> /\ ObjectIs(o) => ObjectIs(o)'
  BY <1>1 DEF ObjectIs
<1> QED BY <1>2, <1>3, ResultKept

LEMMA CreateSafe == ASSUME IInv, SafeInv, DoCreate PROVE SafeInv'
<1>1. PICK o : o = Current.obj OBVIOUS
<1>2. /\ created' = [created EXCEPT ![o] = depth] /\ home' = [home EXCEPT ![o] = depth]
      /\ n_shares' = n_shares /\ Then(<<>>) /\ Does("create")
      /\ UNCHANGED <<live, var, field, cyclic, depth, frames, fault>>
  BY <1>1 DEF DoCreate
<1>3. /\ work[1].op = "create" /\ work[1].obj = o /\ work[1] \in Op /\ Len(work) > 1 /\ Len(work) \in Nat
      /\ (\A y : Given(y) = 0) /\ First("create") /\ work # <<>>
  BY <1>1, <1>2, FrontIs
<1>4. o \in Object /\ \A y : Creates(y) <=> y = o BY <1>3, OpIs DEF Creates
<1>5. PICK ops : ops = <<>> OBVIOUS
<1>6. ops \in Seq(Op) /\ Len(ops) = 0 /\ Then(ops) BY <1>2, <1>5, NoOps
<1>7. After(ops, 1) /\ Stays(ops, 1) BY <1>3, <1>6, ThenStays
<1>8. /\ o \in live /\ created[o] = 0 /\ n_shares[o] = 0 /\ o \notin Dying /\ Slots(o) = {}
  <2>1. KindIs(o) BY <1>4 DEF IInv, KindsAre
  <2>2. n_shares[o] = Cardinality(Holding(o)) + Cardinality(Slots(o)) + 0 + stray[o]
    BY <1>3, <1>4 DEF IInv, CountsAre, CountIs
  <2>3. n_shares[o] = 0 BY <1>4, <2>1 DEF KindIs
  <2>4. Cardinality(Slots(o)) = 0
    <3>1. PICK h \in Nat : h = Cardinality(Holding(o)) BY <1>4, HoldersCounted
    <3>2. PICK s \in Nat : s = Cardinality(Slots(o)) BY <1>4, HoldersCounted
    <3>3. PICK t \in Nat : t = stray[o] BY <1>4, StrayIs
    <3>4. h + s + t = 0 BY <2>2, <2>3, <3>1, <3>2, <3>3
    <3>5. s = 0 BY <3>4
    <3> QED BY <3>2, <3>5
  <2> QED BY <1>4, <2>1, <2>3, <2>4, HoldersCounted DEF KindIs
<1>9. /\ depth \in Block /\ depth # 0
      /\ created'[o] = depth /\ home'[o] = depth
      /\ \A y \in Object : y # o => created'[y] = created[y] /\ home'[y] = home[y]
  BY <1>2, <1>4, FramesIs DEF IInv, TypeOK
<1>10. CanShare(o)' /\ Fresh(o)' BY <1>2, <1>8, <1>9 DEF CanShare, Fresh
<1>11. ListSafe'
  <2>1. PICK d \in {0, 1} : d = 1 OBVIOUS
  <2>2. After(ops, d) /\ d <= Len(work) BY <1>3, <1>7, <2>1
  <2>3. ASSUME NEW k \in 1 + d .. Len(work), NEW e, e = work[k], Storing(e)
        PROVE  StoreIs(e, k + Len(ops) - d)'
    <3>1. k \in 1 .. Len(work) /\ k # 1 BY <1>3, <2>1
    <3>2. StoreIs(e, k) BY <2>3, <3>1 DEF SafeInv, ListSafe
    <3>3. k = 2 /\ Creates(Wanted(e)) BY <1>3, <2>3, <3>1, <3>2 DEF StoreIs, First
    <3>4. Wanted(e) = o BY <1>4, <3>3
    <3>5. k + Len(ops) - d = 1 BY <1>6, <2>1, <3>3
    <3> QED BY <1>10, <3>4, <3>5 DEF StoreIs
  <2>4. \A y \in Object : Fresh(y) \/ Creates(y) => Fresh(y)'
    BY <1>4, <1>9, <1>10 DEF Fresh
  <2>5. \A i \in 1 .. Len(ops) : FALSE BY <1>6
  <2> QED BY <1>2, <1>6, <2>2, <2>3, <2>4, <2>5, ListKept DEF SafeInv
<1>12. ResultSafe'
  <2>1. Ends("return")' => Ends("return") /\ Last' = Last
    <3>1. \A i \in 1 .. Len(ops) : ops[i].op # "return" BY <1>6
    <3> QED BY <1>3, <1>6, <3>1, EndThen
  <2>2. ASSUME NEW y \in Object, Creates(y) \/ Safe(y) PROVE Safe(y)'
    <3>1. Slots(y) = {} /\ y \in live \ Dying BY <1>4, <1>8, <2>2 DEF Safe
    <3>2. Slots(y)' = Slots(y) BY <1>2, SameHolders
    <3>3. y \notin Dying'
      <4>1. ~Lists(ops, "destroy", y) BY <1>6 DEF Lists
      <4> QED BY <1>7, <3>1, <4>1 DEF Stays
    <3>4. Given(y)' = 0 BY <1>5, <1>7 DEF Stays
    <3> QED BY <1>2, <3>1, <3>2, <3>3, <3>4 DEF Safe
  <2> QED BY <1>2, <2>1, <2>2, ResultStays DEF SafeInv
<1> QED BY <1>2, <1>11, <1>12 DEF SafeInv

(* Nothing is returned while something is stored or assigned.              *)
LEMMA NoResult ==
  ASSUME IInv, NEW op, Does(op), op \in {"store", "assign", "link", "deref", "unlink", "globals"}
  PROVE  ~Ends("return") /\ Len(work) > 1
<1>1. EntryIs(work[1], 1) /\ work[1].op = op /\ Len(work) > 1 BY FrontIs
<1> QED BY <1>1 DEF EntryIs, Ends

LEMMA StoreSafe == ASSUME IInv, SafeInv, DoStore PROVE SafeInv'
<1>1. PICK p, o, old : p = Current.at /\ o = Current.obj /\ old = var[p] OBVIOUS
<1>2. /\ work[1].op = "store" /\ work[1].obj = o /\ work[1].at = p /\ work[1] \in Op /\ Len(work) > 1
      /\ Len(work) \in Nat /\ work # <<>> /\ First("store") /\ ~Ends("return") /\ work \in Seq(Op)
  BY <1>1, FrontIs, NoResult DEF DoStore
<1>3. p \in Place /\ o \in Object \cup {Null} /\ old \in Object \cup {Null}
  BY <1>1, <1>2, OpIs DEF IInv, TypeOK
<1>4. o # Null => CanShare(o)
  <2>1. StoreIs(work[1], 1)
    <3>1. 1 \in 1 .. Len(work) BY <1>2
    <3> QED BY <3>1 DEF SafeInv, ListSafe
  <2> QED BY <1>2, <2>1 DEF StoreIs, Storing, Wanted
<1>5. /\ fault' = fault /\ UNCHANGED <<live, field, cyclic, depth, frames>> /\ created' = created
      /\ \/ old = o /\ Then(<<>>) /\ UNCHANGED <<share, var>>
         \/ old # o /\ var' = [var EXCEPT ![p] = o] /\ Then(GiveUpOld(old))
            /\ (IF o = Null THEN UNCHANGED share ELSE Share(o))
  BY <1>1, <1>4 DEF DoStore, Share, TakeShare, share
<1>6. PICK ops : ops = IF old = o \/ old = Null THEN <<>> ELSE <<Unref(old, depth)>> OBVIOUS
<1>7. Then(ops) BY <1>5, <1>6 DEF GiveUpOld
<1>8. /\ ops \in Seq(Op)
      /\ old = o \/ old = Null => Len(ops) = 0
      /\ ~(old = o \/ old = Null) => /\ Len(ops) = 1 /\ ops[1].op = "unref" /\ ops[1].obj = old
                                     /\ ops[1].block = depth
  <2>1. CASE old = o \/ old = Null BY <1>6, <2>1, NoOps
  <2>2. CASE ~(old = o \/ old = Null)
    <3>1. depth \in Block /\ old \in Object BY <1>3, <2>2, FramesIs
    <3>2. PICK u : u = Unref(old, depth) OBVIOUS
    <3>3. u \in Op /\ u.op = "unref" /\ u.obj = old /\ u.block = depth BY <3>1, <3>2, ObjectOps
    <3>4. ops = <<u>> BY <1>6, <2>2, <3>2
    <3> QED BY <2>2, <3>3, <3>4, OneOp
  <2> QED BY <2>1, <2>2
<1>9. After(ops, 1) BY <1>2, <1>7, <1>8, ThenIs
<1>10. \A y \in Object : y # o => n_shares'[y] = n_shares[y] /\ home'[y] = home[y]
  BY <1>3, <1>5 DEF Share, TakeShare, share, IInv, TypeOK
<1>11. ~Ends("return")'
  <2>1. PICK d \in {0, 1} : d = 1 OBVIOUS
  <2>2. After(ops, d) /\ d < Len(work) BY <1>2, <1>9, <2>1
  <2> QED BY <1>2, <1>8, <2>2, LastAfter
<1>12. ASSUME NEW i \in 1 .. Len(work'), NEW e, e = work'[i]
       PROVE  StoreIs(e, i)' /\ AssignIs(e, i)'
  <2>1. PICK d \in {0, 1} : d = 1 OBVIOUS
  <2>2. After(ops, d) /\ d <= Len(work) BY <1>2, <1>9, <2>1
  <2>3. \/ i \in 1 .. Len(ops) /\ work'[i] = ops[i]
        \/ \E k \in 1 + d .. Len(work) : work'[i] = work[k] /\ i = k + Len(ops) - d
    BY <1>8, <2>2, EntriesAre
  <2>4. CASE i \in 1 .. Len(ops) /\ e = ops[i]
    <3>1. e.op = "unref"
      <4>1. i = 1 /\ ~(old = o \/ old = Null) BY <1>8, <2>4
      <4> QED BY <1>8, <2>4, <4>1
    <3> QED BY <3>1 DEF StoreIs, AssignIs, Storing, Assigning
  <2>5. CASE \E k \in 1 + d .. Len(work) : e = work[k] /\ i = k + Len(ops) - d
    <3>1. PICK k \in 2 .. Len(work) : e = work[k] /\ i = k + Len(ops) - 1 BY <2>1, <2>5
    <3>2. k \in 1 .. Len(work) /\ k # 1 /\ 1 \in 1 .. k - 1 BY <1>2, <3>1
    <3>3. StoreIs(e, k) /\ AssignIs(e, k) /\ e \in Op BY <1>2, <3>1, <3>2, SeqIs DEF SafeInv, ListSafe
    <3>4. ~Assigning(e) BY <1>2, <3>2, <3>3 DEF AssignIs
    <3>5. ASSUME Storing(e) PROVE StoreIs(e, i)'
      <4>1. k = 2 /\ CanShare(Wanted(e)) /\ Firm(Wanted(e)) /\ var[p] = Wanted(e)
        BY <1>2, <3>2, <3>3, <3>5 DEF StoreIs, First, Creates
      <4>2. Wanted(e) = old /\ old # Null /\ old \in Object BY <1>1, <1>3, <3>5, <4>1 DEF Storing
      <4>3. CASE old = o
        <5>1. UNCHANGED share /\ i = 1 BY <1>5, <1>8, <3>1, <4>1, <4>3
        <5>2. CanShare(Wanted(e))' BY <1>5, <4>1, <5>1 DEF CanShare, share
        <5> QED BY <5>1, <5>2 DEF StoreIs
      <4>4. CASE old # o
        <5>1. Len(ops) = 1 /\ ops[1].op = "unref" /\ ops[1].obj = old /\ ops[1].block = depth
          BY <1>8, <4>2, <4>4
        <5>2. i = 2 BY <3>1, <4>1, <5>1
        <5>3. n_shares'[old] = n_shares[old] /\ home'[old] = home[old] /\ created'[old] = created[old]
          BY <1>5, <1>10, <4>2, <4>4
        <5>4. CanShare(Wanted(e))' /\ Firm(Wanted(e))' BY <1>5, <4>1, <4>2, <5>3 DEF CanShare, Firm
        <5>5. work' # <<>> /\ work'[1] = ops[1]
          <6>1. 1 \in 1 .. Len(ops) BY <5>1
          <6>2. work'[1] = ops[1] /\ Len(work') \in Nat /\ Len(work') # 0 /\ work' \in Seq(Op)
            BY <1>2, <1>9, <5>1, <6>1, SeqIs DEF After
          <6> QED BY <6>2
        <5>6. First("unref")' /\ work'[1].obj = Wanted(e) /\ work'[1].block = depth'
          BY <1>5, <4>2, <5>1, <5>5 DEF First
        <5> QED BY <5>2, <5>4, <5>6 DEF StoreIs
      <4> QED BY <4>3, <4>4
    <3>6. StoreIs(e, i)' BY <3>5 DEF StoreIs, Storing, Wanted
    <3>7. AssignIs(e, i)' BY <3>4 DEF AssignIs, Assigning
    <3> QED BY <3>6, <3>7
  <2> QED BY <1>12, <2>3, <2>4, <2>5
<1> QED BY <1>5, <1>11, <1>12 DEF SafeInv, ListSafe, ResultSafe

(* An assignment is the last but the sweep of its statement.               *)
LEMMA AssignFront ==
  ASSUME IInv, SafeInv, NEW op \in {"assign", "link"}, Does(op), NEW x, NEW f, NEW o,
         x = Current.slot[1], f = Current.slot[2], o = Current.obj
  PROVE  /\ x \in Object /\ f \in Field /\ o \in Object /\ x \in live /\ CanShare(o)
         /\ HeldIn(x) /\ (HeldIn(o) \/ Fresh(o))
         /\ Len(work) = 2 /\ work[2].op = "sweep" /\ ~Ends("return") /\ work # <<>> /\ work \in Seq(Op)
<1>1. /\ Current = work[1] /\ work[1] \in Op /\ work[1].op = op /\ EntryIs(work[1], 1) /\ work # <<>>
      /\ Len(work) \in Nat /\ Len(work) > 1 /\ work \in Seq(Op) /\ ~Ends("return") /\ First(op)
  BY FrontIs, NoResult
<1>2. Len(work) = 2 /\ work[2].op = "sweep"
  <2>1. 1 = Len(work) - 1 /\ Ends("sweep") BY <1>1 DEF EntryIs
  <2>2. Len(work) = 2 BY <1>1, <2>1
  <2> QED BY <2>1, <2>2 DEF Ends, Last
<1>3. x \in Object /\ f \in Field /\ o \in Object
  <2>1. Current.slot \in Object \X Field /\ Current.obj \in Object BY <1>1, OpIs
  <2> QED BY <2>1
<1>4. HeldIn(x) /\ (HeldIn(o) \/ Fresh(o))
  <2>1. 1 \in 1 .. Len(work) BY <1>1
  <2>2. AssignIs(work[1], 1) BY <2>1 DEF SafeInv, ListSafe
  <2> QED BY <1>1, <2>2 DEF AssignIs, Assigning, Creates, First
<1>5. x \in live BY <1>3, <1>4, HeldLives DEF HeldIn
<1>6. CanShare(o)
  <2>1. CASE HeldIn(o) BY <1>3, <2>1, HeldLives DEF HeldIn, CanShare
  <2>2. CASE Fresh(o)
    <3>1. KindIs(o) BY <1>3 DEF IInv, KindsAre
    <3> QED BY <2>2, <3>1 DEF KindIs, Fresh, CanShare
  <2> QED BY <1>4, <2>1, <2>2
<1> QED BY <1>1, <1>2, <1>3, <1>4, <1>5, <1>6

LEMMA AssignSafe == ASSUME IInv, SafeInv, DoAssign PROVE SafeInv'
<1>1. PICK x, f, o, old : x = Current.slot[1] /\ f = Current.slot[2] /\ o = Current.obj /\ old = field[x][f]
  OBVIOUS
<1>2. /\ x \in Object /\ f \in Field /\ o \in Object /\ x \in live
      /\ HeldIn(x) /\ (HeldIn(o) \/ Fresh(o))
      /\ Len(work) = 2 /\ work[2].op = "sweep" /\ ~Ends("return") /\ work # <<>> /\ work \in Seq(Op)
  BY <1>1, AssignFront DEF DoAssign
<1>3. /\ UNCHANGED <<live, share, var, depth, frames, fault>>
      /\ Then(IF old = o THEN <<>>
              ELSE IF old = Null THEN <<Link(x, f, o)>>
              ELSE <<Unref(old, 0), Link(x, f, o)>>)
  BY <1>1, <1>2 DEF DoAssign
<1>4. HeldIn(x)' /\ (HeldIn(o)' \/ Fresh(o)') BY <1>2, <1>3 DEF HeldIn, Fresh, share
<1>5. PICK t : t = Link(x, f, o) OBVIOUS
<1>6. t \in Op /\ t.op = "link" /\ t.slot = <<x, f>> /\ t.obj = o BY <1>2, <1>5, SlotOps
<1>7. old \in Object \cup {Null} BY <1>1, <1>2 DEF IInv, TypeOK
<1>8. PICK ops \in Seq(Op) : /\ Then(ops) /\ Len(ops) \in {0, 1, 2}
                             /\ Len(ops) = 1 => ops[1] = t
                             /\ Len(ops) = 2 => ops[1].op = "unref" /\ ops[2] = t
  <2>1. CASE old = o
    <3>1. PICK ops : ops = <<>> OBVIOUS
    <3>2. Then(ops) BY <1>3, <2>1, <3>1
    <3>3. ops \in Seq(Op) /\ Len(ops) = 0 /\ Len(ops) # 1 /\ Len(ops) # 2 BY <3>1, NoOps
    <3>4. Len(ops) \in {0, 1, 2} BY <3>3
    <3> QED BY <3>2, <3>3, <3>4
  <2>2. CASE old # o /\ old = Null
    <3>1. PICK ops : ops = <<t>> OBVIOUS
    <3>2. Then(ops) BY <1>3, <1>5, <2>2, <3>1
    <3>3. ops \in Seq(Op) /\ Len(ops) = 1 /\ ops[1] = t BY <1>6, <3>1, OneOp
    <3> QED BY <3>2, <3>3
  <2>3. CASE old # o /\ old # Null
    <3>1. PICK u : u = Unref(old, 0) OBVIOUS
    <3>2. u \in Op /\ u.op = "unref" BY <1>7, <2>3, <3>1, ObjectOps
    <3>3. PICK ops : ops = <<u, t>> OBVIOUS
    <3>4. Then(ops) BY <1>3, <1>5, <2>3, <3>1, <3>3
    <3>5. ops \in Seq(Op) /\ Len(ops) = 2 /\ ops[1] = u /\ ops[2] = t BY <1>6, <3>2, <3>3, TwoOps
    <3> QED BY <3>2, <3>4, <3>5
  <2> QED BY <2>1, <2>2, <2>3
<1>9. After(ops, 1) BY <1>2, <1>8, ThenIs
<1>10. ASSUME NEW i \in 1 .. Len(work'), NEW e, e = work'[i]
       PROVE  StoreIs(e, i)' /\ AssignIs(e, i)'
  <2>1. PICK d \in {0, 1} : d = 1 OBVIOUS
  <2>2. After(ops, d) /\ d <= Len(work) BY <1>2, <1>9, <2>1
  <2>3. \/ i \in 1 .. Len(ops) /\ work'[i] = ops[i]
        \/ \E k \in 1 + d .. Len(work) : work'[i] = work[k] /\ i = k + Len(ops) - d
    BY <1>8, <2>2, EntriesAre
  <2>4. CASE i \in 1 .. Len(ops) /\ e = ops[i]
    <3>1. i \in {1, 2} /\ (i = 1 => e.op = "unref" \/ e = t) /\ (i = 2 => e = t /\ ops[1].op = "unref")
      BY <1>8, <2>4
    <3>2. CASE e.op = "unref" BY <3>2 DEF StoreIs, AssignIs, Storing, Assigning
    <3>3. CASE e = t
      <4>1. e.op = "link" /\ e.slot[1] = x /\ e.obj = o BY <1>6, <3>3
      <4>2. ASSUME NEW j \in 1 .. i - 1 PROVE work'[j].op \in {"create", "unref", "destroy"}
        <5>1. i = 2 /\ j = 1 BY <3>1
        <5>2. 1 \in 1 .. Len(ops) BY <2>4, <5>1
        <5>3. work'[1] = ops[1] BY <1>9, <5>2 DEF After
        <5> QED BY <3>1, <5>1, <5>3
      <4>3. AssignIs(e, i)' BY <1>4, <4>1, <4>2 DEF AssignIs
      <4>4. StoreIs(e, i)' BY <4>1 DEF StoreIs, Storing
      <4> QED BY <4>3, <4>4
    <3> QED BY <3>1, <3>2, <3>3
  <2>5. CASE \E k \in 1 + d .. Len(work) : e = work[k] /\ i = k + Len(ops) - d
    <3>1. e.op = "sweep"
      <4>1. PICK k \in 1 + d .. Len(work) : e = work[k] BY <2>5
      <4>2. k = 2 BY <1>2, <2>1
      <4> QED BY <1>2, <4>1, <4>2
    <3> QED BY <3>1 DEF StoreIs, AssignIs, Storing, Assigning
  <2> QED BY <1>10, <2>3, <2>4, <2>5
<1>11. ~Ends("return")'
  <2>1. PICK d \in {0, 1} : d = 1 OBVIOUS
  <2>2. After(ops, d) /\ d < Len(work) BY <1>2, <1>9, <2>1
  <2> QED BY <1>2, <1>8, <2>2, LastAfter
<1> QED BY <1>3, <1>10, <1>11 DEF SafeInv, ListSafe, ResultSafe

LEMMA LinkSafe == ASSUME IInv, SafeInv, DoLink PROVE SafeInv'
<1>1. PICK x, f, o : x = Current.slot[1] /\ f = Current.slot[2] /\ o = Current.obj OBVIOUS
<1>2. /\ x \in live /\ CanShare(o)
      /\ Len(work) = 2 /\ work[2].op = "sweep" /\ ~Ends("return") /\ work # <<>> /\ work \in Seq(Op)
  BY <1>1, AssignFront DEF DoLink
<1>3. fault' = fault /\ Then(<<>>) BY <1>1, <1>2 DEF DoLink
<1>4. PICK ops : ops = <<>> OBVIOUS
<1>5. ops \in Seq(Op) /\ Len(ops) = 0 /\ Then(ops) BY <1>3, <1>4, NoOps
<1>6. After(ops, 1) BY <1>2, <1>5, ThenIs
<1>7. Len(work') = 1 /\ work'[1].op = "sweep"
  <2>1. Len(work') = 1 BY <1>2, <1>5, <1>6 DEF After
  <2>2. 1 \in Len(ops) + 1 .. Len(work') /\ 1 - Len(ops) + 1 = 2 BY <1>5, <2>1
  <2>3. work'[1] = work[1 - Len(ops) + 1] BY <1>6, <2>2 DEF After
  <2> QED BY <1>2, <2>1, <2>2, <2>3
<1>8. ASSUME NEW i \in 1 .. Len(work'), NEW e, e = work'[i]
      PROVE  StoreIs(e, i)' /\ AssignIs(e, i)'
  <2>1. i = 1 BY <1>7
  <2>2. e.op = "sweep" BY <1>7, <1>8, <2>1
  <2> QED BY <2>2 DEF StoreIs, AssignIs, Storing, Assigning
<1>9. ~Ends("return")' BY <1>7 DEF Ends, Last
<1> QED BY <1>3, <1>8, <1>9 DEF SafeInv, ListSafe, ResultSafe

LEMMA AtMostOne == ASSUME NEW n, n = 0 \/ n = 1, NEW i \in 1 .. n PROVE i = 1 /\ n = 1
<1>1. n = 1 OBVIOUS
<1> QED BY <1>1

LEMMA UnrefSafe == ASSUME IInv, SafeInv, DoUnref PROVE SafeInv'
<1>1. PICK o, b : o = Current.obj /\ b = Current.block OBVIOUS
<1>2. /\ work[1].op = "unref" /\ work[1].obj = o /\ work[1].block = b /\ work[1] \in Op
      /\ EntryIs(work[1], 1) /\ Len(work) > 1 /\ Len(work) \in Nat /\ First("unref") /\ work # <<>>
      /\ \A y : ~Creates(y)
  BY <1>1, FrontIs DEF DoUnref
<1>3. o \in Object /\ b \in Block \cup {0} BY <1>2, OpIs
<1>4. \A y : Given(y) = IF y = o THEN 1 ELSE 0 BY <1>2 DEF Given
<1>5. o \in live /\ created[o] # 0 /\ n_shares[o] # 0 /\ home[o] = 0 /\ o \notin Dying /\ n_shares[o] \in Nat
  <2>1. /\ n_shares[o] = Cardinality(Holding(o)) + Cardinality(Slots(o)) + 1 + stray[o]
        /\ Cardinality(Holding(o)) \in Nat /\ Cardinality(Slots(o)) \in Nat /\ stray[o] \in Nat
    BY <1>3, <1>4, HoldersCounted, StrayIs DEF IInv, CountsAre, CountIs
  <2>2. n_shares[o] \in Nat /\ n_shares[o] # 0 BY <2>1
  <2>3. KindIs(o) BY <1>3 DEF IInv, KindsAre
  <2> QED BY <2>2, <2>3 DEF KindIs
<1>6. PICK one : one <=> n_shares[o] = 1 OBVIOUS
<1>7. /\ n_shares' = [n_shares EXCEPT ![o] = @ - 1]
      /\ home' = IF one THEN [home EXCEPT ![o] = b] ELSE home
      /\ Then(IF one /\ b = 0 THEN <<Destroy(o)>> ELSE <<>>)
      /\ UNCHANGED <<created, fault, live, var, field, cyclic, depth, frames>>
  BY <1>1, <1>5, <1>6 DEF DoUnref
<1>8. PICK ops : ops = IF one /\ b = 0 THEN <<Destroy(o)>> ELSE <<>> OBVIOUS
<1>9. /\ ops \in Seq(Op) /\ Then(ops)
      /\ one /\ b = 0 => Len(ops) = 1 /\ ops[1].op = "destroy" /\ ops[1].obj = o
      /\ ~(one /\ b = 0) => Len(ops) = 0
  <2>1. CASE one /\ b = 0
    <3>1. PICK u : u = Destroy(o) OBVIOUS
    <3>2. u \in Op /\ u.op = "destroy" /\ u.obj = o BY <1>3, <3>1, ObjectOps
    <3>3. ops = <<u>> /\ Then(ops) BY <1>7, <1>8, <2>1, <3>1
    <3> QED BY <2>1, <3>2, <3>3, OneOp
  <2>2. CASE ~(one /\ b = 0)
    <3>1. ops = <<>> /\ Then(ops) BY <1>7, <1>8, <2>2
    <3> QED BY <2>2, <3>1, NoOps
  <2> QED BY <2>1, <2>2
<1>10. After(ops, 1) /\ Stays(ops, 1) BY <1>2, <1>9, ThenStays
<1>11. \A i \in 1 .. Len(ops) : ops[i].op = "destroy" /\ ops[i].obj = o /\ one
  <2> TAKE i \in 1 .. Len(ops)
  <2>1. Len(ops) = 0 \/ Len(ops) = 1 BY <1>9
  <2>2. i = 1 /\ Len(ops) = 1 BY <2>1, AtMostOne
  <2>3. one /\ b = 0 BY <1>9, <2>2
  <2> QED BY <1>9, <2>2, <2>3
<1>12. /\ n_shares'[o] = n_shares[o] - 1 /\ (one => home'[o] = b) /\ (~one => home'[o] = 0)
       /\ \A y \in Object : y # o => n_shares'[y] = n_shares[y] /\ home'[y] = home[y]
  BY <1>3, <1>5, <1>7 DEF IInv, TypeOK
<1>13. ListSafe'
  <2>1. PICK d \in {0, 1} : d = 1 OBVIOUS
  <2>2. After(ops, d) /\ d <= Len(work) BY <1>2, <1>10, <2>1
  <2>3. ASSUME NEW k \in 1 + d .. Len(work), NEW e, e = work[k], Storing(e)
        PROVE  StoreIs(e, k + Len(ops) - d)'
    <3>1. k \in 1 .. Len(work) /\ k # 1 BY <1>2, <2>1
    <3>2. StoreIs(e, k) BY <2>3, <3>1 DEF SafeInv, ListSafe
    <3>3. k = 2 /\ Firm(o) /\ Wanted(e) = o /\ b = depth
      BY <1>2, <2>3, <3>1, <3>2 DEF StoreIs, First
    <3>4. b # 0 BY <3>3, FramesIs
    <3>5. k + Len(ops) - d = 1 BY <1>9, <2>1, <3>3, <3>4
    <3>6. CanShare(o)'
      <4>1. n_shares'[o] = 0 => one BY <1>5, <1>6, <1>12
      <4>2. one => created[o] = depth BY <1>6, <3>3 DEF Firm
      <4> QED BY <1>5, <1>7, <1>12, <3>3, <4>1, <4>2 DEF CanShare
    <3> QED BY <3>3, <3>5, <3>6 DEF StoreIs
  <2>4. \A y \in Object : Fresh(y) \/ Creates(y) => Fresh(y)'
    <3>1. ~Fresh(o) BY <1>5 DEF Fresh
    <3> QED BY <1>2, <1>7, <1>12, <3>1 DEF Fresh
  <2>5. \A i \in 1 .. Len(ops) : ops[i].op \in {"create", "unref", "destroy"} BY <1>11
  <2> QED BY <1>7, <1>9, <2>2, <2>3, <2>4, <2>5, ListKept DEF SafeInv
<1>14. ResultSafe'
  <2>1. Ends("return")' => Ends("return") /\ Last' = Last
    <3>1. \A i \in 1 .. Len(ops) : ops[i].op # "return" BY <1>11
    <3> QED BY <1>2, <1>9, <3>1, EndThen
  <2>2. ASSUME NEW y \in Object, Creates(y) \/ Safe(y) PROVE Safe(y)'
    <3>1. Slots(y) = {} /\ y \in live \ Dying /\ (Given(y) = 1 => n_shares[y] > 1)
      BY <1>2, <2>2 DEF Safe
    <3>2. Slots(y)' = Slots(y) BY <1>7, SameHolders
    <3>3. y \notin Dying'
      <4>1. ~Lists(ops, "destroy", y)
        <5>1. y = o => ~one BY <1>4, <1>6, <3>1
        <5> QED BY <1>11, <5>1 DEF Lists
      <4> QED BY <1>10, <3>1, <4>1 DEF Stays
    <3>4. Given(y)' = 0
      <4>1. ~(ops # <<>> /\ ops[1].op = "unref")
        <5>1. ops # <<>> => Len(ops) # 0 BY <1>9, EmptySeq
        <5> QED BY <1>9, <5>1
      <4> QED BY <1>10, <4>1 DEF Stays
    <3> QED BY <1>7, <3>1, <3>2, <3>3, <3>4 DEF Safe
  <2> QED BY <1>7, <2>1, <2>2, ResultStays DEF SafeInv
<1> QED BY <1>7, <1>13, <1>14 DEF SafeInv

(* A field of what cannot be reached does not matter to what can.          *)
LEMMA ReachKept ==
  ASSUME NEW S, NEW o, o \notin Reach(S), S \subseteq Object,
         field \in [Object -> [Field -> Object \cup {Null}]],
         \A y \in Object : y # o => field'[y] = field[y]
  PROVE  Reach(S) \subseteq Reach(S)'
<1> SUFFICES ASSUME NEW x \in Reach(S), NEW R \in SUBSET Object, S \subseteq R, Closed(R)'
             PROVE  x \in R
  BY DEF Reach
<1>1. PICK T : T = R \cap Reach(S) OBVIOUS
<1>2. T \subseteq Object /\ S \subseteq T BY <1>1, ReachStart
<1>3. \A y \in T : \A f \in Field : field[y][f] \in T \cup {Null}
  <2> SUFFICES ASSUME NEW y \in T, NEW f \in Field, field[y][f] # Null PROVE field[y][f] \in T OBVIOUS
  <2>1. y \in Object /\ y # o /\ y \in R /\ y \in Reach(S) BY <1>1
  <2>2. field'[y][f] = field[y][f] BY <2>1
  <2>3. field[y][f] \in R BY <2>1, <2>2 DEF Closed
  <2>4. field[y][f] \in Reach(S) BY <2>1, ReachClosed
  <2> QED BY <1>1, <2>3, <2>4
<1>4. Closed(T) BY <1>3 DEF Closed
<1>5. Reach(S) \subseteq T BY <1>2, <1>4, ReachWithin
<1> QED BY <1>1, <1>5

Lower == {var[p] : p \in {q \in Place : q[1] < base}} \ {Null}

LEMMA LowerIs ==
  ASSUME IInv
  PROVE  /\ HeldBelow(base) = Reach(Lower) /\ Lower \subseteq Object
         /\ \A o \in Lower : HeldIn(o)
         /\ \A o \in HeldBelow(base) : HeldIn(o) \/ Slots(o) # {}
<1>1. HeldBelow(base) = Reach(Lower) BY DEF HeldBelow, Lower
<1>2. Lower \subseteq Object /\ \A o \in Lower : HeldIn(o) BY DEF Lower, HeldIn, IInv, TypeOK
<1>3. ASSUME NEW o \in HeldBelow(base), ~HeldIn(o), Slots(o) = {} PROVE FALSE
  <2>1. PICK S : S = Lower OBVIOUS
  <2>2. o \in Reach(S) /\ o \in Object BY <1>1, <2>1 DEF Reach
  <2>3. S \subseteq Object /\ o \notin S BY <1>2, <1>3, <2>1
  <2> QED BY <1>3, <2>2, <2>3, NotReached
<1> QED BY <1>1, <1>2, <1>3

LEMMA DestroySafe == ASSUME IInv, SafeInv, DoDestroy PROVE SafeInv'
<1>1. PICK o : o = Current.obj OBVIOUS
<1>2. /\ work[1].op = "destroy" /\ work[1].obj = o /\ work[1] \in Op /\ First("destroy") /\ work # <<>>
      /\ Len(work) > 1 /\ Len(work) \in Nat /\ (\A y : ~Creates(y)) /\ (\A y : Given(y) = 0)
      /\ work \in Seq(Op)
  BY <1>1, FrontIs DEF DoDestroy
<1>3. o \in Object BY <1>2, OpIs
<1>4. o \in Dying
  <2>1. 1 \in 1 .. Len(work) BY <1>2
  <2> QED BY <1>2, <2>1, DyingHas DEF Has
<1>5. ~HeldIn(o) /\ Slots(o) = {} /\ home[o] = 0 /\ created[o] # 0
  <2>1. KindIs(o) BY <1>3 DEF IInv, KindsAre
  <2> QED BY <1>3, <1>4, <2>1, HeldLives DEF HeldIn, KindIs
<1>6. var' = var /\ home' = home /\ depth' = depth /\ frames' = frames /\ n_shares' = n_shares
  BY DEF DoDestroy
<1>7. PICK ops, d :
        /\ ops \in Seq(Op) /\ d \in {0, 1} /\ After(ops, d) /\ Stays(ops, d) /\ fault' = fault
        /\ Ends("return")' => Ends("return") /\ Last' = Last
        /\ Len(ops) = 0 \/ (Len(ops) = 1 /\ ops[1].op = "unref" /\ ops[1].obj \in Object
                            /\ Slots(ops[1].obj) # {})
        /\ live' \in {live, live \ {o}}
        /\ \A y \in Object : y # o => created'[y] = created[y] /\ field'[y] = field[y]
        /\ \A y \in Object, g \in Field : field'[y][g] \in {field[y][g], Null}
  <2>1. CASE \E f \in Field : field[o][f] # Null
    <3>1. PICK f \in Field : /\ field[o][f] # Null /\ RemoveSlot(o, f)
                             /\ work' = <<Unref(field[o][f], 0)>> \o work
                             /\ UNCHANGED <<live, created, fault>>
      BY <1>1, <2>1 DEF DoDestroy
    <3>2. PICK y \in Object : y = field[o][f] BY <1>3, <3>1 DEF IInv, TypeOK
    <3>3. PICK u : u = Unref(y, 0) OBVIOUS
    <3>4. u \in Op /\ u.op = "unref" /\ u.obj = y BY <3>3, ObjectOps
    <3>5. PICK ops : ops = <<u>> OBVIOUS
    <3>6. ops \in Seq(Op) /\ Len(ops) = 1 /\ ops[1] = u /\ ops # <<>> BY <3>4, <3>5, OneOp
    <3>7. work' = ops \o work BY <3>1, <3>2, <3>3, <3>5
    <3>8. After(ops, 0) /\ Stays(ops, 0)
      <4>1. Len(work) > 0 BY <1>2
      <4>2. ops \in Seq(Op) /\ ops # <<>> BY <3>6
      <4> QED BY <3>7, <4>1, <4>2, PushStays
    <3>9. Ends("return")' => Ends("return") /\ Last' = Last BY <1>2, <3>6, <3>7, EndPush
    <3>10. field' = [field EXCEPT ![o][f] = Null] BY <3>1 DEF RemoveSlot
    <3>11. \A z \in Object, g \in Field : field'[z][g] \in {field[z][g], Null} BY <1>3, <3>10, FieldEmptied
    <3>12. \A z \in Object : z # o => field'[z] = field[z] BY <3>10 DEF IInv, TypeOK
    <3>13. <<o, f>> \in Slots(y) BY <1>3, <3>2 DEF Slots
    <3>14. PICK d : d = 0 OBVIOUS
    <3> QED BY <3>1, <3>4, <3>6, <3>8, <3>9, <3>11, <3>12, <3>13, <3>14
  <2>2. CASE ~ \E f \in Field : field[o][f] # Null
    <3>1. {f \in Field : field[o][f] # Null} = {} BY <2>2
    <3>2. /\ live' = live \ {o} /\ created' = [created EXCEPT ![o] = 0] /\ Then(<<>>)
          /\ field' = field /\ fault' = fault
      BY <1>1, <1>5, <3>1 DEF DoDestroy
    <3>3. PICK ops : ops = <<>> OBVIOUS
    <3>4. ops \in Seq(Op) /\ Len(ops) = 0 /\ Then(ops) BY <3>2, <3>3, NoOps
    <3>5. After(ops, 1) /\ Stays(ops, 1) BY <1>2, <3>4, ThenStays
    <3>6. \A i \in 1 .. Len(ops) : ops[i].op # "return" BY <3>4
    <3>7. Ends("return")' => Ends("return") /\ Last' = Last BY <1>2, <3>4, <3>6, EndThen
    <3>8. \A y \in Object : y # o => created'[y] = created[y] BY <3>2 DEF IInv, TypeOK
    <3>9. PICK d : d = 1 OBVIOUS
    <3> QED BY <3>2, <3>4, <3>5, <3>7, <3>8, <3>9
  <2> QED BY <2>1, <2>2
<1>8. ListSafe'
  <2>1. d \in {0, 1} /\ d <= Len(work) /\ ops \in Seq(Op) /\ After(ops, d) BY <1>2, <1>7
  <2>2. ASSUME NEW k \in 1 + d .. Len(work), NEW e, e = work[k], Storing(e) PROVE FALSE
    <3>1. k \in 1 .. Len(work) BY <1>2, <2>1
    <3>2. StoreIs(e, k) BY <2>2, <3>1 DEF SafeInv, ListSafe
    <3> QED BY <1>2, <2>2, <3>2 DEF StoreIs, Storing, First
  <2>3. \A y \in Object : Fresh(y) \/ Creates(y) => Fresh(y)' BY <1>2, <1>5, <1>6, <1>7 DEF Fresh
  <2>4. \A i \in 1 .. Len(ops) : ops[i].op \in {"create", "unref", "destroy"}
    <3> TAKE i \in 1 .. Len(ops)
    <3>1. (Len(ops) = 0 \/ Len(ops) = 1) /\ (Len(ops) = 1 => ops[1].op = "unref") BY <1>7
    <3>2. i = 1 /\ Len(ops) = 1 BY <3>1, AtMostOne
    <3> QED BY <3>1, <3>2
  <2> QED BY <1>6, <2>1, <2>2, <2>3, <2>4, ListKept DEF SafeInv
<1>9. HeldBelow(base) \subseteq HeldBelow(base)' /\ o \notin HeldBelow(base)
  <2>1. o \notin HeldBelow(base) BY <1>5, LowerIs
  <2>2. PICK S : S = Lower OBVIOUS
  <2>3. S \subseteq Object /\ HeldBelow(base) = Reach(S) BY <2>2, LowerIs
  <2>4. o \notin Reach(S) BY <2>1, <2>3
  <2>5. Reach(S) \subseteq Reach(S)' BY <1>7, <2>3, <2>4, ReachKept DEF IInv, TypeOK
  <2>6. HeldBelow(base)' = Reach(S)' BY <1>6, <2>2 DEF HeldBelow, Lower, base
  <2> QED BY <2>1, <2>3, <2>5, <2>6
<1>10. ResultSafe'
  <2>1. \A x \in Object, f \in Field : SlotIs(x, f) => SlotIs(x, f)' BY <1>7, <1>9 DEF SlotIs
  <2>2. ASSUME NEW y \in Object, ObjectIs(y) PROVE ObjectIs(y)'
    <3>1. CASE y \in HeldBelow(base) BY <1>9, <3>1 DEF ObjectIs
    <3>2. CASE Safe(y)
      <4>1. Slots(y) = {} /\ y \in live \ Dying /\ y # o BY <1>4, <3>2 DEF Safe
      <4>2. Slots(y)' = {}
        <5> SUFFICES ASSUME NEW s \in Object \X Field, field'[s[1]][s[2]] = y PROVE FALSE BY DEF Slots
        <5>1. field[s[1]][s[2]] = y BY <1>7, NullAssumption
        <5>2. s \in Slots(y) BY <5>1 DEF Slots
        <5> QED BY <4>1, <5>2
      <4>3. y \in live' BY <1>7, <4>1
      <4>4. Len(ops) = 0 => ops = <<>> BY <1>7, EmptySeq
      <4>5. y \notin Dying'
        <5>1. \A i \in 1 .. Len(ops) : ops[i].op = "unref"
          <6> TAKE i \in 1 .. Len(ops)
          <6>1. (Len(ops) = 0 \/ Len(ops) = 1) /\ (Len(ops) = 1 => ops[1].op = "unref") BY <1>7
          <6>2. i = 1 /\ Len(ops) = 1 BY <6>1, AtMostOne
          <6> QED BY <6>1, <6>2
        <5>2. ~Lists(ops, "destroy", y) BY <5>1 DEF Lists
        <5> QED BY <1>7, <4>1, <5>2 DEF Stays
      <4>6. Given(y)' = 0
        <5>1. ~(ops # <<>> /\ ops[1].op = "unref" /\ ops[1].obj = y) BY <1>7, <4>1, <4>4
        <5> QED BY <1>7, <5>1 DEF Stays
      <4> QED BY <4>2, <4>3, <4>5, <4>6 DEF ObjectIs, Safe
    <3> QED BY <1>2, <2>2, <3>1, <3>2 DEF ObjectIs
  <2> QED BY <1>7, <2>1, <2>2, ResultKept DEF SafeInv
<1> QED BY <1>7, <1>8, <1>10 DEF SafeInv

(* The other steps store nothing.                                          *)
LEMMA QuietFront ==
  ASSUME IInv, SafeInv, NEW op, Does(op), op \notin {"create", "store", "unref", "destroy", "assign", "link"},
         op = "unwind" => Current.arg = Null
  PROVE  /\ work \in Seq(QuietOp) /\ work # <<>> /\ Current = work[1] /\ work[1] \in Op
         /\ work[1].op = op /\ First(op) /\ EntryIs(work[1], 1)
         /\ work' = work => ListSafe'
<1>1. work # <<>> /\ Current = work[1] /\ work[1] \in Op /\ work[1].op = op /\ First(op) /\ EntryIs(work[1], 1)
  BY FrontIs
<1>2. work \in Seq(QuietOp)
  <2>1. ~Storing(work[1]) BY <1>1 DEF Storing, Wanted
  <2> QED BY <1>1, <2>1, QuietWork DEF SafeInv
<1>3. work' = work => ListSafe' BY <1>2, QuietAfter
<1> QED BY <1>1, <1>2, <1>3

LEMMA QuietOps == \A u \in Op : u.op \notin {"store", "assign", "link", "unwind"} => u \in QuietOp
BY DEF QuietOp, Storing, Assigning

(* What they list is nothing, or one entry that does not store either.     *)
OneEntry(ops) == \/ ops = <<>>
               \/ \E u \in Op : u.op \notin {"store", "assign", "link", "unwind", "return"} /\ ops = <<u>>

LEMMA QuietMove ==
  ASSUME IInv, SafeInv, work \in Seq(QuietOp), work # <<>>, fault' = fault, NEW ops, OneEntry(ops),
         Then(ops) \/ work' = ops \o work
  PROVE  fault' = FALSE /\ ListSafe' /\ (Ends("return")' => Ends("return") /\ Last' = Last)
<1>1. /\ ops \in Seq(Op) /\ ops \in Seq(QuietOp)
      /\ \A i \in 1 .. Len(ops) : ops[i].op # "return"
  <2>1. CASE ops = <<>>
    <3>1. Len(ops) = 0 /\ ops \in Seq(Op) BY <2>1, NoOps
    <3>2. ops \in Seq(QuietOp) BY <2>1, QuietShort
    <3>3. \A i \in 1 .. Len(ops) : FALSE BY <3>1
    <3> QED BY <3>1, <3>2, <3>3
  <2>2. CASE \E u \in Op : u.op \notin {"store", "assign", "link", "unwind", "return"} /\ ops = <<u>>
    <3>1. PICK u \in Op : u.op \notin {"store", "assign", "link", "unwind", "return"} /\ ops = <<u>> BY <2>2
    <3>2. ops \in Seq(Op) /\ Len(ops) = 1 /\ ops[1] = u BY <3>1, OneOp
    <3>3. u \in QuietOp BY <3>1, QuietOps
    <3>4. ops \in Seq(QuietOp) BY <3>1, <3>3, QuietShort
    <3>5. \A i \in 1 .. Len(ops) : i = 1 BY <3>2
    <3> QED BY <3>1, <3>2, <3>4, <3>5
  <2> QED BY <2>1, <2>2 DEF OneEntry
<1>2. ListSafe' BY <1>1, QuietThen
<1>3. Ends("return")' => Ends("return") /\ Last' = Last BY <1>1, EndThen, EndPush
<1> QED BY <1>2, <1>3 DEF SafeInv

LEMMA OthersSafe == ASSUME IInv, SafeInv, DoUnwind \/ DoDeref \/ DoUnlink \/ DoGlobals PROVE SafeInv'
<1>1. PICK op : op \in {"unwind", "deref", "unlink", "globals"} /\ Does(op) /\ (op = "unwind" => Current.arg = Null)
  BY DEF DoUnwind, DoDeref, DoUnlink, DoGlobals, Does
<1>2. /\ work \in Seq(QuietOp) /\ work # <<>> /\ Current = work[1] /\ work[1] \in Op
      /\ work[1].op = op /\ EntryIs(work[1], 1)
  BY <1>1, QuietFront
<1>3. ~Ends("return")
  <2>1. CASE op = "unwind"
    <3>1. 1 = Len(work) BY <1>2, <2>1 DEF EntryIs
    <3> QED BY <1>2, <2>1, <3>1 DEF Ends, Last
  <2>2. CASE op # "unwind" BY <1>1, <2>2, NoResult
  <2> QED BY <2>1, <2>2
<1>4. fault' = fault BY DEF DoUnwind, DoDeref, DoUnlink, DoGlobals
<1>5. \E ops : OneEntry(ops) /\ (Then(ops) \/ work' = ops \o work)
  <2>1. CASE DoUnwind
    <3>1. PICK ret : ret = {} OBVIOUS
    <3>2. PICK s, u : s = Sweep(1, ret) /\ u = PopScope(ret) OBVIOUS
    <3>3. s \in Op /\ s.op = "sweep" /\ u \in Op /\ u.op = "pop"
      <4>1. ret \subseteq Object /\ 1 \in Block BY <3>1, DepthAssumption DEF Block
      <4> QED BY <3>2, <4>1, BlockOps
    <3>4. work' = <<u>> \o work \/ Then(<<s>>) BY <2>1, <3>1, <3>2 DEF DoUnwind
    <3> QED BY <3>3, <3>4 DEF OneEntry
  <2>2. CASE DoDeref
    <3>1. cyclic \subseteq Object BY DEF IInv, TypeOK
    <3>2. Then(<<>>) \/ \E o \in Object : work' = <<Unlink(o)>> \o work BY <2>2, <3>1 DEF DoDeref
    <3>3. \A o \in Object : Unlink(o) \in Op /\ Unlink(o).op = "unlink" BY ObjectOps
    <3> QED BY <3>2, <3>3 DEF OneEntry
  <2>3. CASE DoUnlink
    <3>1. PICK o : o = Current.obj OBVIOUS
    <3>2. o \in Object
      <4>1. work[1].op = "unlink" BY <2>3, FrontIs DEF DoUnlink
      <4> QED BY <1>2, <3>1, <4>1, OpIs
    <3>3. Then(<<>>) \/ work' = <<Unref(o, 1)>> \o work BY <2>3, <3>1 DEF DoUnlink
    <3>4. 1 \in Block \cup {0} BY FramesIs
    <3>5. Unref(o, 1) \in Op /\ Unref(o, 1).op = "unref" BY <3>2, <3>4, ObjectOps
    <3> QED BY <3>3, <3>5 DEF OneEntry
  <2>4. CASE DoGlobals
    <3>1. Then(<<>>) \/ \E v \in Variable : /\ var[<<1, v>>] # Null
                                            /\ work' = <<Unref(var[<<1, v>>], 0)>> \o work
      BY <2>4 DEF DoGlobals
    <3>2. ASSUME NEW v \in Variable, var[<<1, v>>] # Null, work' = <<Unref(var[<<1, v>>], 0)>> \o work
          PROVE  \E ops : OneEntry(ops) /\ work' = ops \o work
      <4>1. <<1, v>> \in Place BY FramesIs DEF Place
      <4>2. PICK o \in Object : o = var[<<1, v>>] BY <3>2, <4>1 DEF IInv, TypeOK
      <4>3. Unref(o, 0) \in Op /\ Unref(o, 0).op = "unref" BY ObjectOps
      <4> QED BY <3>2, <4>2, <4>3 DEF OneEntry
    <3> QED BY <3>1, <3>2 DEF OneEntry
  <2> QED BY <2>1, <2>2, <2>3, <2>4
<1>6. PICK ops : OneEntry(ops) /\ (Then(ops) \/ work' = ops \o work) BY <1>5
<1>7. fault' = FALSE /\ ListSafe' /\ (Ends("return")' => Ends("return") /\ Last' = Last)
  BY <1>2, <1>4, <1>6, QuietMove
<1> QED BY <1>3, <1>7 DEF SafeInv, ResultSafe

(* The sweep and the end of a block that come before a return.             *)
LEMMA ResultRet ==
  ASSUME IInv, Ends("return")
  PROVE  /\ Len(work) \in 1 .. Len(work) /\ Len(work) \in Nat /\ Last \in Op /\ Last.op = "return"
         /\ frames # <<>> /\ depth >= base - 1
         /\ \A y \in Object : Last.value = <<"object", y>> => Last.ret = {y}
<1>1. work \in Seq(Op) /\ Len(work) \in Nat BY SeqIs DEF IInv, WorkAre
<1>2. Len(work) \in 1 .. Len(work) /\ Last.op = "return" BY <1>1, EmptySeq DEF Ends
<1>3. EntryIs(Last, Len(work)) /\ Last \in Op BY <1>1, <1>2, SeqIs DEF IInv, WorkAre, Last
<1> QED BY <1>1, <1>2, <1>3 DEF EntryIs

LEMMA BeforeReturn ==
  ASSUME IInv, NEW op \in {"sweep", "pop"}, Does(op), Ends("return")
  PROVE  Len(work) = 2 /\ Current.ret = Last.ret /\ (op = "pop" => depth >= base)
<1>1. /\ EntryIs(work[1], 1) /\ work[1].op = op /\ Current = work[1] /\ Len(work) \in Nat BY FrontIs
<1>2. 1 # Len(work) BY <1>1 DEF Ends, Last
<1>3. ~Ends("unwind") BY DEF Ends
<1>4. 1 = Len(work) - 1 /\ work[1].ret = Last.ret BY <1>1, <1>2, <1>3 DEF EntryIs
<1>5. op = "pop" => depth >= base BY <1>1, <1>2, <1>3 DEF EntryIs
<1> QED BY <1>1, <1>4, <1>5

LEMMA SweepSafe == ASSUME IInv, SafeInv, DoSweep PROVE SafeInv'
<1>1. PICK ret : ret = Current.ret OBVIOUS
<1>2. /\ work \in Seq(QuietOp) /\ work # <<>> /\ Current = work[1] /\ work[1] \in Op /\ Does("sweep")
      /\ work[1].op = "sweep" /\ (work' = work => ListSafe')
      /\ (\A y : ~Creates(y)) /\ (\A y : Given(y) = 0)
      /\ UNCHANGED <<n_shares, live, var, field, cyclic, depth, frames, fault>>
  <2>1. Does("sweep") /\ UNCHANGED <<n_shares, live, var, field, cyclic, depth, frames, fault>>
    BY DEF DoSweep, share
  <2>2. (\A y : ~Creates(y)) /\ (\A y : Given(y) = 0) BY <2>1, FrontIs
  <2> QED BY <2>1, <2>2, QuietFront
<1>3. PICK ops : /\ OneEntry(ops) /\ (Then(ops) \/ work' = ops \o work)
                 /\ ops = <<>> \/ \E o \in Object \ ret : ops = <<Destroy(o)>> /\ work' = ops \o work
  <2>1. CASE Pool(Current.block) = {}
    <3>1. Then(<<>>) BY <2>1 DEF DoSweep
    <3> QED BY <3>1 DEF OneEntry
  <2>2. CASE Pool(Current.block) # {}
    <3>1. PICK o \in Object : IF o \in ret THEN work' = work ELSE work' = <<Destroy(o)>> \o work
      BY <1>1, <2>2 DEF DoSweep, Pool
    <3>2. CASE o \in ret
      <4>1. work' = <<>> \o work
        <5>1. work \in Seq(Op) BY DEF IInv, WorkAre
        <5> QED BY <3>1, <3>2, <5>1, ConcatEmptySeq
      <4> QED BY <4>1 DEF OneEntry
    <3>3. CASE o \notin ret
      <4>1. Destroy(o) \in Op /\ Destroy(o).op = "destroy" BY ObjectOps
      <4> QED BY <3>1, <3>3, <4>1 DEF OneEntry
    <3> QED BY <3>2, <3>3
  <2> QED BY <2>1, <2>2
<1>4. fault' = FALSE /\ ListSafe' /\ (Ends("return")' => Ends("return") /\ Last' = Last)
  BY <1>2, <1>3, QuietMove
<1>5. ASSUME NEW y \in Object, Ends("return"), Last.value = <<"object", y>>, Safe(y) PROVE Safe(y)'
  <2>1. Last.ret = {y} BY <1>5, ResultRet
  <2>2. Len(work) = 2 /\ ret = {y}
    <3>1. PICK op \in {"sweep", "pop"} : op = "sweep" OBVIOUS
    <3> QED BY <1>1, <1>2, <1>5, <2>1, <3>1, BeforeReturn
  <2>3. Slots(y) = {} /\ y \in live \ Dying BY <1>5 DEF Safe
  <2>4. Slots(y)' = Slots(y) BY <1>2, SameHolders
  <2>5. y \notin Dying' /\ Given(y)' = 0
    <3>1. CASE ops = <<>> /\ work' = work
      <4>1. (y \in Dying' <=> y \in Dying) /\ Given(y)' = Given(y) BY <3>1, WorkSame
      <4> QED BY <1>2, <2>3, <4>1
    <3>2. CASE ops = <<>> /\ Then(ops)
      <4>1. ops \in Seq(Op) /\ Len(ops) = 0 BY <3>2, NoOps
      <4>2. Len(work) > 1 BY <2>2
      <4>3. Stays(ops, 1) BY <3>2, <4>1, <4>2, ThenStays
      <4>4. ~Lists(ops, "destroy", y) BY <4>1 DEF Lists
      <4> QED BY <2>3, <3>2, <4>3, <4>4 DEF Stays
    <3>3. CASE \E o \in Object \ ret : ops = <<Destroy(o)>> /\ work' = ops \o work
      <4>1. PICK o \in Object : o \notin ret /\ ops = <<Destroy(o)>> /\ work' = ops \o work BY <3>3
      <4>2. PICK u : u = Destroy(o) OBVIOUS
      <4>3. u \in Op /\ u.op = "destroy" /\ u.obj = o BY <4>2, ObjectOps
      <4>4. ops \in Seq(Op) /\ Len(ops) = 1 /\ ops[1] = u /\ ops # <<>> BY <4>1, <4>2, <4>3, OneOp
      <4>5. Len(work) > 0 BY <2>2
      <4>6. Stays(ops, 0) BY <4>1, <4>4, <4>5, PushStays
      <4>7. \A i \in 1 .. Len(ops) : i = 1 BY <4>4
      <4>8. ~Lists(ops, "destroy", y) BY <2>2, <4>1, <4>3, <4>4, <4>7 DEF Lists
      <4> QED BY <2>3, <4>3, <4>4, <4>6, <4>8 DEF Stays
    <3>4. ops = <<>> => work' = work \/ Then(ops)
      <4>1. work \in Seq(Op) BY DEF IInv, WorkAre
      <4> QED BY <1>3, <4>1, ConcatEmptySeq
    <3> QED BY <1>3, <3>1, <3>2, <3>3, <3>4
  <2> QED BY <1>2, <2>3, <2>4, <2>5 DEF Safe
<1>6. ResultSafe' BY <1>2, <1>4, <1>5, ResultStays DEF SafeInv
<1> QED BY <1>4, <1>6 DEF SafeInv

LEMMA PopSafe == ASSUME IInv, SafeInv, DoPop PROVE SafeInv'
<1>1. PICK ret : ret = Current.ret OBVIOUS
<1>2. /\ work \in Seq(QuietOp) /\ work # <<>> /\ Current = work[1] /\ work[1] \in Op /\ Does("pop")
      /\ work[1].op = "pop" /\ (work' = work => ListSafe')
      /\ (\A y : ~Creates(y)) /\ (\A y : Given(y) = 0) /\ ret \subseteq Object
      /\ UNCHANGED <<live, field, cyclic, frames, fault>>
  <2>1. Does("pop") /\ UNCHANGED <<live, field, cyclic, frames, fault>> BY DEF DoPop
  <2>2. (\A y : ~Creates(y)) /\ (\A y : Given(y) = 0) BY <2>1, FrontIs
  <2>3. /\ work \in Seq(QuietOp) /\ work # <<>> /\ Current = work[1] /\ work[1] \in Op
        /\ work[1].op = "pop" /\ (work' = work => ListSafe')
    BY <2>1, QuietFront
  <2>4. ret \subseteq Object BY <1>1, <2>3, OpIs
  <2> QED BY <2>1, <2>2, <2>3, <2>4
<1>3. depth \in Block /\ depth \in Nat /\ base \in Nat BY FramesIs
<1>4. Ends("return") => /\ Len(work) = 2 /\ depth >= base
                        /\ \A y \in Object : Last.value = <<"object", y>> => ret = {y}
  <2> SUFFICES ASSUME Ends("return")
               PROVE  /\ Len(work) = 2 /\ depth >= base
                      /\ \A y \in Object : Last.value = <<"object", y>> => ret = {y}
    OBVIOUS
  <2>1. PICK op \in {"sweep", "pop"} : op = "pop" OBVIOUS
  <2>2. Len(work) = 2 /\ ret = Last.ret /\ depth >= base BY <1>1, <1>2, <2>1, BeforeReturn
  <2> QED BY <2>2, ResultRet
<1>5. \A y : Slots(y)' = Slots(y) BY <1>2, SameHolders
<1>6. CASE \A v \in Variable : var[<<depth, v>>] = Null
  <2>1. PICK s : s = Sweep(depth, ret) OBVIOUS
  <2>2. s \in Op /\ s.op = "sweep" BY <1>2, <1>3, <2>1, BlockOps
  <2>3. PICK ops : ops = <<s>> OBVIOUS
  <2>4. ops \in Seq(Op) /\ Len(ops) = 1 /\ ops[1] = s /\ ops # <<>> BY <2>2, <2>3, OneOp
  <2>5. Then(ops) /\ UNCHANGED <<share, var>>
    <3>1. {v \in Variable : var[<<depth, v>>] # Null} = {} BY <1>6
    <3> QED BY <1>1, <2>1, <2>3, <3>1 DEF DoPop
  <2>6. OneEntry(ops) BY <2>2, <2>3 DEF OneEntry
  <2>7. fault' = FALSE /\ ListSafe' /\ (Ends("return")' => Ends("return") /\ Last' = Last)
    BY <1>2, <2>5, <2>6, QuietMove
  <2>8. ASSUME NEW y \in Object, Ends("return"), Safe(y) PROVE Safe(y)'
    <3>1. Slots(y) = {} /\ y \in live \ Dying BY <2>8 DEF Safe
    <3>2. Len(work) > 1
      <4>1. Len(work) = 2 BY <1>4, <2>8
      <4> QED BY <4>1
    <3>3. Stays(ops, 1) BY <2>4, <2>5, <3>2, ThenStays
    <3>4. \A i \in 1 .. Len(ops) : i = 1 BY <2>4
    <3>5. ~Lists(ops, "destroy", y) BY <2>2, <2>4, <3>4 DEF Lists
    <3>6. y \notin Dying' BY <3>1, <3>3, <3>5 DEF Stays
    <3>7. Given(y)' = 0 BY <2>2, <2>4, <3>3 DEF Stays
    <3> QED BY <1>2, <1>5, <2>5, <3>1, <3>6, <3>7 DEF Safe
  <2>9. ResultSafe' BY <1>2, <2>5, <2>7, <2>8, ResultStays DEF SafeInv
  <2> QED BY <2>7, <2>9 DEF SafeInv
<1>7. CASE ~ \A v \in Variable : var[<<depth, v>>] = Null
  <2>1. PICK v \in Variable :
          /\ var[<<depth, v>>] # Null /\ var' = [var EXCEPT ![<<depth, v>>] = Null]
          /\ IF ~HandsOver(var[<<depth, v>>], ret)
             THEN work' = <<Unref(var[<<depth, v>>], 0)>> \o work /\ UNCHANGED share
             ELSE /\ n_shares' = [n_shares EXCEPT ![var[<<depth, v>>]] = 0]
                  /\ work' = work
    <3>1. {v \in Variable : var[<<depth, v>>] # Null} # {} BY <1>7
    <3> QED BY <1>1, <3>1 DEF DoPop
  <2>2. PICK p \in Place : p = <<depth, v>> BY <1>3 DEF Place
  <2>3. PICK o \in Object : o = var[p] BY <2>1, <2>2 DEF IInv, TypeOK
  <2>4. \A q \in Place : q # p => var'[q] = var[q] BY <2>1, <2>2 DEF IInv, TypeOK
  <2>5. PICK u : u = Unref(o, 0) OBVIOUS
  <2>6. u \in Op /\ u.op = "unref" /\ u.obj = o BY <2>5, ObjectOps
  <2>7. PICK ops : ops = IF HandsOver(o, ret) THEN <<>> ELSE <<u>> OBVIOUS
  <2>8. /\ work' = ops \o work
        /\ HandsOver(o, ret) => work' = work /\ n_shares' = [n_shares EXCEPT ![o] = 0]
        /\ ~HandsOver(o, ret) => UNCHANGED share
    <3>1. work \in Seq(Op) BY DEF IInv, WorkAre
    <3>2. CASE HandsOver(o, ret)
      <4>1. work' = work /\ n_shares' = [n_shares EXCEPT ![o] = 0] /\ ops = <<>>
        BY <2>1, <2>2, <2>3, <2>7, <3>2
      <4> QED BY <3>1, <3>2, <4>1, ConcatEmptySeq
    <3>3. CASE ~HandsOver(o, ret) BY <2>1, <2>2, <2>3, <2>5, <2>7, <3>3
    <3> QED BY <3>2, <3>3
  <2>9. OneEntry(ops) BY <2>6, <2>7 DEF OneEntry
  <2>10. fault' = FALSE /\ ListSafe' /\ (Ends("return")' => Ends("return") /\ Last' = Last)
    BY <1>2, <2>8, <2>9, QuietMove
  <2>11. CASE ~Ends("return") BY <2>10, <2>11 DEF SafeInv, ResultSafe
  <2>12. CASE Ends("return")
    <3>1. HeldBelow(base)' = HeldBelow(base)
      <4>1. PICK b : b = base OBVIOUS
      <4>2. base' = b BY <1>2, <4>1, SameHolders
      <4>3. \A q \in Place : q[1] < b => var'[q] = var[q]
        <5>1. p[1] = depth BY <2>2
        <5>2. ~(p[1] < b) BY <1>3, <1>4, <2>12, <4>1, <5>1
        <5> QED BY <2>4, <5>2
      <4>4. {var'[q] : q \in {q \in Place : q[1] < b}} = {var[q] : q \in {q \in Place : q[1] < b}} BY <4>3
      <4>5. HeldBelow(b)' = HeldBelow(b) BY <1>2, <4>4 DEF HeldBelow, Reach, Closed
      <4> QED BY <4>1, <4>2, <4>5
    <3>2. ASSUME NEW y \in Object, Last.value = <<"object", y>>, Safe(y) PROVE Safe(y)'
      <4>1. Slots(y) = {} /\ y \in live \ Dying /\ ret = {y} BY <1>4, <2>12, <3>2 DEF Safe
      <4>2. CASE HandsOver(o, ret)
        <5>1. (y \in Dying' <=> y \in Dying) /\ Given(y)' = Given(y) BY <2>8, <4>2, WorkSame
        <5> QED BY <1>2, <1>5, <4>1, <5>1 DEF Safe
      <4>3. CASE ~HandsOver(o, ret)
        <5>1. ops = <<u>> BY <2>7, <4>3
        <5>2. ops \in Seq(Op) /\ Len(ops) = 1 /\ ops[1] = u /\ ops # <<>> BY <2>6, <5>1, OneOp
        <5>3. Len(work) > 0 BY <1>4, <2>12
        <5>4. Stays(ops, 0) BY <2>8, <5>2, <5>3, PushStays
        <5>5. \A i \in 1 .. Len(ops) : i = 1 BY <5>2
        <5>6. ~Lists(ops, "destroy", y) BY <2>6, <5>2, <5>5 DEF Lists
        <5>7. y \notin Dying' BY <4>1, <5>4, <5>6 DEF Stays
        <5>8. Given(y)' = 1 => y = o BY <2>6, <5>2, <5>4 DEF Stays
        <5>9. n_shares' = n_shares BY <2>8, <4>3 DEF share
        <5>10. Given(y)' = 1 => n_shares[y] > 1
          <6>1. y = o => ~(n_shares[y] <= 1) BY <4>1, <4>3 DEF HandsOver
          <6>2. n_shares[y] \in Nat BY DEF IInv, TypeOK
          <6> QED BY <5>8, <6>1, <6>2
        <5> QED BY <1>2, <1>5, <4>1, <5>7, <5>9, <5>10 DEF Safe
      <4> QED BY <4>2, <4>3
    <3>3. \A x \in Object, f \in Field : SlotIs(x, f) => SlotIs(x, f)' BY <1>2, <3>1 DEF SlotIs
    <3>4. \A y \in Object : Ends("return") /\ Last.value = <<"object", y>> /\ ObjectIs(y) => ObjectIs(y)'
      BY <1>2, <3>1, <3>2 DEF ObjectIs
    <3>5. ResultSafe' BY <2>10, <3>3, <3>4, ResultKept DEF SafeInv
    <3> QED BY <2>10, <3>5 DEF SafeInv
  <2> QED BY <2>11, <2>12
<1> QED BY <1>6, <1>7

(* What a caller goes on with.                                             *)
StoresAt(ops, k, r) ==
  \A i \in 1 .. Len(ops) : /\ ops[i].op \in {"create", "store", "sweep"}
                           /\ ops[i].op = "store" => ops[i].obj = r /\ i = k

Ending(a, o, to, r) == (IF a THEN <<Create(o)>> ELSE <<>>) \o Finish(to, r)
Finishes(ops, a, o, r) ==
  /\ ops \in Seq(Op) /\ Len(ops) \in Nat /\ Len(ops) >= 1 /\ ops[Len(ops)].op = "sweep"
  /\ a => ops[1].op = "create" /\ ops[1].obj = o
  /\ StoresAt(ops, IF a THEN 2 ELSE 1, r)

LEMMA EndingIs ==
  ASSUME NEW a \in BOOLEAN, NEW o, a => o \in Object, NEW to \in Place \cup {Null},
         NEW r \in Object \cup {Null}, depth \in Block
  PROVE  Finishes(Ending(a, o, to, r), a, o, r)
<1>0. PICK ops : ops = Ending(a, o, to, r) OBVIOUS
<1> SUFFICES /\ ops \in Seq(Op) /\ Len(ops) \in Nat /\ Len(ops) >= 1 /\ ops[Len(ops)].op = "sweep"
             /\ a => ops[1].op = "create" /\ ops[1].obj = o
             /\ StoresAt(ops, IF a THEN 2 ELSE 1, r)
  BY <1>0 DEF Finishes
<1>11. ops = (IF a THEN <<Create(o)>> ELSE <<>>) \o Finish(to, r) BY <1>0 DEF Ending
<1>1. PICK ret : ret = {} OBVIOUS
<1>2. PICK s : s = Sweep(depth, ret) OBVIOUS
<1>3. s \in Op /\ s.op = "sweep"
  <2>1. ret \subseteq Object BY <1>1
  <2> QED BY <1>2, <2>1, BlockOps
<1>4. PICK z : z = <<s>> OBVIOUS
<1>5. z \in Seq(Op) /\ Len(z) = 1 /\ z[1] = s BY <1>3, <1>4, OneOp
<1>6. PICK q : q = Finish(to, r) OBVIOUS
<1>7. q = (IF to = Null THEN <<>> ELSE <<Store(to, r)>>) \o z BY <1>1, <1>2, <1>4, <1>6 DEF Finish
<1>8. /\ q \in Seq(Op) /\ Len(q) \in Nat /\ Len(q) >= 1 /\ q[Len(q)].op = "sweep" /\ StoresAt(q, 1, r)
  <2>1. CASE to = Null
    <3>1. q = <<>> \o z BY <1>7, <2>1
    <3>2. q = z BY <1>5, <3>1, ConcatEmptySeq
    <3>3. q \in Seq(Op) /\ Len(q) = 1 /\ q[1] = s BY <1>5, <3>2
    <3>4. \A i \in 1 .. Len(q) : i = 1 BY <3>3
    <3>5. StoresAt(q, 1, r) BY <1>3, <3>3, <3>4 DEF StoresAt
    <3>6. q[Len(q)].op = "sweep" BY <1>3, <3>3
    <3>7. Len(q) \in Nat /\ Len(q) >= 1 BY <3>3
    <3> QED BY <3>3, <3>5, <3>6, <3>7
  <2>2. CASE to # Null
    <3>1. PICK t : t = Store(to, r) OBVIOUS
    <3>2. t \in Op /\ t.op = "store" /\ t.obj = r BY <2>2, <3>1, StoreOps
    <3>3. q = <<t>> \o z BY <1>7, <2>2, <3>1
    <3>4. /\ q \in Seq(Op) /\ Len(q) = Len(z) + 1 /\ q[1] = t
          /\ \A i \in 2 .. Len(q) : q[i] = z[i - 1]
      <4>1. z \in Seq(Op) BY <1>5
      <4>2. t \in Op /\ q = Before(t, z) BY <3>2, <3>3 DEF Before
      <4>3. IsBefore(q, t, z) BY <4>1, <4>2, OneInFront
      <4> QED BY <4>3 DEF IsBefore
    <3>5. Len(q) = 2 BY <1>5, <3>4
    <3>6. q[2] = s
      <4>1. PICK i : i = 2 OBVIOUS
      <4>2. i \in 2 .. Len(q) /\ i - 1 = 1 BY <3>5, <4>1
      <4>3. q[i] = z[i - 1] BY <3>4, <4>2
      <4> QED BY <1>5, <4>1, <4>2, <4>3
    <3>7. \A i \in 1 .. Len(q) : i = 1 \/ i = 2 BY <3>5
    <3>8. StoresAt(q, 1, r) BY <1>3, <3>2, <3>4, <3>6, <3>7 DEF StoresAt
    <3>9. q[Len(q)].op = "sweep" BY <1>3, <3>5, <3>6
    <3>10. Len(q) \in Nat /\ Len(q) >= 1 BY <3>5
    <3> QED BY <3>4, <3>8, <3>9, <3>10
  <2> QED BY <2>1, <2>2
<1>9. CASE a
  <2>1. PICK c : c = Create(o) OBVIOUS
  <2>2. c \in Op /\ c.op = "create" /\ c.obj = o BY <1>9, <2>1, ObjectOps
  <2>3. ops = <<c>> \o q BY <1>6, <1>9, <1>11, <2>1
  <2>4. /\ ops \in Seq(Op) /\ Len(ops) = Len(q) + 1 /\ ops[1] = c
        /\ \A i \in 2 .. Len(ops) : ops[i] = q[i - 1]
    <3>1. q \in Seq(Op) BY <1>8
    <3>2. c \in Op /\ ops = Before(c, q) BY <2>2, <2>3 DEF Before
    <3>3. IsBefore(ops, c, q) BY <3>1, <3>2, OneInFront
    <3> QED BY <3>3 DEF IsBefore
  <2>5. PICK n \in Nat : n = Len(q) /\ n >= 1 BY <1>8
  <2>6. Len(ops) = n + 1 BY <2>4, <2>5
  <2>7. ASSUME NEW i \in 1 .. Len(ops)
        PROVE  /\ ops[i].op \in {"create", "store", "sweep"}
               /\ ops[i].op = "store" => ops[i].obj = r /\ i = 2
    <3>1. CASE i = 1 BY <2>2, <2>4, <3>1
    <3>2. CASE i # 1
      <4>1. PICK j \in 1 .. n : j = i - 1 /\ i = j + 1 /\ i \in 2 .. Len(ops) BY <2>6, <3>2
      <4>2. ops[i] = q[j] BY <2>4, <4>1
      <4>3. /\ q[j].op \in {"create", "store", "sweep"}
            /\ q[j].op = "store" => q[j].obj = r /\ j = 1
        BY <1>8, <2>5 DEF StoresAt
      <4> QED BY <4>1, <4>2, <4>3
    <3> QED BY <3>1, <3>2
  <2>8. ops[Len(ops)].op = "sweep"
    <3>1. n + 1 \in 2 .. Len(ops) /\ n + 1 - 1 = n BY <2>5, <2>6
    <3>2. ops[n + 1] = q[n + 1 - 1] BY <2>4, <3>1
    <3> QED BY <1>8, <2>5, <2>6, <3>1, <3>2
  <2>9. StoresAt(ops, 2, r) BY <2>7 DEF StoresAt
  <2> QED BY <1>9, <2>2, <2>4, <2>5, <2>6, <2>8, <2>9
<1>10. CASE ~a
  <2>1. ops = <<>> \o q BY <1>6, <1>10, <1>11
  <2>2. ops = q BY <1>8, <2>1, ConcatEmptySeq
  <2> QED BY <1>8, <1>10, <2>2
<1> QED BY <1>9, <1>10

LEMMA ReturnSafe == ASSUME IInv, SafeInv, DoReturn PROVE SafeInv'
<1>1. PICK e : e = Current OBVIOUS
<1>2. PICK value : value = e.value OBVIOUS
<1>3. /\ work \in Seq(QuietOp) /\ work # <<>> /\ e = work[1] /\ e \in Op /\ Does("return")
      /\ e.op = "return" /\ EntryIs(e, 1) /\ (\A y : ~Creates(y)) /\ (\A y : Given(y) = 0)
      /\ UNCHANGED <<live, share, var, field, cyclic, depth>>
  <2>1. Does("return") /\ UNCHANGED <<live, share, var, field, cyclic, depth>> BY DEF DoReturn
  <2>2. (\A y : ~Creates(y)) /\ (\A y : Given(y) = 0) BY <2>1, FrontIs
  <2>3. /\ work \in Seq(QuietOp) /\ work # <<>> /\ Current = work[1] /\ work[1] \in Op
        /\ work[1].op = "return" /\ EntryIs(work[1], 1)
    BY <2>1, QuietFront
  <2> QED BY <1>1, <2>1, <2>2, <2>3
<1>4. Len(work) = 1 /\ Last = e /\ Ends("return") /\ ~SweepWaits /\ frames # <<>>
  <2>1. 1 = Len(work) /\ frames # <<>> BY <1>3 DEF EntryIs
  <2>2. Last = e BY <1>3, <2>1 DEF Last
  <2>3. Ends("return") BY <1>3, <2>2 DEF Ends
  <2>4. Len(work) = 1 BY <2>1
  <2>5. ~(Len(work) > 1) BY <2>4
  <2> QED BY <2>1, <2>2, <2>3, <2>5 DEF SweepWaits
<1>5. ResultIs(e) BY <1>4 DEF SafeInv, ResultSafe
<1>6. \A y : y \notin Dying
  <2>1. \A i \in 1 .. Len(work) : work[i].op = "return" BY <1>3, <1>4
  <2> QED BY <2>1, DyingHas DEF Has
<1>7. PICK to : to = frames[Len(frames)].to OBVIOUS
<1>8. /\ base \in Nat /\ depth \in Nat /\ depth \in Block /\ to \in Place \cup {Null} /\ value \in Value
      /\ e.ret \subseteq Object
  BY <1>2, <1>3, <1>4, <1>7, FramesIs, OpIs
<1>9. CASE InFunction
  <2>1. PICK ret : ret = e.ret OBVIOUS
  <2>2. PICK u : u = PopScope(ret) OBVIOUS
  <2>3. u \in Op /\ u.op = "pop"
    <3>1. ret \subseteq Object BY <1>8, <2>1
    <3> QED BY <2>2, <3>1, BlockOps
  <2>4. PICK ops : ops = <<u>> OBVIOUS
  <2>5. ops \in Seq(Op) /\ Len(ops) = 1 /\ ops[1] = u /\ ops # <<>> BY <2>3, <2>4, OneOp
  <2>6. work' = ops \o work /\ UNCHANGED <<frames, fault>> BY <1>1, <1>9, <2>1, <2>2, <2>4 DEF DoReturn
  <2>7. OneEntry(ops) BY <2>3, <2>4 DEF OneEntry
  <2>8. fault' = FALSE /\ ListSafe' /\ (Ends("return")' => Ends("return") /\ Last' = Last)
    BY <1>3, <2>6, <2>7, QuietMove
  <2>9. ASSUME NEW y \in Object, Safe(y) PROVE Safe(y)'
    <3>1. Slots(y) = {} /\ y \in live BY <2>9 DEF Safe
    <3>2. Len(work) > 0 BY <1>4
    <3>3. Stays(ops, 0) BY <2>5, <2>6, <3>2, PushStays
    <3>4. \A i \in 1 .. Len(ops) : i = 1 BY <2>5
    <3>5. ~Lists(ops, "destroy", y) BY <2>3, <2>5, <3>4 DEF Lists
    <3>6. y \notin Dying' BY <1>6, <3>3, <3>5 DEF Stays
    <3>7. Given(y)' = 0 BY <2>3, <2>5, <3>3 DEF Stays
    <3>8. Slots(y)' = Slots(y) BY <1>3, SameHolders
    <3> QED BY <1>3, <3>1, <3>6, <3>7, <3>8 DEF Safe
  <2>10. ResultSafe' BY <1>3, <2>6, <2>8, <2>9, ResultStays DEF SafeInv
  <2> QED BY <2>8, <2>10 DEF SafeInv
<1>10. CASE ~InFunction
  <2>1. PICK o : o = value[2] OBVIOUS
  <2>2. value[1] = "object" => o \in Object /\ o \in live
    <3> SUFFICES ASSUME value[1] = "object" PROVE o \in Object /\ o \in live OBVIOUS
    <3>1. o \in Object BY <1>8, <2>1, ValueIs
    <3>2. ObjectIs(o) BY <1>2, <1>5, <2>1 DEF ResultIs
    <3>3. o \in HeldBelow(base) \/ o \in live BY <1>3, <3>2 DEF ObjectIs, Safe
    <3>4. o \in HeldBelow(base) => HeldIn(o) \/ Slots(o) # {} BY LowerIs
    <3>5. o \in live
      <4>1. HeldIn(o) \/ Slots(o) # {} => o \in live BY <3>1, HeldLives DEF HeldIn
      <4> QED BY <3>3, <3>4, <4>1
    <3> QED BY <3>1, <3>5
  <2>3. value[1] = "slot" => /\ value[2] \in Object /\ value[3] \in Field
                             /\ value[2] \in live /\ field[value[2]][value[3]] # Null
    <3> SUFFICES ASSUME value[1] = "slot"
                 PROVE  /\ value[2] \in Object /\ value[3] \in Field
                        /\ value[2] \in live /\ field[value[2]][value[3]] # Null
      OBVIOUS
    <3>1. value[2] \in Object /\ value[3] \in Field BY <1>8, ValueIs
    <3>2. SlotIs(value[2], value[3]) BY <1>2, <1>5 DEF ResultIs
    <3>3. value[2] \in HeldBelow(base) /\ field[value[2]][value[3]] # Null BY <3>2 DEF SlotIs
    <3>4. HeldIn(value[2]) \/ Slots(value[2]) # {} BY <3>3, LowerIs
    <3>5. value[2] \in live BY <3>1, <3>4, HeldLives DEF HeldIn
    <3> QED BY <3>1, <3>3, <3>5
  <2>4. ~Gone(value) BY <2>1, <2>2, <2>3 DEF Gone
  <2>5. PICK a \in BOOLEAN : a <=> value[1] = "object" /\ created[o] = 0 OBVIOUS
  <2>6. PICK r : r = CASE value[1] = "object" -> o
                       [] value[1] = "slot" /\ to # Null -> field[value[2]][value[3]]
                       [] value[1] = "variable" -> var[<<1, value[2]>>]
                       [] OTHER -> Null
    OBVIOUS
  <2>7. PICK ops : ops = (IF a THEN <<Create(o)>> ELSE <<>>) \o Finish(to, r) OBVIOUS
  <2>8. Then(ops) /\ fault' = FALSE
    <3>1. /\ fault' = fault
          /\ Then((IF value[1] = "object" /\ created[o] = 0 THEN <<Create(o)>> ELSE <<>>)
                  \o CASE value[1] = "object" -> Finish(to, o)
                       [] value[1] = "slot" /\ to # Null -> Finish(to, field[value[2]][value[3]])
                       [] value[1] = "variable" -> Finish(to, var[<<1, value[2]>>])
                       [] OTHER -> Finish(to, Null))
      BY <1>1, <1>2, <1>7, <1>10, <2>1, <2>4 DEF DoReturn
    <3>2. (CASE value[1] = "object" -> Finish(to, o)
             [] value[1] = "slot" /\ to # Null -> Finish(to, field[value[2]][value[3]])
             [] value[1] = "variable" -> Finish(to, var[<<1, value[2]>>])
             [] OTHER -> Finish(to, Null)) = Finish(to, r)
      <4>1. CASE value[1] = "object"
        <5>1. r = o BY <2>6, <4>1
        <5> QED BY <4>1, <5>1
      <4>2. CASE value[1] = "slot" /\ to # Null
        <5>1. r = field[value[2]][value[3]] BY <2>6, <4>2
        <5> QED BY <4>2, <5>1
      <4>3. CASE value[1] = "variable"
        <5>1. r = var[<<1, value[2]>>] BY <2>6, <4>3
        <5> QED BY <4>3, <5>1
      <4>4. CASE value[1] # "object" /\ ~(value[1] = "slot" /\ to # Null) /\ value[1] # "variable"
        <5>1. r = Null BY <2>6, <4>4
        <5> QED BY <4>4, <5>1
      <4> QED BY <4>1, <4>2, <4>3, <4>4
    <3>3. (IF value[1] = "object" /\ created[o] = 0 THEN <<Create(o)>> ELSE <<>>)
            = (IF a THEN <<Create(o)>> ELSE <<>>)
      BY <2>5
    <3> QED BY <2>7, <3>1, <3>2, <3>3 DEF SafeInv
  <2>9. r \in Object \cup {Null} /\ (a => r = o) /\ (r # Null /\ ~a => CanShare(r))
    <3>1. CASE value[1] = "object"
      <4>1. r = o /\ o \in Object /\ o \in live BY <2>2, <2>6, <3>1
      <4>2. ~a => CanShare(o)
        <5>1. ~(depth >= base) BY <1>10 DEF InFunction
        <5>2. ~Ends("sweep") /\ ~Ends("unwind") BY <1>4 DEF Ends
        <5>3. home[o] = 0 BY <1>4, <4>1, <5>1, <5>2 DEF IInv, PoolsAre
        <5>4. KindIs(o) BY <4>1 DEF IInv, KindsAre
        <5> QED BY <1>6, <2>5, <3>1, <4>1, <5>3, <5>4 DEF KindIs, CanShare
      <4> QED BY <4>1, <4>2
    <3>2. CASE value[1] = "slot" /\ to # Null
      <4>1. PICK x \in Object, f \in Field : x = value[2] /\ f = value[3] /\ field[x][f] # Null BY <2>3, <3>2
      <4>2. r = field[x][f] BY <2>6, <3>2, <4>1
      <4>3. r \in Object BY <4>1, <4>2 DEF IInv, TypeOK
      <4>4. <<x, f>> \in Slots(r) BY <4>2 DEF Slots
      <4>5. r \in live /\ created[r] # 0 /\ n_shares[r] # 0 BY <4>3, <4>4, HeldLives
      <4> QED BY <2>5, <3>2, <4>3, <4>5 DEF CanShare
    <3>3. CASE value[1] = "variable"
      <4>1. PICK v \in Variable : v = value[2] BY <1>8, <3>3, ValueIs
      <4>2. PICK p \in Place : p = <<1, v>> BY FramesIs DEF Place
      <4>3. r = var[p] BY <2>6, <3>3, <4>1, <4>2
      <4>4. r \in Object \cup {Null} BY <4>3 DEF IInv, TypeOK
      <4>5. r # Null => r \in live /\ created[r] # 0 /\ n_shares[r] # 0 BY <4>3, <4>4, HeldLives
      <4> QED BY <2>5, <3>3, <4>4, <4>5 DEF CanShare
    <3>4. CASE value[1] # "object" /\ ~(value[1] = "slot" /\ to # Null) /\ value[1] # "variable"
      <4>1. r = Null BY <2>6, <3>4
      <4> QED BY <2>5, <3>4, <4>1
    <3> QED BY <3>1, <3>2, <3>3, <3>4
  <2>10. /\ ops \in Seq(Op) /\ Len(ops) \in Nat /\ Len(ops) >= 1 /\ ops[Len(ops)].op = "sweep"
         /\ a => ops[1].op = "create" /\ ops[1].obj = o
         /\ StoresAt(ops, IF a THEN 2 ELSE 1, r)
    <3>1. a => o \in Object BY <2>2, <2>5
    <3>2. r \in Object \cup {Null} BY <2>9
    <3>3. to \in Place \cup {Null} /\ depth \in Block BY <1>8
    <3>4. Finishes(Ending(a, o, to, r), a, o, r) BY <3>1, <3>2, <3>3, EndingIs
    <3>5. ops = Ending(a, o, to, r) BY <2>7 DEF Ending
    <3>6. Finishes(ops, a, o, r) BY <3>4, <3>5
    <3> QED BY <3>6 DEF Finishes
  <2>11. work' \in Seq(Op) /\ Len(work') = Len(ops) /\ \A i \in 1 .. Len(ops) : work'[i] = ops[i]
    <3>1. work \in Seq(Op) BY DEF IInv, WorkAre
    <3>2. After(ops, 1) BY <1>3, <2>8, <2>10, <3>1, ThenIs
    <3>3. Len(work') = Len(ops) BY <1>4, <2>10, <3>2 DEF After
    <3> QED BY <3>2, <3>3 DEF After
  <2>12. work' # <<>> /\ 1 \in 1 .. Len(ops) /\ Len(ops) \in 1 .. Len(ops) BY <2>10, <2>11, EmptySeq
  <2>13. ~Ends("return")' BY <2>10, <2>11, <2>12 DEF Ends, Last
  <2>14. a => Creates(o)' BY <2>10, <2>11, <2>12 DEF Creates, First
  <2>15. ASSUME NEW i \in 1 .. Len(work'), NEW w, w = work'[i]
         PROVE  StoreIs(w, i)' /\ AssignIs(w, i)'
    <3>1. /\ w.op \in {"create", "store", "sweep"}
          /\ w.op = "store" => w.obj = r /\ i = (IF a THEN 2 ELSE 1)
      BY <2>10, <2>11, <2>15 DEF StoresAt
    <3>2. AssignIs(w, i)' BY <3>1 DEF AssignIs, Assigning
    <3>3. StoreIs(w, i)'
      <4>1. CASE ~Storing(w) BY <4>1 DEF StoreIs, Storing
      <4>2. CASE Storing(w) /\ a
        <5>1. i = 2 /\ Wanted(w) = o BY <2>9, <3>1, <4>2 DEF Storing, Wanted
        <5> QED BY <2>14, <4>2, <5>1 DEF StoreIs
      <4>3. CASE Storing(w) /\ ~a
        <5>1. i = 1 /\ Wanted(w) = r /\ r # Null BY <3>1, <4>3 DEF Storing, Wanted
        <5>2. CanShare(r)' BY <1>3, <2>9, <4>3, <5>1 DEF CanShare, share
        <5> QED BY <5>1, <5>2 DEF StoreIs
      <4> QED BY <4>1, <4>2, <4>3
    <3> QED BY <3>2, <3>3
  <2> QED BY <2>8, <2>13, <2>15 DEF SafeInv, ListSafe, ResultSafe
<1> QED BY <1>9, <1>10

(* What a call took that does not start.                                   *)
LEMMA StrandSafe == ASSUME IInv, SafeInv, DoStrand PROVE SafeInv'
<1>1. PICK o : o = Current.arg OBVIOUS
<1>2. /\ work[1].op = "unwind" /\ Current = work[1] /\ Len(work) = 1 /\ Does("unwind") /\ work # <<>>
      /\ work \in Seq(Op) /\ o # Null
  BY <1>1, OnlyUnwinding DEF DoStrand, Does, IInv, WorkAre
<1>3. CanShare(o)
  <2>1. StoreIs(work[1], 1)
    <3>1. 1 \in 1 .. Len(work) BY <1>2
    <3> QED BY <3>1 DEF SafeInv, ListSafe
  <2> QED BY <1>1, <1>2, <2>1 DEF StoreIs, Storing, Wanted
<1>4. PICK u : u = Unwind(Null) OBVIOUS
<1>5. Then(<<u>>) /\ fault' = fault BY <1>1, <1>3, <1>4 DEF DoStrand
<1>6. u \in Op /\ u.op = "unwind" /\ u.arg = Null BY <1>4, OtherOps
<1>7. PICK ops : ops = <<u>> OBVIOUS
<1>8. ops \in Seq(Op) /\ Len(ops) = 1 /\ ops[1] = u /\ Then(ops) BY <1>5, <1>6, <1>7, OneOp
<1>9. After(ops, 1) BY <1>2, <1>8, ThenIs
<1>10. work' \in Seq(Op) /\ Len(work') = 1 /\ work'[1] = u
  <2>1. Len(work') = 1 /\ 1 \in 1 .. Len(ops) BY <1>2, <1>8, <1>9 DEF After
  <2> QED BY <1>8, <1>9, <2>1 DEF After
<1>11. ASSUME NEW i \in 1 .. Len(work'), NEW e, e = work'[i]
       PROVE  StoreIs(e, i)' /\ AssignIs(e, i)'
  <2>1. i = 1 BY <1>10
  <2>2. e.op = "unwind" /\ e.arg = Null BY <1>6, <1>10, <1>11, <2>1
  <2> QED BY <2>2 DEF StoreIs, AssignIs, Storing, Assigning, Wanted
<1>12. ~Ends("return")' BY <1>6, <1>10 DEF Ends, Last
<1> QED BY <1>5, <1>11, <1>12 DEF SafeInv, ListSafe, ResultSafe

LEMMA StepSafe == ASSUME IInv, SafeInv, Step PROVE SafeInv'
BY CreateSafe, StoreSafe, AssignSafe, LinkSafe, UnrefSafe, DestroySafe, SweepSafe, PopSafe, ReturnSafe,
   StrandSafe, OthersSafe DEF Step
-----------------------------------------------------------------------------
(* The statements.                                                         *)
LEMMA IdleShares ==
  ASSUME IInv, Ready, live \subseteq live', UNCHANGED share, NEW y \in Object, HeldIn(y) \/ Slots(y) # {}
  PROVE  CanShare(y)' /\ CanShare(y)
<1>1. y \in live /\ created[y] # 0 /\ n_shares[y] # 0 BY HeldLives DEF HeldIn
<1> QED BY <1>1 DEF CanShare, share

LEMMA RunSafe ==
  ASSUME IInv, Ready, fault' = fault, NEW ops \in Seq(Op), Run(ops),
         \A i \in 1 .. Len(ops) : StoreIs(ops[i], i)' /\ AssignIs(ops[i], i)'
  PROVE  SafeInv'
<1>1. PICK w : w = work' OBVIOUS
<1>2. PICK b \in Block : b = depth BY FramesIs
<1>3. /\ w \in Seq(Op) /\ Len(ops) \in Nat /\ Len(w) = Len(ops) + 1
      /\ w[Len(w)].op = "sweep" /\ \A i \in 1 .. Len(ops) : w[i] = ops[i]
  <2>1. w = ops \o <<Sweep(b, {})>> BY <1>1, <1>2 DEF Run
  <2> QED BY <2>1, RunIs
<1>4. ~Ends("return")' BY <1>1, <1>3 DEF Ends, Last
<1>5. ASSUME NEW i \in 1 .. Len(work'), NEW u, u = work'[i] PROVE StoreIs(u, i)' /\ AssignIs(u, i)'
  <2>1. CASE i \in 1 .. Len(ops)
    <3>1. u = ops[i] BY <1>1, <1>3, <1>5, <2>1
    <3> QED BY <2>1, <3>1
  <2>2. CASE i \notin 1 .. Len(ops)
    <3>1. i = Len(w)
      <4>1. i \in 1 .. Len(w) BY <1>1
      <4> QED BY <1>3, <2>2, <4>1
    <3>2. u.op = "sweep" BY <1>1, <1>3, <1>5, <3>1
    <3> QED BY <3>2 DEF StoreIs, AssignIs, Storing, Assigning
  <2> QED BY <2>1, <2>2
<1>6. ListSafe' BY <1>5 DEF ListSafe
<1> QED BY <1>4, <1>6 DEF Ready, SafeInv, ResultSafe

LEMMA OneSafe ==
  ASSUME IInv, Ready, fault' = fault, NEW u \in Op, Run(<<u>>), StoreIs(u, 1)', AssignIs(u, 1)'
  PROVE  SafeInv'
<1>1. PICK ops : ops = <<u>> OBVIOUS
<1>2. ops \in Seq(Op) /\ Len(ops) = 1 /\ ops[1] = u BY <1>1, OneOp
<1>3. \A i \in 1 .. Len(ops) : i = 1 BY <1>2
<1>4. \A i \in 1 .. Len(ops) : StoreIs(ops[i], i)' /\ AssignIs(ops[i], i)' BY <1>2, <1>3
<1>5. Run(ops) BY <1>1
<1> QED BY <1>2, <1>4, <1>5, RunSafe

LEMMA TwoListed ==
  ASSUME IInv, NEW c \in Op, NEW t \in Op, Run(<<c, t>>)
  PROVE  work' # <<>> /\ work'[1] = c
<1>1. PICK ops : ops = <<c, t>> OBVIOUS
<1>2. ops \in Seq(Op) /\ Len(ops) = 2 /\ ops[1] = c BY <1>1, TwoOps
<1>3. PICK w : w = work' OBVIOUS
<1>4. PICK b \in Block : b = depth BY FramesIs
<1>5. w \in Seq(Op) /\ Len(w) = Len(ops) + 1 /\ \A i \in 1 .. Len(ops) : w[i] = ops[i]
  <2>1. w = ops \o <<Sweep(b, {})>> BY <1>1, <1>3, <1>4 DEF Run
  <2>2. ops \in Seq(Op) BY <1>2
  <2> QED BY <2>1, <2>2, RunIs
<1>6. 1 \in 1 .. Len(ops) /\ Len(w) = 3 BY <1>2, <1>5
<1> QED BY <1>2, <1>3, <1>5, <1>6

LEMMA TwoSafe ==
  ASSUME IInv, Ready, fault' = fault, NEW c \in Op, NEW t \in Op, Run(<<c, t>>),
         StoreIs(c, 1)', AssignIs(c, 1)', StoreIs(t, 2)', AssignIs(t, 2)'
  PROVE  SafeInv'
<1>1. PICK ops : ops = <<c, t>> OBVIOUS
<1>2. ops \in Seq(Op) /\ Len(ops) = 2 /\ ops[1] = c /\ ops[2] = t BY <1>1, TwoOps
<1>3. \A i \in 1 .. Len(ops) : i = 1 \/ i = 2 BY <1>2
<1>4. \A i \in 1 .. Len(ops) : StoreIs(ops[i], i)' /\ AssignIs(ops[i], i)' BY <1>2, <1>3
<1>5. Run(ops) BY <1>1
<1> QED BY <1>2, <1>4, <1>5, RunSafe

LEMMA ListedSafe ==
  ASSUME Ready, fault' = fault, work' \in Seq(QuietOp), ResultSafe'
  PROVE  SafeInv'
BY QuietAfter DEF Ready, SafeInv

LEMMA NewSafe ==
  ASSUME IInv, NEW p \in Visible, NEW o \in Object, NEW f,
         New(p, o) \/ (f \in Field /\ SetNew(p, f, o))
  PROVE  SafeInv'
<1>1. Ready /\ fault' = fault /\ var' = var BY DEF New, SetNew
<1>2. p \in Place /\ var[p] \in Object \cup {Null} BY SeenIs
<1>3. PICK c : c = Create(o) OBVIOUS
<1>4. c \in Op /\ c.op = "create" /\ c.obj = o BY <1>3, ObjectOps
<1>5. StoreIs(c, 1)' /\ AssignIs(c, 1)' BY <1>4 DEF StoreIs, AssignIs, Storing, Assigning
<1>6. CASE New(p, o)
  <2>1. PICK a \in Object \cup {Null} : a = o OBVIOUS
  <2>2. PICK t : t = Store(p, a) OBVIOUS
  <2>3. t \in Op /\ t.op = "store" /\ t.obj = a BY <1>2, <2>2, StoreOps
  <2>4. Run(<<c, t>>) BY <1>3, <1>6, <2>1, <2>2 DEF New
  <2>5. work' # <<>> /\ work'[1] = c BY <1>4, <2>3, <2>4, TwoListed
  <2>6. Creates(a)' BY <1>4, <2>1, <2>5 DEF Creates, First
  <2>7. StoreIs(t, 2)' BY <2>3, <2>6 DEF StoreIs, Wanted
  <2>8. AssignIs(t, 2)' BY <2>3 DEF AssignIs, Assigning
  <2> QED BY <1>1, <1>4, <1>5, <2>3, <2>4, <2>7, <2>8, TwoSafe
<1>7. CASE f \in Field /\ SetNew(p, f, o)
  <2>1. PICK x \in Object : x = var[p] BY <1>2, <1>7 DEF SetNew
  <2>2. PICK t : t = Assign(x, f, o) OBVIOUS
  <2>3. t \in Op /\ t.op = "assign" /\ t.slot = <<x, f>> /\ t.obj = o BY <1>7, <2>2, SlotOps
  <2>4. Run(<<c, t>>) BY <1>3, <1>7, <2>1, <2>2 DEF SetNew
  <2>5. work' # <<>> /\ work'[1] = c BY <1>4, <2>3, <2>4, TwoListed
  <2>6. Creates(t.obj)' BY <1>4, <2>3, <2>5 DEF Creates, First
  <2>7. HeldIn(t.slot[1])' BY <1>1, <1>2, <2>1, <2>3 DEF HeldIn
  <2>8. \A j \in 1 .. 2 - 1 : work'[j].op \in {"create", "unref", "destroy"}
    <3> TAKE j \in 1 .. 2 - 1
    <3>1. j = 1 OBVIOUS
    <3> QED BY <1>4, <2>5, <3>1
  <2>9. AssignIs(t, 2)' BY <2>6, <2>7, <2>8 DEF AssignIs
  <2>10. StoreIs(t, 2)' BY <2>3 DEF StoreIs, Storing
  <2> QED BY <1>1, <1>4, <1>5, <2>3, <2>4, <2>9, <2>10, TwoSafe
<1> QED BY <1>6, <1>7

LEMMA StoresSafe ==
  ASSUME IInv, Ready, UNCHANGED <<live, share, var, field, cyclic, depth, frames, fault>>,
         NEW p \in Visible, NEW a \in Object \cup {Null}, Run(<<Store(p, a)>>),
         a # Null => HeldIn(a) \/ Slots(a) # {}
  PROVE  SafeInv'
<1>1. PICK t : t = Store(p, a) OBVIOUS
<1>2. p \in Place BY SeenIs
<1>3. t \in Op /\ t.op = "store" /\ t.obj = a BY <1>1, <1>2, StoreOps
<1>4. Run(<<t>>) BY <1>1
<1>5. a # Null => CanShare(a)'
  <2>1. a # Null => a \in Object OBVIOUS
  <2>2. live \subseteq live' /\ UNCHANGED share OBVIOUS
  <2> QED BY <2>1, <2>2, IdleShares
<1>6. StoreIs(t, 1)' BY <1>3, <1>5 DEF StoreIs, Storing, Wanted
<1>7. AssignIs(t, 1)' BY <1>3 DEF AssignIs, Assigning
<1> QED BY <1>3, <1>4, <1>6, <1>7, OneSafe

LEMMA AssignsSafe ==
  ASSUME IInv, Ready, UNCHANGED <<live, share, var, field, cyclic, depth, frames, fault>>,
         NEW x \in Object, NEW f \in Field, NEW a \in Object, Run(<<Assign(x, f, a)>>),
         HeldIn(x), HeldIn(a)
  PROVE  SafeInv'
<1>1. PICK t : t = Assign(x, f, a) OBVIOUS
<1>2. t \in Op /\ t.op = "assign" /\ t.slot = <<x, f>> /\ t.obj = a BY <1>1, SlotOps
<1>3. Run(<<t>>) BY <1>1
<1>4. HeldIn(t.slot[1])' /\ HeldIn(t.obj)' BY <1>2 DEF HeldIn
<1>5. \A j \in 1 .. 1 - 1 : FALSE OBVIOUS
<1>6. AssignIs(t, 1)' BY <1>4, <1>5 DEF AssignIs
<1>7. StoreIs(t, 1)' BY <1>2 DEF StoreIs, Storing
<1> QED BY <1>2, <1>3, <1>6, <1>7, OneSafe

LEMMA CopySafe ==
  ASSUME IInv, NEW p \in Visible, NEW q \in Visible, NEW f,
         Copy(p, q) \/ Forget(p) \/ (f \in Field /\ (Load(p, q, f) \/ Set(p, f, q)))
  PROVE  SafeInv'
<1>1. Ready /\ UNCHANGED <<live, share, var, field, cyclic, depth, frames, fault>>
  BY DEF Copy, Load, Forget, Set
<1>2. /\ var[p] \in Object \cup {Null} /\ var[q] \in Object \cup {Null} /\ p \in Place /\ q \in Place
  BY SeenIs
<1>3. HeldIn(var[p]) /\ HeldIn(var[q]) BY <1>2 DEF HeldIn
<1>4. CASE Copy(p, q)
  <2>1. PICK a \in Object \cup {Null} : a = var[q] BY <1>2
  <2>2. Run(<<Store(p, a)>>) BY <1>4, <2>1 DEF Copy
  <2> QED BY <1>1, <1>3, <2>1, <2>2, StoresSafe
<1>5. CASE f \in Field /\ Load(p, q, f)
  <2>1. PICK x \in Object : x = var[q] BY <1>2, <1>5 DEF Load
  <2>2. PICK a \in Object \cup {Null} : a = field[x][f] BY <1>5 DEF IInv, TypeOK
  <2>3. Run(<<Store(p, a)>>) BY <1>5, <2>1, <2>2 DEF Load
  <2>4. <<x, f>> \in Slots(a) BY <1>5, <2>2 DEF Slots
  <2>5. Slots(a) # {} BY <2>4
  <2> QED BY <1>1, <2>3, <2>5, StoresSafe
<1>6. CASE Forget(p)
  <2>1. PICK a \in Object \cup {Null} : a = Null OBVIOUS
  <2>2. Run(<<Store(p, a)>>) BY <1>6, <2>1 DEF Forget
  <2> QED BY <1>1, <2>1, <2>2, StoresSafe
<1>7. CASE f \in Field /\ Set(p, f, q)
  <2>1. PICK x \in Object : x = var[p] BY <1>2, <1>7 DEF Set
  <2>2. PICK a \in Object : a = var[q] BY <1>2, <1>7 DEF Set
  <2>3. Run(<<Assign(x, f, a)>>) /\ f \in Field BY <1>7, <2>1, <2>2 DEF Set
  <2>4. HeldIn(x) /\ HeldIn(a) BY <1>3, <2>1, <2>2
  <2> QED BY <1>1, <2>3, <2>4, AssignsSafe
<1> QED BY <1>4, <1>5, <1>6, <1>7

LEMMA SwapSafe ==
  ASSUME IInv, KeepsRules, NEW p \in Visible, NEW q \in Visible, Swap(p, q)
  PROVE  SafeInv'
<1>1. Ready /\ UNCHANGED <<live, share, var, field, cyclic, depth, frames, fault>> BY DEF Swap
<1>2. p \in Place /\ q \in Place /\ var[p] \in Object /\ var[q] \in Object BY SeenIs DEF Swap
<1>3. PICK a \in Object \cup {Null} : a = var[q] BY <1>2
<1>4. PICK b \in Object \cup {Null} : b = var[p] BY <1>2
<1>5. PICK c, t : c = Store(p, a) /\ t = Store(q, b) OBVIOUS
<1>6. /\ c \in Op /\ c.op = "store" /\ c.at = p /\ c.obj = a
      /\ t \in Op /\ t.op = "store" /\ t.obj = b
  BY <1>2, <1>5, StoreOps
<1>7. Run(<<c, t>>) BY <1>3, <1>4, <1>5 DEF Swap
<1>8. work' # <<>> /\ work'[1] = c BY <1>6, <1>7, TwoListed
<1>9. CanShare(a)' /\ CanShare(b)'
  <2>1. HeldIn(a) /\ HeldIn(b) /\ a \in Object /\ b \in Object BY <1>2, <1>3, <1>4 DEF HeldIn
  <2>2. live \subseteq live' /\ UNCHANGED share BY <1>1
  <2> QED BY <1>1, <2>1, <2>2, IdleShares
<1>10. Firm(b)'
  <2>1. n_shares[b] > 1 \/ created[b] = depth BY <1>4 DEF Swap, KeepsRules
  <2> QED BY <1>1, <2>1 DEF Firm, share
<1>11. First("store")' /\ var'[work'[1].at] = b BY <1>1, <1>4, <1>6, <1>8 DEF First
<1>12. StoreIs(c, 1)' BY <1>6, <1>9 DEF StoreIs, Wanted
<1>13. StoreIs(t, 2)' BY <1>6, <1>9, <1>10, <1>11 DEF StoreIs, Wanted
<1>14. AssignIs(c, 1)' /\ AssignIs(t, 2)' BY <1>6 DEF AssignIs, Assigning
<1> QED BY <1>1, <1>6, <1>7, <1>12, <1>13, <1>14, TwoSafe

LEMMA AdvanceSafe ==
  ASSUME IInv, KeepsRules, NEW p \in Visible, NEW f \in Field, NEW g \in Field, Advance(p, f, g)
  PROVE  SafeInv'
<1>1. Ready /\ UNCHANGED <<live, share, var, field, cyclic, depth, frames, fault>> BY DEF Advance
<1>2. p \in Place /\ var[p] \in Object BY SeenIs DEF Advance
<1>3. PICK x \in Object : x = var[p] BY <1>2
<1>4. PICK y \in Object : y = field[x][f] BY <1>3 DEF Advance, IInv, TypeOK
<1>5. PICK a \in Object : a = field[y][g] BY <1>3, <1>4 DEF Advance, IInv, TypeOK
<1>6. Run(<<Assign(x, f, a)>>) BY <1>3, <1>4, <1>5 DEF Advance
<1>7. HeldIn(x) BY <1>2, <1>3 DEF HeldIn
<1>8. HeldIn(a) BY <1>3, <1>4, <1>5 DEF Advance, KeepsRules, HeldIn
<1> QED BY <1>1, <1>6, <1>7, <1>8, AssignsSafe

LEMMA SetNullSafe == ASSUME IInv, NEW p \in Visible, NEW f \in Field, SetNull(p, f) PROVE SafeInv'
<1>1. Ready /\ fault' = fault BY DEF SetNull
<1>2. PICK x \in Object : x = var[p] BY SeenIs DEF SetNull
<1>3. PICK old \in Object : old = field[x][f] BY <1>2 DEF SetNull, IInv, TypeOK
<1>4. PICK u : u = Unref(old, 0) OBVIOUS
<1>5. u \in Op /\ u.op = "unref" BY <1>3, <1>4, ObjectOps
<1>6. Run(<<u>>) BY <1>2, <1>3, <1>4 DEF SetNull
<1>7. StoreIs(u, 1)' /\ AssignIs(u, 1)' BY <1>5 DEF StoreIs, AssignIs, Storing, Assigning
<1> QED BY <1>1, <1>5, <1>6, <1>7, OneSafe

LEMMA OneLast ==
  ASSUME NEW u \in Op, work' = <<u>>
  PROVE  /\ Last' = u /\ (\A op : Ends(op)' <=> u.op = op)
         /\ u.op # "destroy" => \A y : y \notin Dying'
         /\ u.op # "unref" => \A y : Given(y)' = 0
<1>1. PICK w : w = work' OBVIOUS
<1>2. Len(w) = 1 /\ w[1] = u /\ w # <<>> BY <1>1, OneOp
<1>3. Last' = u /\ \A op : Ends(op)' <=> u.op = op BY <1>1, <1>2 DEF Last, Ends
<1>4. ASSUME u.op # "destroy" PROVE \A y : y \notin Dying'
  <2>1. DOMAIN w = 1 .. Len(w) BY <1>1
  <2>2. \A i \in DOMAIN w : i = 1
    <3> TAKE i \in DOMAIN w
    <3>1. i \in 1 .. Len(w) BY <2>1
    <3>2. Len(w) = 1 BY <1>2
    <3> QED BY <3>1, <3>2
  <2>3. \A i \in DOMAIN work' : work'[i].op # "destroy" BY <1>1, <1>2, <1>4, <2>2
  <2> QED BY <2>3 DEF Dying, Pending
<1>5. ASSUME u.op # "unref" PROVE \A y : Given(y)' = 0 BY <1>1, <1>2, <1>5 DEF Given, First
<1> QED BY <1>3, <1>4, <1>5

(* The call that does not start.                                           *)
LEMMA CallFailsSafe == ASSUME IInv, CallFails PROVE SafeInv'
<1>1. /\ Ready /\ UNCHANGED <<share, var, field, cyclic, depth, frames, fault>> /\ live \subseteq live'
  BY DEF CallFails, Allocate
<1>2. CASE \E p \in Visible : var[p] # Null /\ work' = <<Unwind(var[p])>>
  <2>1. PICK p \in Visible : var[p] # Null /\ work' = <<Unwind(var[p])>> BY <1>2
  <2>2. PICK o \in Object : o = var[p] BY <2>1, SeenIs
  <2>3. PICK u : u = Unwind(o) OBVIOUS
  <2>4. u \in Op /\ u.op = "unwind" /\ u.arg = o /\ work' = <<u>> BY <2>1, <2>2, <2>3, OtherOps
  <2>5. CanShare(o)'
    <3>1. HeldIn(o) BY <2>2, SeenIs DEF HeldIn
    <3> QED BY <1>1, <3>1, IdleShares
  <2>6. ASSUME NEW i \in 1 .. Len(work'), NEW e, e = work'[i]
        PROVE  StoreIs(e, i)' /\ AssignIs(e, i)'
    <3>1. i = 1 /\ e = u BY <2>4, <2>6, OneOp
    <3> QED BY <2>4, <2>5, <3>1 DEF StoreIs, AssignIs, Assigning, Wanted
  <2>7. ResultSafe' BY <2>4, OneLast DEF ResultSafe
  <2> QED BY <1>1, <2>6, <2>7 DEF Ready, SafeInv, ListSafe
<1>3. CASE \E o \in Object : work' = <<Create(o), Unwind(o)>>
  <2>1. PICK o \in Object : work' = <<Create(o), Unwind(o)>> BY <1>3
  <2>2. PICK c, u : c = Create(o) /\ u = Unwind(o) OBVIOUS
  <2>3. c \in Op /\ c.op = "create" /\ c.obj = o BY <2>2, ObjectOps
  <2>4. u \in Op /\ u.op = "unwind" /\ u.arg = o BY <2>2, OtherOps
  <2>5. PICK ops : ops = <<c, u>> OBVIOUS
  <2>6. Len(ops) = 2 /\ ops[1] = c /\ ops[2] = u /\ ops # <<>> BY <2>3, <2>4, <2>5, TwoOps
  <2>7. work' = ops BY <2>1, <2>2, <2>5
  <2>8. Creates(o)' BY <2>3, <2>6, <2>7 DEF Creates, First
  <2>9. ASSUME NEW i \in 1 .. Len(work'), NEW e, e = work'[i]
        PROVE  StoreIs(e, i)' /\ AssignIs(e, i)'
    <3>0. Len(work') = 2 /\ work'[1] = c /\ work'[2] = u BY <2>6, <2>7
    <3>1. (i = 1 /\ e = c) \/ (i = 2 /\ e = u)
      <4>1. i \in 1 .. 2 BY <3>0
      <4> QED BY <2>9, <3>0, <4>1
    <3>2. CASE i = 1 /\ e = c BY <2>3, <3>2 DEF StoreIs, AssignIs, Storing, Assigning
    <3>3. CASE i = 2 /\ e = u BY <2>4, <2>8, <3>3 DEF StoreIs, AssignIs, Assigning, Wanted
    <3> QED BY <3>1, <3>2, <3>3
  <2>10. Last' = u BY <2>6, <2>7 DEF Last
  <2>11. ~Ends("return")' BY <2>4, <2>10 DEF Ends
  <2> QED BY <1>1, <2>9, <2>11 DEF Ready, SafeInv, ListSafe, ResultSafe
<1> QED BY <1>2, <1>3 DEF CallFails

(* The statements that list no store.                                      *)
LEMMA QuietStatements ==
  ASSUME IInv, Enter \/ Exit \/ Fail \/ ReturnNothing \/ ClearGlobalVariables
               \/ (\E to \in Visible \union {Null}, q \in Visible, v \in Variable : Call(to, q, v))
  PROVE  SafeInv'
<1>1. Ready /\ fault' = fault
  BY DEF Enter, Exit, Fail, ReturnNothing, Returning, ClearGlobalVariables, Call
<1>2. CASE Enter \/ \E to \in Visible \union {Null}, q \in Visible, v \in Variable : Call(to, q, v)
  <2>1. work' = <<>> BY <1>2 DEF Enter, Call, Ready
  <2>2. ResultSafe' BY <2>1 DEF ResultSafe, Ends
  <2> QED BY <1>1, <2>1, <2>2, QuietShort, ListedSafe
<1>3. CASE Exit
  <2>1. PICK ret : ret = {} OBVIOUS
  <2>2. PICK u : u = PopScope(ret) OBVIOUS
  <2>3. u \in Op /\ u.op = "pop"
    <3>1. ret \subseteq Object BY <2>1
    <3> QED BY <2>2, <3>1, BlockOps
  <2>4. work' = <<u>> BY <1>3, <2>1, <2>2 DEF Exit
  <2>5. ResultSafe' BY <2>3, <2>4, OneLast DEF ResultSafe
  <2>6. u \in QuietOp BY <2>3, QuietOps
  <2> QED BY <1>1, <2>4, <2>5, <2>6, QuietShort, ListedSafe
<1>4. CASE ReturnNothing
  <2>1. PICK ret, value : ret = {} /\ value = <<"nothing">> OBVIOUS
  <2>2. PICK u : u = Return(ret, value) OBVIOUS
  <2>3. u \in Op /\ u.op = "return" /\ u.value = value
    <3>1. value \in Value /\ ret \subseteq Object BY <2>1 DEF Value
    <3> QED BY <2>2, <3>1, ReturnOp
  <2>4. work' = <<u>> BY <1>4, <2>1, <2>2 DEF ReturnNothing
  <2>5. value[1] # "object" /\ value[1] # "slot" BY <2>1
  <2>6. ResultIs(u)' BY <2>3, <2>5 DEF ResultIs
  <2>7. ResultSafe' BY <2>3, <2>4, <2>6, OneLast DEF ResultSafe
  <2>8. u \in QuietOp BY <2>3, QuietOps
  <2> QED BY <1>1, <2>4, <2>7, <2>8, QuietShort, ListedSafe
<1>5. CASE Fail
  <2>1. PICK u : u = Unwind(Null) OBVIOUS
  <2>2. u \in Op /\ u.op = "unwind" /\ u \in QuietOp BY <2>1, OtherOps DEF QuietOp, Storing, Assigning, Wanted
  <2>3. CASE work' = <<Unwind(Null)>>
    <3>1. work' = <<u>> BY <2>1, <2>3
    <3>2. ResultSafe' BY <2>2, <3>1, OneLast DEF ResultSafe
    <3> QED BY <1>1, <2>2, <3>1, <3>2, QuietShort, ListedSafe
  <2>4. CASE \E o \in Object : work' = <<Create(o), Unwind(Null)>>
    <3>1. PICK o \in Object : work' = <<Create(o), Unwind(Null)>> BY <2>4
    <3>2. PICK c : c = Create(o) OBVIOUS
    <3>3. c \in Op /\ c.op = "create" BY <3>2, ObjectOps
    <3>4. c \in QuietOp BY <3>3, QuietOps
    <3>5. PICK ops : ops = <<c, u>> OBVIOUS
    <3>6. work' = ops BY <2>1, <3>1, <3>2, <3>5
    <3>7. Len(ops) = 2 /\ ops[2] = u BY <2>2, <3>3, <3>5, TwoOps
    <3>8. Last' = u BY <3>6, <3>7 DEF Last
    <3>9. ~Ends("return")' BY <2>2, <3>8 DEF Ends
    <3>10. ResultSafe' BY <3>9 DEF ResultSafe
    <3> QED BY <1>1, <2>2, <3>4, <3>5, <3>6, <3>10, QuietShort, ListedSafe
  <2> QED BY <1>5, <2>3, <2>4 DEF Fail
<1>6. CASE ClearGlobalVariables
  <2>1. PICK ret : ret = {} OBVIOUS
  <2>2. PICK d, g, s : d = Deref /\ g = Globals /\ s = Sweep(1, ret) OBVIOUS
  <2>3. d \in Op /\ d.op = "deref" /\ g \in Op /\ g.op = "globals" /\ s \in Op /\ s.op = "sweep"
    <3>1. ret \subseteq Object BY <2>1
    <3>2. PICK b \in Block : b = 1 BY DepthAssumption DEF Block
    <3>3. Sweep(b, ret) \in Op /\ Sweep(b, ret).op = "sweep" BY <3>1, SweepOp
    <3> QED BY <2>2, <3>2, <3>3, OtherOps
  <2>4. d \in QuietOp /\ g \in QuietOp /\ s \in QuietOp BY <2>3, QuietOps
  <2>5. PICK ops : ops = <<d, g, s>> OBVIOUS
  <2>6. work' = ops BY <1>6, <2>1, <2>2, <2>5 DEF ClearGlobalVariables
  <2>7. Len(ops) = 3 /\ ops[3] = s BY <2>3, <2>5, ThreeOps
  <2>8. Last' = s BY <2>6, <2>7 DEF Last
  <2>9. ~Ends("return")' BY <2>3, <2>8 DEF Ends
  <2>10. ResultSafe' BY <2>9 DEF ResultSafe
  <2> QED BY <1>1, <2>4, <2>5, <2>6, <2>10, QuietShort, ListedSafe
<1> QED BY <1>2, <1>3, <1>4, <1>5, <1>6

LEMMA ReturnVarSafe ==
  ASSUME IInv, KeepsRules, NEW p \in Visible, NEW f, ReturnVar(p) \/ (f \in Field /\ ReturnItem(p, f))
  PROVE  SafeInv'
<1>1. Ready /\ UNCHANGED <<live, share, var, field, cyclic, depth, frames, fault>>
  BY DEF ReturnVar, ReturnItem, Returning
<1>2. p \in Place /\ var[p] \in Object BY SeenIs DEF ReturnVar, ReturnItem
<1>3. PICK a \in Object : a = var[p] BY <1>2
<1>4. HeldBelow(base)' = HeldBelow(base) BY <1>1, BelowSame
<1>5. CASE f \in Field /\ ReturnItem(p, f)
  <2>1. PICK ret, value : ret = {} /\ value = <<"slot", a, f>> OBVIOUS
  <2>2. PICK u : u = Return(ret, value) OBVIOUS
  <2>3. u \in Op /\ u.op = "return" /\ u.value = value
    <3>1. value \in Value /\ ret \subseteq Object BY <1>5, <2>1 DEF Value
    <3> QED BY <2>2, <3>1, ReturnOp
  <2>4. work' = <<u>> BY <1>3, <1>5, <2>1, <2>2 DEF ReturnItem
  <2>5. a \in HeldBelow(base) /\ field[a][f] # Null BY <1>3, <1>5 DEF ReturnItem, KeepsRules
  <2>6. SlotIs(a, f)' BY <1>1, <1>4, <2>5 DEF SlotIs
  <2>7. ResultIs(u)' BY <2>1, <2>3, <2>6 DEF ResultIs
  <2>8. ResultSafe' BY <2>3, <2>4, <2>7, OneLast DEF ResultSafe
  <2>9. u \in QuietOp BY <2>3, QuietOps
  <2> QED BY <1>1, <2>4, <2>8, <2>9, QuietShort, ListedSafe
<1>6. CASE ReturnVar(p) /\ p[1] = 1
  <2>1. PICK v \in Variable : v = p[2] BY <1>2 DEF Place
  <2>2. PICK ret, value : ret = {} /\ value = <<"variable", v>> OBVIOUS
  <2>3. PICK u : u = Return(ret, value) OBVIOUS
  <2>4. u \in Op /\ u.op = "return" /\ u.value = value
    <3>1. value \in Value /\ ret \subseteq Object BY <2>2 DEF Value
    <3> QED BY <2>3, <3>1, ReturnOp
  <2>5. work' = <<u>> BY <1>6, <2>1, <2>2, <2>3 DEF ReturnVar
  <2>6. ResultIs(u)' BY <2>2, <2>4 DEF ResultIs
  <2>7. ResultSafe' BY <2>4, <2>5, <2>6, OneLast DEF ResultSafe
  <2>8. u \in QuietOp BY <2>4, QuietOps
  <2> QED BY <1>1, <2>5, <2>7, <2>8, QuietShort, ListedSafe
<1>7. CASE ReturnVar(p) /\ p[1] # 1
  <2>1. PICK ret, value : ret = {a} /\ value = <<"object", a>> OBVIOUS
  <2>2. PICK u : u = Return(ret, value) OBVIOUS
  <2>3. u \in Op /\ u.op = "return" /\ u.value = value
    <3>1. value \in Value /\ ret \subseteq Object BY <2>1 DEF Value
    <3> QED BY <2>2, <3>1, ReturnOp
  <2>4. work' = <<u>> BY <1>3, <1>7, <2>1, <2>2 DEF ReturnVar
  <2>5. Slots(a) = {} \/ a \in HeldBelow(base) BY <1>3, <1>7 DEF ReturnVar, KeepsRules
  <2>6. ObjectIs(a)'
    <3>1. CASE a \in HeldBelow(base) BY <1>4, <3>1 DEF ObjectIs
    <3>2. CASE Slots(a) = {}
      <4>1. a \in live BY <1>2, <1>3, HeldLives
      <4>2. a \notin Dying' /\ Given(a)' = 0 BY <2>3, <2>4, OneLast
      <4>3. Slots(a)' = {} BY <1>1, <3>2 DEF Slots
      <4>4. Safe(a)' BY <1>1, <4>1, <4>2, <4>3 DEF Safe
      <4> QED BY <4>4 DEF ObjectIs
    <3> QED BY <2>5, <3>1, <3>2
  <2>7. ResultIs(u)' BY <2>1, <2>3, <2>6 DEF ResultIs
  <2>8. ResultSafe' BY <2>3, <2>4, <2>7, OneLast DEF ResultSafe
  <2>9. u \in QuietOp BY <2>3, QuietOps
  <2> QED BY <1>1, <2>4, <2>8, <2>9, QuietShort, ListedSafe
<1> QED BY <1>5, <1>6, <1>7

LEMMA ReturnNewSafe == ASSUME IInv, NEW o \in Object, ReturnNew(o) PROVE SafeInv'
<1>1. Ready /\ fault' = fault BY DEF ReturnNew, Returning
<1>2. PICK c : c = Create(o) OBVIOUS
<1>3. c \in Op /\ c.op = "create" /\ c.obj = o BY <1>2, ObjectOps
<1>4. PICK ret, value : ret = {o} /\ value = <<"object", o>> OBVIOUS
<1>5. PICK u : u = Return(ret, value) OBVIOUS
<1>6. u \in Op /\ u.op = "return" /\ u.value = value
  <2>1. value \in Value /\ ret \subseteq Object BY <1>4 DEF Value
  <2> QED BY <1>5, <2>1, ReturnOp
<1>7. PICK ops : ops = <<c, u>> OBVIOUS
<1>8. Len(ops) = 2 /\ ops[1] = c /\ ops[2] = u /\ ops # <<>> BY <1>3, <1>6, <1>7, TwoOps
<1>9. work' = ops BY <1>2, <1>4, <1>5, <1>7 DEF ReturnNew
<1>10. Last' = u BY <1>8, <1>9 DEF Last
<1>11. Creates(o)' BY <1>3, <1>8, <1>9 DEF Creates, First
<1>12. ResultIs(u)' BY <1>4, <1>6, <1>11 DEF ResultIs, ObjectIs
<1>13. ResultSafe' BY <1>10, <1>12 DEF ResultSafe
<1>14. c \in QuietOp /\ u \in QuietOp BY <1>3, <1>6, QuietOps
<1> QED BY <1>1, <1>7, <1>9, <1>13, <1>14, QuietShort, ListedSafe

LEMMA StatementSafe == ASSUME IInv, KeepsRules, Statement PROVE SafeInv'
<1>1. ASSUME NEW p \in Visible,
             \/ \E o \in Object : New(p, o) \/ \E f \in Field : SetNew(p, f, o)
             \/ \E q \in Visible :
                  \/ Copy(p, q)
                  \/ Swap(p, q)
                  \/ \E f \in Field : Load(p, q, f) \/ Set(p, f, q)
             \/ \E f, g \in Field : Advance(p, f, g)
             \/ \E f \in Field : SetNull(p, f) \/ ReturnItem(p, f)
             \/ Forget(p)
             \/ ReturnVar(p)
             \/ \E to \in Visible \union {Null}, v \in Variable : Call(to, p, v)
      PROVE  SafeInv'
  <2>1. CASE \E o \in Object : New(p, o) \/ \E f \in Field : SetNew(p, f, o) BY <2>1, NewSafe
  <2>2. CASE \E q \in Visible : \/ Copy(p, q)
                               \/ \E f \in Field : Load(p, q, f) \/ Set(p, f, q)
    BY <2>2, CopySafe
  <2>3. CASE \E q \in Visible : Swap(p, q) BY <2>3, SwapSafe
  <2>4. CASE \E f, g \in Field : Advance(p, f, g) BY <2>4, AdvanceSafe
  <2>5. CASE \E f \in Field : SetNull(p, f) BY <2>5, SetNullSafe
  <2>6. CASE (\E f \in Field : ReturnItem(p, f)) \/ ReturnVar(p) BY <2>6, ReturnVarSafe
  <2>7. CASE Forget(p) BY <2>7, CopySafe
  <2>8. CASE \E to \in Visible \union {Null}, v \in Variable : Call(to, p, v) BY <2>8, QuietStatements
  <2> QED BY <1>1, <2>1, <2>2, <2>3, <2>4, <2>5, <2>6, <2>7, <2>8
<1>2. CASE \E o \in Object : ReturnNew(o) BY <1>2, ReturnNewSafe
<1>3. CASE Enter \/ Exit \/ ReturnNothing \/ Fail \/ ClearGlobalVariables BY <1>3, QuietStatements
<1>4. CASE CallFails BY <1>4, CallFailsSafe
<1> QED BY <1>1, <1>2, <1>3, <1>4 DEF Statement

LEMMA SafeSame == ASSUME SafeInv, UNCHANGED vars PROVE SafeInv'
<1>1. /\ UNCHANGED <<live, share, var, field, cyclic, depth, frames, work>> /\ fault' = fault
  BY DEF vars
<1>2. ListSafe'
  BY <1>1 DEF share, SafeInv, ListSafe, StoreIs, AssignIs, Storing, Assigning, Wanted, CanShare, Firm, Fresh,
     Creates, First, HeldIn
<1>3. ResultSafe'
  <2>1. HeldBelow(base)' = HeldBelow(base) BY <1>1, BelowSame
  <2>2. \A y : ObjectIs(y)' <=> ObjectIs(y)
    BY <1>1, <2>1 DEF share, ObjectIs, Safe, Slots, Dying, Pending, Given, Creates, First
  <2>3. \A x, f : SlotIs(x, f)' <=> SlotIs(x, f) BY <1>1, <2>1 DEF SlotIs
  <2>4. Last' = Last /\ \A op : Ends(op)' <=> Ends(op) BY <1>1 DEF Last, Ends
  <2> QED BY <2>2, <2>3, <2>4 DEF SafeInv, ResultSafe, ResultIs
<1> QED BY <1>1, <1>2, <1>3 DEF SafeInv

(* The share manager is never asked for what it refuses, and nothing       *)
(* deleted is used, by any script that keeps to the four rules of stores   *)
(* and returns: every entry of work that stores or assigns names an object *)
(* that can be shared when its turn comes, and what a function returns is  *)
(* there when the caller takes it.                                         *)
THEOREM NothingEverFaults ==
  ASSUME KeepsRules
  PROVE  Spec => []NoFault
<1>1. Init => SafeInv
  <2> SUFFICES ASSUME Init PROVE SafeInv OBVIOUS
  <2>1. work = <<>> /\ fault = FALSE BY DEF Init
  <2>2. work \in Seq(QuietOp) BY <2>1, QuietShort
  <2>3. ListSafe BY <2>2, QuietSafe
  <2>4. ResultSafe BY <2>1 DEF ResultSafe, Ends
  <2> QED BY <2>1, <2>3, <2>4 DEF SafeInv
<1>2. IInv /\ SafeInv /\ [Next]_vars => SafeInv' BY StepSafe, StatementSafe, SafeSame DEF Next
<1>3. SafeInv => NoFault BY DEF SafeInv, NoFault
<1> QED BY <1>1, <1>2, <1>3, HeapInvariant, PTL DEF Spec
=============================================================================
