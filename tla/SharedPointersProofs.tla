------------------------ MODULE SharedPointersProofs ------------------------
(***************************************************************************)
(* Proofs about SharedPointers, for any number of objects and blocks.  The *)
(* only hypothesis on the callers is that they never hold as many          *)
(* references as n_shares has values (MaxRefs < ShareRange).               *)
(***************************************************************************)
EXTENDS SharedPointers, TLAPS

LinkTypes == /\ next \in [Object -> Object \union {Null}]
             /\ previous \in [Object -> Object \union {Null}]
             /\ first \in [Block -> Object \union {Null}]
             /\ last \in [Block -> Object \union {Null}]
             /\ parked \in [Object -> Block \union {Null}]

(* A ring is one cycle: a set of nodes that contains first and is closed   *)
(* under next contains every node parked in the block.                     *)
RingsWhole == \A b \in Block : \A S \in SUBSET Object :
                 first[b] # Null /\ Closed(b, S) =>
                    \A o \in Object : parked[o] = b => o \in S

FirstIfAny == \A b \in Block : \A o \in Object : parked[o] = b => first[b] # Null

Rings == LinkTypes /\ RingsConsistent /\ RingsWhole /\ FirstIfAny

LEMMA InsertTypes ==
  ASSUME LinkTypes, NEW b \in Block, NEW o \in Object, Insert(b, o)
  PROVE  LinkTypes'
BY DEF LinkTypes, Insert

(* vm_insert_shared_node, when the ring is empty and when it is not.       *)
LEMMA InsertConsistent ==
  ASSUME Rings, NEW b \in Block, NEW o \in Object, parked[o] = Null, Insert(b, o)
  PROVE  RingsConsistent'
<1>1. LinkTypes' BY InsertTypes DEF Rings
<1>2. CASE first[b] = Null
  <2>1. /\ first' = [first EXCEPT ![b] = o] /\ last' = [last EXCEPT ![b] = o]
        /\ next' = [next EXCEPT ![o] = o] /\ previous' = [previous EXCEPT ![o] = o]
        /\ parked' = [parked EXCEPT ![o] = b]
    BY <1>2 DEF Insert
  <2>2. \A p \in Object : parked[p] # b BY <1>2 DEF Rings, FirstIfAny
  <2> QED
    BY <1>1, <2>1, <2>2, NullAssumption DEF Rings, RingsConsistent, LinkTypes
<1>3. CASE first[b] # Null
  <2>1. /\ parked' = [parked EXCEPT ![o] = b]
        /\ previous' = [previous EXCEPT ![o] = last[b], ![first[b]] = o]
        /\ next' = [next EXCEPT ![last[b]] = o, ![o] = first[b]]
        /\ last' = [last EXCEPT ![b] = o] /\ first' = first
    BY <1>3 DEF Insert
  <2> QED
    BY <1>1, <2>1, <1>3, NullAssumption DEF Rings, RingsConsistent, LinkTypes
<1> QED BY <1>2, <1>3

LEMMA InsertWhole ==
  ASSUME Rings, NEW b \in Block, NEW o \in Object, parked[o] = Null, Insert(b, o)
  PROVE  RingsWhole' /\ FirstIfAny'
<1>1. LinkTypes' BY InsertTypes DEF Rings
<1>2. FirstIfAny'
  BY <1>1, NullAssumption DEF Rings, FirstIfAny, LinkTypes, Insert
<1>3. ASSUME NEW c \in Block, NEW S \in SUBSET Object, (first[c] # Null)',
             Closed(c, S)', NEW p \in Object, (parked[p] = c)'
      PROVE  p \in S
  <2>1. CASE c # b
    (* The ring of c has not changed, and its nodes do not lead to o.      *)
    <3> DEFINE T == {q \in S : parked[q] = c}
    <3>1. first[c] # Null /\ first'[c] = first[c] /\ parked[p] = c
      BY <2>1, <1>3, NullAssumption DEF Insert, Rings, LinkTypes
    <3>2. \A q \in T : next'[q] = next[q]
      BY <2>1, NullAssumption DEF Insert, Rings, LinkTypes, RingsConsistent
    <3>3. Closed(c, T)
      BY <3>1, <3>2, <1>3, NullAssumption DEF Closed, Rings, RingsConsistent, LinkTypes
    <3> QED BY <3>1, <3>3 DEF Rings, RingsWhole
  <2>2. CASE c = b /\ first[b] = Null
    <3>1. p = o BY <2>2, <1>3 DEF Insert, Rings, LinkTypes, FirstIfAny
    <3>2. first'[b] = o BY <2>2 DEF Insert, Rings, LinkTypes
    <3> QED BY <3>1, <3>2, <2>2, <1>3 DEF Closed
  <2>3. CASE c = b /\ first[b] # Null
    (* The nodes of S that were in the ring are closed under the old next, *)
    (* so the old last is in S, and o follows it.                          *)
    <3> DEFINE T == {q \in S : parked[q] = b}
    <3>1. /\ next' = [next EXCEPT ![last[b]] = o, ![o] = first[b]]
          /\ first' = first /\ parked' = [parked EXCEPT ![o] = b]
      BY <2>3 DEF Insert
    <3>2. first[b] \in T
      BY <2>3, <3>1, <1>3 DEF Closed, Rings, RingsConsistent
    <3>3. \A q \in T : next[q] \in T
      <4> SUFFICES ASSUME NEW q \in T PROVE next[q] \in T OBVIOUS
      <4>1. CASE q = last[b]
        BY <4>1, <3>2, <2>3 DEF Rings, RingsConsistent
      <4>2. CASE q # last[b]
        <5>1. next'[q] = next[q]
          BY <4>2, <3>1, NullAssumption DEF Rings, LinkTypes
        <5> QED BY <5>1, <1>3, <2>3, NullAssumption DEF Closed, Rings, RingsConsistent
      <4> QED BY <4>1, <4>2
    <3>4. \A q \in Object : parked[q] = b => q \in S
      BY <3>2, <3>3, <2>3 DEF Closed, Rings, RingsWhole
    <3>5. last[b] \in S
      BY <3>4, <2>3, NullAssumption DEF Rings, RingsConsistent, LinkTypes
    <3>6. o \in S
      <4>1. last[b] # o
        BY <2>3, NullAssumption DEF Rings, RingsConsistent
      <4>2. next'[last[b]] = o
        BY <4>1, <3>1, <2>3, NullAssumption DEF Rings, RingsConsistent, LinkTypes
      <4> QED BY <4>2, <3>5, <1>3, <2>3 DEF Closed
    <3> QED BY <3>4, <3>6, <3>1, <1>3, <2>3 DEF Rings, LinkTypes
  <2> QED BY <2>1, <2>2, <2>3
<1>4. RingsWhole' BY <1>3 DEF RingsWhole
<1> QED BY <1>2, <1>4

LEMMA InsertRings ==
  ASSUME Rings, NEW b \in Block, NEW o \in Object, parked[o] = Null, Insert(b, o)
  PROVE  Rings'
BY InsertTypes, InsertConsistent, InsertWhole DEF Rings
-----------------------------------------------------------------------------
(* vm_deattach_shared_node, called with the list the node is linked in.    *)

LEMMA DetachTypes ==
  ASSUME LinkTypes, NEW b \in Block, NEW o \in Object, Detach(b, o)
  PROVE  LinkTypes'
BY DEF LinkTypes, Detach

LEMMA DetachConsistent ==
  ASSUME Rings, NEW b \in Block, NEW o \in Object, parked[o] = b, Detach(b, o)
  PROVE  RingsConsistent'
<1>1. LinkTypes' BY DetachTypes DEF Rings
<1>2. CASE previous[o] = o /\ next[o] = o
  <2>1. /\ first' = [first EXCEPT ![b] = Null] /\ last' = [last EXCEPT ![b] = Null]
        /\ next' = [next EXCEPT ![o] = Null] /\ previous' = [previous EXCEPT ![o] = Null]
        /\ parked' = [parked EXCEPT ![o] = Null]
    BY <1>2 DEF Detach
  <2> QED
    BY <1>1, <2>1, <1>2, NullAssumption DEF Rings, RingsConsistent, LinkTypes
<1>3. CASE ~(previous[o] = o /\ next[o] = o)
  <2>1. /\ parked' = [parked EXCEPT ![o] = Null]
        /\ first' = IF o = first[b] THEN [first EXCEPT ![b] = next[o]] ELSE first
        /\ last' = IF o # first[b] /\ o = last[b]
                   THEN [last EXCEPT ![b] = previous[o]] ELSE last
        /\ next' = [next EXCEPT ![previous[o]] = next[o], ![o] = Null]
        /\ previous' = [previous EXCEPT ![next[o]] = previous[o], ![o] = Null]
    BY <1>3 DEF Detach
  <2> QED
    BY <1>1, <2>1, <1>3, NullAssumption DEF Rings, RingsConsistent, LinkTypes
<1> QED BY <1>2, <1>3

(* A node linked to itself is alone in its ring.                           *)
LEMMA SingleNode ==
  ASSUME Rings, NEW b \in Block, NEW o \in Object, parked[o] = b,
         previous[o] = o, next[o] = o
  PROVE  first[b] = o /\ \A q \in Object : parked[q] = b => q = o
<1>1. first[b] = o
  <2> SUFFICES ASSUME first[b] # o PROVE FALSE OBVIOUS
  <2> DEFINE S == {q \in Object : parked[q] = b /\ q # o}
  <2>1. first[b] # Null BY DEF Rings, FirstIfAny
  <2>2. first[b] \in S
    BY <2>1, NullAssumption DEF Rings, RingsConsistent, LinkTypes
  <2>3. \A q \in S : next[q] \in S
    BY NullAssumption DEF Rings, RingsConsistent, LinkTypes
  <2>4. o \in S BY <2>1, <2>2, <2>3 DEF Rings, RingsWhole, Closed
  <2> QED BY <2>4
<1>2. Closed(b, {o}) BY <1>1 DEF Closed
<1>3. first[b] # Null BY <1>1, NullAssumption
<1>4. {o} \in SUBSET Object OBVIOUS
<1> QED BY <1>1, <1>2, <1>3, <1>4 DEF Rings, RingsWhole

LEMMA DetachWhole ==
  ASSUME Rings, NEW b \in Block, NEW o \in Object, parked[o] = b, Detach(b, o)
  PROVE  RingsWhole' /\ FirstIfAny'
<1>1. LinkTypes' BY DetachTypes DEF Rings
<1>2. /\ parked' = [parked EXCEPT ![o] = Null]
      /\ \A c \in Block : c # b => first'[c] = first[c]
  BY DEF Detach, Rings, LinkTypes
<1>3. FirstIfAny'
  <2>1. CASE previous[o] = o /\ next[o] = o
    BY <1>2, <2>1, SingleNode, NullAssumption DEF Rings, FirstIfAny, LinkTypes
  <2>2. CASE ~(previous[o] = o /\ next[o] = o)
    BY <1>2, <2>2, NullAssumption DEF Rings, FirstIfAny, LinkTypes, RingsConsistent, Detach
  <2> QED BY <2>1, <2>2
<1>4. ASSUME NEW c \in Block, NEW S \in SUBSET Object, (first[c] # Null)',
             Closed(c, S)', NEW p \in Object, (parked[p] = c)'
      PROVE  p \in S
  <2>0. parked[p] = c /\ p # o
    BY <1>2, <1>4, NullAssumption DEF Rings, LinkTypes
  <2>1. CASE c # b
    <3> DEFINE T == {q \in S : parked[q] = c}
    <3>1. first[c] # Null /\ first'[c] = first[c]
      BY <2>1, <1>2, <1>4
    <3>2. \A q \in T : next'[q] = next[q]
      BY <2>1, NullAssumption DEF Detach, Rings, LinkTypes, RingsConsistent
    <3>3. Closed(c, T)
      BY <3>1, <3>2, <1>4, NullAssumption DEF Closed, Rings, RingsConsistent, LinkTypes
    <3> QED BY <3>1, <3>3, <2>0 DEF Rings, RingsWhole
  <2>2. CASE c = b /\ previous[o] = o /\ next[o] = o
    BY <2>2, <2>0, SingleNode
  <2>3. CASE c = b /\ ~(previous[o] = o /\ next[o] = o)
    (* If S holds the predecessor of o it becomes closed under the old     *)
    (* next when o is added; if it does not, it was closed already.        *)
    <3>1. /\ next' = [next EXCEPT ![previous[o]] = next[o], ![o] = Null]
          /\ first' = IF o = first[b] THEN [first EXCEPT ![b] = next[o]] ELSE first
      BY <2>3 DEF Detach
    <3>2. o \notin S
      BY <3>1, <1>4, <2>3, NullAssumption DEF Closed, Rings, LinkTypes
    <3>3. first[b] # Null
      BY DEF Rings, FirstIfAny
    <3>4. \A q \in S : q # previous[o] => next[q] \in S
      BY <3>1, <3>2, <1>4, <2>3 DEF Closed, Rings, LinkTypes
    <3>5. CASE previous[o] \in S
      <4>1. next[o] \in S
        <5>1. previous[o] # o
          BY <2>3, NullAssumption DEF Rings, RingsConsistent, LinkTypes
        <5>2. next'[previous[o]] = next[o]
          BY <5>1, <3>1, NullAssumption DEF Rings, RingsConsistent, LinkTypes
        <5> QED BY <5>2, <3>5, <1>4, <2>3 DEF Closed
      <4>2. next[previous[o]] = o
        BY NullAssumption DEF Rings, RingsConsistent
      <4>3. first[b] \in S \union {o}
        BY <3>1, <1>4, <2>3 DEF Closed, Rings, LinkTypes
      <4>4. Closed(b, S \union {o})
        BY <4>1, <4>2, <4>3, <3>4 DEF Closed
      <4>5. S \union {o} \in SUBSET Object OBVIOUS
      <4> QED BY <4>4, <4>5, <3>3, <2>0, <2>3 DEF Rings, RingsWhole
    <3>6. CASE previous[o] \notin S
      <4>1. \A q \in S : next[q] \in S BY <3>4, <3>6
      <4>2. CASE o # first[b]
        <5>1. first[b] \in S BY <4>2, <3>1, <1>4, <2>3 DEF Closed
        <5>2. Closed(b, S) BY <4>1, <5>1 DEF Closed
        <5> QED BY <5>2, <3>3, <2>0, <2>3 DEF Rings, RingsWhole
      <4>3. CASE o = first[b]
        (* first moves to the successor of o, so S with o added is closed. *)
        <5>1. next[o] \in S
          BY <4>3, <3>1, <1>4, <2>3 DEF Closed, Rings, LinkTypes
        <5>2. Closed(b, S \union {o}) BY <4>1, <4>3, <5>1 DEF Closed
        <5>3. S \union {o} \in SUBSET Object OBVIOUS
        <5> QED BY <5>2, <5>3, <3>3, <2>0, <2>3 DEF Rings, RingsWhole
      <4> QED BY <4>2, <4>3
    <3> QED BY <3>5, <3>6
  <2> QED BY <2>1, <2>2, <2>3
<1>5. RingsWhole' BY <1>4 DEF RingsWhole
<1> QED BY <1>3, <1>5

LEMMA DetachRings ==
  ASSUME Rings, NEW b \in Block, NEW o \in Object, parked[o] = b, Detach(b, o)
  PROVE  Rings'
BY DetachTypes, DetachConsistent, DetachWhole DEF Rings

LEMMA SameRings == ASSUME Rings, UNCHANGED links PROVE Rings'
BY DEF Rings, links, LinkTypes, RingsConsistent, RingsWhole, FirstIfAny, Closed
-----------------------------------------------------------------------------
(* The inductive invariant: the rings hold exactly the temporaries, counts *)
(* are exact, and a running sweep stands on the first node of its list.    *)

LinkedAreTemporaries == \A o \in Object : parked[o] # Null <=> Temporary(o)

CreatedInBlock == \A o \in Object : status[o] = "managed" => created[o] \in Block

UnmanagedUnheld ==
  \A o \in Object : status[o] # "managed" => n_shares[o] = 0 /\ refs[o] = 0

SweepAtFirst == IF sweep = Null THEN current = Null
                ELSE current # Null /\ current = first[sweep]

IInv == /\ TypeOK
        /\ Rings
        /\ LinkedAreTemporaries
        /\ CreatedInBlock
        /\ UnmanagedUnheld
        /\ SweepAtFirst
        /\ CountsReferences
        /\ NothingThrown

LEMMA InitIInv == Init => IInv
<1> SUFFICES ASSUME Init PROVE IInv OBVIOUS
<1> USE NullAssumption, RangeAssumption DEF Init
<1>0. 0 \in 0 .. ShareRange - 1 /\ 0 \in 0 .. MaxRefs OBVIOUS
<1>1. TypeOK BY <1>0 DEF TypeOK, Status
<1>2. Rings
  BY DEF Rings, LinkTypes, RingsConsistent, RingsWhole, FirstIfAny
<1>3. /\ LinkedAreTemporaries /\ CreatedInBlock /\ UnmanagedUnheld
      /\ SweepAtFirst /\ CountsReferences /\ NothingThrown
  BY DEF LinkedAreTemporaries, CreatedInBlock, UnmanagedUnheld, SweepAtFirst,
     CountsReferences, NothingThrown, Temporary
<1> QED BY <1>1, <1>2, <1>3 DEF IInv

LEMMA IInvStep ==
  ASSUME MaxRefs < ShareRange, IInv, [Next]_vars
  PROVE  IInv'
<1> USE NullAssumption, RangeAssumption DEF IInv
<1> DEFINE Rest == /\ LinkedAreTemporaries /\ CreatedInBlock /\ UnmanagedUnheld
                   /\ SweepAtFirst /\ CountsReferences /\ NothingThrown
<1>1. ASSUME NEW o \in Object, New(o) PROVE IInv'
  <2>1. Rings' BY <1>1, SameRings DEF New
  <2>2. TypeOK' BY <1>1 DEF New, TypeOK, links, loop, Status
  <2>3. Rest'
    BY <1>1 DEF New, TypeOK, links, loop, LinkedAreTemporaries, CreatedInBlock,
       UnmanagedUnheld, SweepAtFirst, CountsReferences, NothingThrown, Temporary
  <2> QED BY <2>1, <2>2, <2>3
<1>2. ASSUME NEW o \in Object, Delete(o) PROVE IInv'
  <2>1. Rings' BY <1>2, SameRings DEF Delete
  <2>2. TypeOK' BY <1>2 DEF Delete, TypeOK, links, loop, Status
  <2>3. Rest'
    BY <1>2 DEF Delete, TypeOK, links, loop, LinkedAreTemporaries, CreatedInBlock,
       UnmanagedUnheld, SweepAtFirst, CountsReferences, NothingThrown, Temporary
  <2> QED BY <2>1, <2>2, <2>3
<1>3. ASSUME NEW o \in Object, NEW b \in Block, Create(o, b) PROVE IInv'
  <2>1. parked[o] = Null
    BY <1>3 DEF Create, LinkedAreTemporaries, Temporary, TypeOK
  <2>2. ~BadInsert(o)
    BY <2>1 DEF BadInsert, Rings, RingsConsistent
  <2>3. Insert(b, o) BY <1>3, <2>2 DEF Create
  <2>4. Rings' BY <2>1, <2>3, InsertRings
  <2>5. TypeOK'
    <3>1. n_shares' \in [Object -> 0 .. ShareRange - 1]
      BY <1>3, <2>2 DEF Create, TypeOK
    <3>2. status' \in [Object -> Status] BY <1>3, <2>2 DEF Create, TypeOK, Status
    <3>3. created' \in [Object -> Block \union {Null}] BY <1>3, <2>2 DEF Create, TypeOK
    <3>4. UNCHANGED <<sweep, current, thrown, refs>> BY <1>3, <2>2 DEF Create, loop
    <3>5. LinkTypes' BY <2>4 DEF Rings
    <3> QED BY <3>1, <3>2, <3>3, <3>4, <3>5 DEF TypeOK, LinkTypes
  <2>6. parked' = [parked EXCEPT ![o] = b] BY <2>3 DEF Insert
  <2>7. Rest'
    BY <1>3, <2>2, <2>6 DEF Create, Idle, TypeOK, loop, LinkedAreTemporaries,
       CreatedInBlock, UnmanagedUnheld, SweepAtFirst, CountsReferences,
       NothingThrown, Temporary
  <2> QED BY <2>4, <2>5, <2>7
<1>4. ASSUME NEW o \in Object, Share(o) PROVE IInv'
  <2>0. refs[o] = n_shares[o] /\ (n_shares[o] + 1) % ShareRange = n_shares[o] + 1
    <3>1. refs[o] = n_shares[o] /\ refs[o] < MaxRefs
      BY <1>4 DEF Share, CountsReferences
    <3>2. n_shares[o] \in Nat /\ n_shares[o] + 1 < ShareRange
      BY <3>1, MaxRefs < ShareRange DEF TypeOK
    <3> QED BY <3>1, <3>2
  <2>1. CASE n_shares[o] = 0
    <3>1. parked[o] = created[o] /\ created[o] \in Block
      BY <1>4, <2>0, <2>1 DEF Share, CreatedInBlock
    <3>2. ~BadDetach(o)
      BY <3>1 DEF BadDetach, Rings, RingsConsistent
    <3>3. Detach(created[o], o) BY <1>4, <2>1, <3>2 DEF Share
    <3>4. Rings' BY <3>1, <3>3, DetachRings
    <3>5. TypeOK'
      <4>1. /\ n_shares' = [n_shares EXCEPT ![o] = @ + 1]
            /\ refs' = [refs EXCEPT ![o] = @ + 1]
        BY <1>4, <2>0, <2>1, <3>2 DEF Share
      <4>2. /\ n_shares' \in [Object -> 0 .. ShareRange - 1]
            /\ refs' \in [Object -> 0 .. MaxRefs]
        BY <4>1, <1>4, <2>0, MaxRefs < ShareRange DEF Share, TypeOK
      <4> QED
        BY <4>2, <1>4, <2>1, <3>2, <3>4
        DEF Share, TypeOK, Rings, LinkTypes, loop, Status
    <3>6. parked' = [parked EXCEPT ![o] = Null] BY <3>3 DEF Detach
    <3>7. Rest'
      BY <1>4, <2>0, <2>1, <3>2, <3>6 DEF Share, Idle, TypeOK, loop,
         LinkedAreTemporaries, CreatedInBlock, UnmanagedUnheld, SweepAtFirst,
         CountsReferences, NothingThrown, Temporary
    <3> QED BY <3>4, <3>5, <3>7
  <2>2. CASE n_shares[o] # 0
    <3>1. Rings' BY <1>4, <2>2, SameRings DEF Share
    <3>2. TypeOK'
      <4>1. /\ n_shares' = [n_shares EXCEPT ![o] = @ + 1]
            /\ refs' = [refs EXCEPT ![o] = @ + 1]
        BY <1>4, <2>0, <2>2 DEF Share
      <4>2. /\ n_shares' \in [Object -> 0 .. ShareRange - 1]
            /\ refs' \in [Object -> 0 .. MaxRefs]
        BY <4>1, <1>4, <2>0, MaxRefs < ShareRange DEF Share, TypeOK
      <4> QED BY <4>2, <1>4, <2>2 DEF Share, TypeOK, links, loop, Status
    <3>3. Rest'
      BY <1>4, <2>0, <2>2 DEF Share, TypeOK, links, loop,
         LinkedAreTemporaries, CreatedInBlock, UnmanagedUnheld, SweepAtFirst,
         CountsReferences, NothingThrown, Temporary
    <3> QED BY <3>1, <3>2, <3>3
  <2> QED BY <2>1, <2>2
<1>5. ASSUME NEW o \in Object, Unref(o) PROVE IInv'
  <2>1. n_shares[o] # 0 BY <1>5 DEF Unref, CountsReferences, TypeOK
  <2>2. Rings' BY <1>5, <2>1, SameRings DEF Unref
  <2>3. TypeOK' BY <1>5, <2>1 DEF Unref, TypeOK, links, loop, Status
  <2>4. Rest'
    BY <1>5, <2>1 DEF Unref, TypeOK, links, loop, LinkedAreTemporaries,
       CreatedInBlock, UnmanagedUnheld, SweepAtFirst, CountsReferences,
       NothingThrown, Temporary
  <2> QED BY <2>2, <2>3, <2>4
<1>6. ASSUME NEW o \in Object, NEW b \in Block, UnrefTo(o, b) PROVE IInv'
  <2>1. n_shares[o] # 0 BY <1>6 DEF UnrefTo, CountsReferences, TypeOK
  <2>2. parked[o] = Null
    BY <2>1 DEF LinkedAreTemporaries, Temporary
  <2>3. CASE n_shares[o] = 1
    <3>1. Insert(b, o) BY <1>6, <2>1, <2>3 DEF UnrefTo
    <3>2. Rings' BY <3>1, <2>2, InsertRings
    <3>3. TypeOK'
      <4>1. /\ n_shares' \in [Object -> 0 .. ShareRange - 1]
            /\ refs' \in [Object -> 0 .. MaxRefs]
        BY <1>6, <2>1, <2>3 DEF UnrefTo, TypeOK
      <4>2. UNCHANGED <<status, created, sweep, current, thrown>> BY <1>6, <2>1 DEF UnrefTo, loop
      <4>3. LinkTypes' BY <3>2 DEF Rings
      <4> QED BY <4>1, <4>2, <4>3 DEF TypeOK, LinkTypes
    <3>4. parked' = [parked EXCEPT ![o] = b] BY <3>1 DEF Insert
    <3>5. Rest'
      BY <1>6, <2>1, <2>3, <3>4 DEF UnrefTo, Idle, TypeOK, loop,
         LinkedAreTemporaries, CreatedInBlock, UnmanagedUnheld, SweepAtFirst,
         CountsReferences, NothingThrown, Temporary
    <3> QED BY <3>2, <3>3, <3>5
  <2>4. CASE n_shares[o] # 1
    <3>1. Rings' BY <1>6, <2>1, <2>4, SameRings DEF UnrefTo
    <3>2. TypeOK'
      <4>1. n_shares' = [n_shares EXCEPT ![o] = @ - 1] /\ refs' = [refs EXCEPT ![o] = @ - 1]
        BY <1>6, <2>1 DEF UnrefTo
      <4>2. /\ n_shares' \in [Object -> 0 .. ShareRange - 1]
            /\ refs' \in [Object -> 0 .. MaxRefs]
        BY <1>6, <2>1, <4>1 DEF UnrefTo, TypeOK
      <4>3. UNCHANGED <<status, created, sweep, current, thrown>> BY <1>6, <2>1 DEF UnrefTo, loop
      <4>4. UNCHANGED links BY <1>6, <2>1, <2>4 DEF UnrefTo
      <4> QED BY <4>2, <4>3, <4>4 DEF TypeOK, links
    <3>3. Rest'
      BY <1>6, <2>1, <2>4 DEF UnrefTo, TypeOK, links, loop,
         LinkedAreTemporaries, CreatedInBlock, UnmanagedUnheld, SweepAtFirst,
         CountsReferences, NothingThrown, Temporary
    <3> QED BY <3>1, <3>2, <3>3
  <2> QED BY <2>3, <2>4
<1>7. ASSUME NEW o \in Object, HandOver(o) PROVE IInv'
  <2>1. CASE n_shares[o] = 0
    <3>1. parked[o] = created[o] /\ created[o] \in Block
      BY <1>7, <2>1 DEF HandOver, CreatedInBlock
    <3>2. ~BadDetach(o)
      BY <3>1 DEF BadDetach, Rings, RingsConsistent
    <3>3. Detach(created[o], o) BY <1>7, <2>1, <3>2 DEF HandOver
    <3>4. Rings' BY <3>1, <3>3, DetachRings
    <3>5. TypeOK'
      <4>1. /\ n_shares' \in [Object -> 0 .. ShareRange - 1]
            /\ refs' \in [Object -> 0 .. MaxRefs]
        BY <1>7, <2>1, <3>2 DEF HandOver, TypeOK
      <4> QED
        BY <4>1, <1>7, <2>1, <3>2, <3>4 DEF HandOver, TypeOK, Rings, LinkTypes, loop, Status
    <3>6. parked' = [parked EXCEPT ![o] = Null] BY <3>3 DEF Detach
    <3>7. Rest'
      BY <1>7, <2>1, <3>2, <3>6 DEF HandOver, Idle, TypeOK, loop,
         LinkedAreTemporaries, CreatedInBlock, UnmanagedUnheld, SweepAtFirst,
         CountsReferences, NothingThrown, Temporary
    <3> QED BY <3>4, <3>5, <3>7
  <2>2. CASE n_shares[o] # 0
    <3>1. Rings' BY <1>7, <2>2, SameRings DEF HandOver
    <3>2. TypeOK' BY <1>7, <2>2 DEF HandOver, TypeOK, links, loop, Status
    <3>3. Rest'
      BY <1>7, <2>2 DEF HandOver, TypeOK, links, loop,
         LinkedAreTemporaries, CreatedInBlock, UnmanagedUnheld, SweepAtFirst,
         CountsReferences, NothingThrown, Temporary
    <3> QED BY <3>1, <3>2, <3>3
  <2> QED BY <2>1, <2>2
<1>8. ASSUME NEW b \in Block, SweepBegin(b) PROVE IInv'
  <2>1. Rings' BY <1>8, SameRings DEF SweepBegin
  <2>2. TypeOK' BY <1>8 DEF SweepBegin, TypeOK, links
  <2>3. Rest'
    BY <1>8 DEF SweepBegin, TypeOK, links, LinkedAreTemporaries, CreatedInBlock,
       UnmanagedUnheld, SweepAtFirst, CountsReferences, NothingThrown, Temporary
  <2> QED BY <2>1, <2>2, <2>3
<1>9. ASSUME SweepStep PROVE IInv'
  <2>1. sweep \in Block /\ current \in Object /\ current = first[sweep]
    BY <1>9 DEF SweepStep, TypeOK, SweepAtFirst
  <2>2. parked[current] = sweep
    BY <2>1 DEF Rings, RingsConsistent
  <2>3. ~BadDetach(current)
    BY <2>1, <2>2 DEF BadDetach, Rings, RingsConsistent
  <2>4. Detach(sweep, current) BY <1>9, <2>3 DEF SweepStep
  <2>5. Rings' BY <2>1, <2>2, <2>4, DetachRings
  <2>6. next[current] \in Object BY <2>1, <2>2 DEF Rings, RingsConsistent, LinkTypes
  <2>7. TypeOK'
    <3>1. status' \in [Object -> Status] BY <1>9, <2>3 DEF SweepStep, TypeOK, Status
    <3>2. created' \in [Object -> Block \union {Null}] BY <1>9, <2>3 DEF SweepStep, TypeOK
    <3>3. sweep' \in Block \union {Null} /\ current' \in Object \union {Null}
      BY <1>9, <2>1, <2>3, <2>6 DEF SweepStep
    <3>4. UNCHANGED <<n_shares, thrown, refs>> BY <1>9, <2>3 DEF SweepStep
    <3>5. LinkTypes' BY <2>5 DEF Rings
    <3> QED BY <3>1, <3>2, <3>3, <3>4, <3>5 DEF TypeOK, LinkTypes
  <2>8. parked' = [parked EXCEPT ![current] = Null] BY <2>4 DEF Detach
  <2>9. SweepAtFirst'
    <3>1. CASE next[current] = first[sweep]
      BY <3>1, <1>9, <2>3 DEF SweepStep, SweepAtFirst
    <3>2. CASE next[current] # first[sweep]
      <4>1. first' = [first EXCEPT ![sweep] = next[current]]
        BY <3>2, <2>1, <2>4 DEF Detach
      <4>2. current' = next[current] /\ sweep' = sweep
        BY <3>2, <1>9, <2>3 DEF SweepStep
      <4> QED BY <4>1, <4>2, <2>1, <2>6 DEF SweepAtFirst, TypeOK
    <3> QED BY <3>1, <3>2
  <2>10. Rest'
    BY <1>9, <2>1, <2>2, <2>3, <2>8, <2>9 DEF SweepStep, TypeOK, LinkedAreTemporaries,
       CreatedInBlock, UnmanagedUnheld, CountsReferences, NothingThrown, Temporary
  <2> QED BY <2>5, <2>7, <2>10
<1>10. ASSUME UNCHANGED vars PROVE IInv'
  <2>1. Rings' BY <1>10, SameRings DEF vars
  <2>2. TypeOK' BY <1>10 DEF vars, links, loop, TypeOK
  <2>3. Rest'
    BY <1>10 DEF vars, links, loop, LinkedAreTemporaries, CreatedInBlock,
       UnmanagedUnheld, SweepAtFirst, CountsReferences, NothingThrown, Temporary
  <2> QED BY <2>1, <2>2, <2>3
<1> QED
  BY <1>1, <1>2, <1>3, <1>4, <1>5, <1>6, <1>7, <1>8, <1>9, <1>10 DEF Next

(* The inductive invariant holds in every state, if the callers never hold *)
(* as many references as an unsigned short has values.                     *)
THEOREM Invariance == ASSUME MaxRefs < ShareRange PROVE Spec => []IInv
<1>1. Init => IInv BY InitIInv
<1>2. IInv /\ [Next]_vars => IInv' BY IInvStep
<1> QED BY <1>1, <1>2, PTL DEF Spec

(* Every variable keeps its type, and n_shares never wraps.                *)
THEOREM TypeCorrect == ASSUME MaxRefs < ShareRange PROVE Spec => []TypeOK
<1>1. IInv => TypeOK BY DEF IInv
<1> QED BY <1>1, Invariance, PTL

(* n_shares counts the references that are really held, so an object is    *)
(* freed exactly when the last one is given up.                            *)
THEOREM CountsCorrect == ASSUME MaxRefs < ShareRange PROVE Spec => []CountsReferences
<1>1. IInv => CountsReferences BY DEF IInv
<1> QED BY <1>1, Invariance, PTL

(* The links of unreferenced_objects are consistent rings in every state.  *)
THEOREM RingsCorrect == ASSUME MaxRefs < ShareRange PROVE Spec => []RingsConsistent
<1>1. IInv => RingsConsistent BY DEF IInv, Rings
<1> QED BY <1>1, Invariance, PTL

(* No internal error is thrown to a caller that respects the protocol.     *)
THEOREM NeverThrows == ASSUME MaxRefs < ShareRange PROVE Spec => []NothingThrown
<1>1. IInv => NothingThrown BY DEF IInv
<1> QED BY <1>1, Invariance, PTL
-----------------------------------------------------------------------------
(* What the walk along next reaches is what has been put in the list.      *)

LEMMA RingIsParked ==
  ASSUME Rings, NEW b \in Block
  PROVE  OnRing(b) = {o \in Object : parked[o] = b}
<1> DEFINE P == {o \in Object : parked[o] = b}
<1>1. ASSUME NEW o \in P PROVE o \in OnRing(b)
  <2>1. first[b] # Null BY DEF Rings, FirstIfAny
  <2> QED BY <2>1 DEF OnRing, Rings, RingsWhole
<1>2. ASSUME NEW o \in OnRing(b) PROVE o \in P
  <2>1. first[b] # Null BY DEF OnRing
  <2>2. Closed(b, P)
    BY <2>1, NullAssumption DEF Closed, Rings, RingsConsistent, LinkTypes
  <2>3. P \in SUBSET Object OBVIOUS
  <2> QED BY <2>2, <2>3 DEF OnRing
<1>3. OnRing(b) \subseteq Object BY DEF OnRing
<1> QED BY <1>1, <1>2, <1>3

(* No temporary is ever lost: the sweep of some block reaches it.          *)
THEOREM TemporariesReached == ASSUME MaxRefs < ShareRange PROVE Spec => []NoTemporaryLost
<1>1. IInv => NoTemporaryLost
  <2> SUFFICES ASSUME IInv, NEW o \in Object, Temporary(o)
               PROVE  \E b \in Block : o \in OnRing(b)
    BY DEF NoTemporaryLost
  <2>1. parked[o] \in Block
    BY DEF IInv, LinkedAreTemporaries, TypeOK
  <2>2. o \in OnRing(parked[o]) BY <2>1, RingIsParked DEF IInv
  <2> QED BY <2>1, <2>2
<1> QED BY <1>1, Invariance, PTL

(* A sweep reaches temporaries only: nothing that is referred to, nothing  *)
(* that is already freed.                                                  *)
THEOREM OnlyTemporariesReached ==
  ASSUME MaxRefs < ShareRange PROVE Spec => []OnlyTemporariesSwept
<1>1. IInv => OnlyTemporariesSwept
  <2> SUFFICES ASSUME IInv, NEW b \in Block, NEW o \in OnRing(b)
               PROVE  Temporary(o)
    BY DEF OnlyTemporariesSwept
  <2>1. o \in Object /\ parked[o] = b BY RingIsParked DEF IInv
  <2> QED BY <2>1, NullAssumption DEF IInv, LinkedAreTemporaries
<1> QED BY <1>1, Invariance, PTL

(* When a sweep ends, the list of its block is empty.                      *)
THEOREM SweepLeavesNothing == ASSUME MaxRefs < ShareRange PROVE Spec => SweepEmpties
<1>1. ASSUME IInv, IInv', [Next]_vars, NEW b \in Block, sweep = b, sweep' = Null
      PROVE  (OnRing(b) = {})'
  <2>1. SweepStep
    BY <1>1, NullAssumption DEF Next, vars, loop, New, Delete, Share, Unref, HandOver,
       Create, UnrefTo, SweepBegin, Throw, Idle
  <2>2. current \in Object /\ current = first[b] /\ parked[current] = b
    BY <1>1, NullAssumption DEF IInv, SweepAtFirst, TypeOK, Rings, RingsConsistent
  <2>3. ~BadDetach(current)
    BY <1>1, <2>2, NullAssumption DEF BadDetach, IInv, Rings, RingsConsistent
  <2>4. next[current] = first[b] /\ Detach(b, current)
    BY <1>1, <2>1, <2>3, NullAssumption DEF SweepStep
  <2>5. previous[current] = current
    BY <1>1, <2>2, <2>4 DEF IInv, Rings, RingsConsistent
  <2>6. (first[b] = Null)'
    BY <1>1, <2>2, <2>4, <2>5 DEF Detach, IInv, Rings, LinkTypes
  <2> QED BY <2>6 DEF OnRing
<1>2. IInv /\ IInv' /\ [Next]_vars =>
        [\A b \in Block : sweep = b /\ sweep' = Null => OnRing(b)' = {}]_vars
  BY <1>1
<1> QED BY <1>2, Invariance, PTL DEF Spec, SweepEmpties
-----------------------------------------------------------------------------
(* Refinement: the node lists implement the pools of SharedPool.           *)

PoolOf == [b \in Block |-> OnRing(b)]

LEMMA PoolIsParked ==
  ASSUME Rings PROVE PoolOf = [b \in Block |-> {o \in Object : parked[o] = b}]
BY RingIsParked DEF PoolOf

LEMMA PoolAfter ==
  (Rings => PoolOf = [b \in Block |-> {o \in Object : parked[o] = b}])'
<1>1. Rings => PoolOf = [b \in Block |-> {o \in Object : parked[o] = b}]
  BY PoolIsParked
<1> QED BY <1>1, PTL

LEMMA PoolStep ==
  ASSUME MaxRefs < ShareRange, IInv, IInv', [Next]_vars
  PROVE  Pool!Next \/ UNCHANGED <<status, refs, PoolOf>>
<1> USE NullAssumption DEF IInv
<1>1. PoolOf = [b \in Block |-> {o \in Object : parked[o] = b}]
  BY PoolIsParked
<1>2. PoolOf' = [b \in Block |-> {o \in Object : parked'[o] = b}]
  BY PoolAfter
<1>3. ASSUME parked' = parked PROVE PoolOf' = PoolOf
  BY <1>1, <1>2, <1>3
<1>4. ASSUME NEW o \in Object, NEW b \in Block, parked[o] = Null,
             parked' = [parked EXCEPT ![o] = b]
      PROVE  PoolOf' = [PoolOf EXCEPT ![b] = @ \union {o}]
  <2>1. \A c \in Block : PoolOf'[c] = IF c = b THEN PoolOf[c] \union {o} ELSE PoolOf[c]
    BY <1>1, <1>2, <1>4 DEF TypeOK
  <2> QED BY <1>1, <1>2, <2>1
<1>5. ASSUME NEW o \in Object, parked' = [parked EXCEPT ![o] = Null]
      PROVE  PoolOf' = [b \in Block |-> PoolOf[b] \ {o}]
  BY <1>1, <1>2, <1>5 DEF TypeOK
<1>6. \A o \in Object : n_shares[o] # 0 => parked[o] = Null
  BY DEF LinkedAreTemporaries, Temporary
<1>7. \A o \in Object : parked[o] = Null => \A b \in Block : o \notin PoolOf[b]
  BY <1>1
<1> HIDE DEF PoolOf
<1>10. ASSUME NEW o \in Object, New(o) PROVE Pool!Allocate(o)
  BY <1>10, <1>3 DEF New, links, Pool!Allocate, PoolOf
<1>11. ASSUME NEW o \in Object, Delete(o) PROVE Pool!Discard(o)
  BY <1>11, <1>3 DEF Delete, links, Pool!Discard, PoolOf
<1>12. ASSUME NEW o \in Object, NEW b \in Block, Create(o, b) PROVE Pool!Manage(o, b)
  <2>1. parked[o] = Null BY <1>12 DEF Create, LinkedAreTemporaries, Temporary
  <2>2. ~BadInsert(o) BY <2>1 DEF BadInsert, Rings, RingsConsistent
  <2>3. parked' = [parked EXCEPT ![o] = b] BY <1>12, <2>2 DEF Create, Insert
  <2>4. PoolOf' = [PoolOf EXCEPT ![b] = @ \union {o}] BY <2>1, <2>3, <1>4
  <2> QED BY <2>2, <2>4, <1>12 DEF Create, Pool!Manage, PoolOf
<1>13. ASSUME NEW o \in Object, Share(o) PROVE Pool!Acquire(o)
  <2>1. CASE n_shares[o] = 0
    <3>1. created[o] \in Block /\ parked[o] = created[o]
      BY <1>13, <2>1 DEF Share, CreatedInBlock, CountsReferences
    <3>2. ~BadDetach(o) BY <3>1 DEF BadDetach, Rings, RingsConsistent
    <3>3. parked' = [parked EXCEPT ![o] = Null] BY <1>13, <2>1, <3>2 DEF Share, Detach
    <3>4. PoolOf' = [b \in Block |-> PoolOf[b] \ {o}] BY <3>3, <1>5
    <3> QED BY <2>1, <3>2, <3>4, <1>13 DEF Share, Pool!Acquire, PoolOf
  <2>2. CASE n_shares[o] # 0
    <3>1. PoolOf' = PoolOf BY <1>13, <2>2, <1>3 DEF Share, links
    <3>2. PoolOf = [b \in Block |-> PoolOf[b] \ {o}]
      BY <2>2, <1>1, <1>6, <1>7
    <3> QED BY <2>2, <3>1, <3>2, <1>13 DEF Share, Pool!Acquire, PoolOf
  <2> QED BY <2>1, <2>2
<1>14. ASSUME NEW o \in Object, Unref(o)
       PROVE  Pool!Release(o) \/ Pool!ReleaseAndFree(o)
  <2>1. n_shares[o] # 0 /\ n_shares[o] = refs[o] /\ refs[o] \in Nat
    BY <1>14 DEF Unref, CountsReferences, TypeOK
  <2>2. PoolOf' = PoolOf BY <1>14, <2>1, <1>3 DEF Unref, links
  <2>3. CASE n_shares[o] = 1
    BY <2>1, <2>2, <2>3, <1>14 DEF Unref, Pool!ReleaseAndFree, PoolOf
  <2>4. CASE n_shares[o] # 1
    BY <2>1, <2>2, <2>4, <1>14 DEF Unref, Pool!Release, PoolOf
  <2> QED BY <2>3, <2>4
<1>15. ASSUME NEW o \in Object, NEW b \in Block, UnrefTo(o, b)
       PROVE  Pool!Release(o) \/ Pool!ReleaseTo(o, b)
  <2>1. n_shares[o] # 0 /\ n_shares[o] = refs[o] /\ refs[o] \in Nat
    BY <1>15 DEF UnrefTo, CountsReferences, TypeOK
  <2>2. CASE n_shares[o] = 1
    <3>1. parked' = [parked EXCEPT ![o] = b] BY <1>15, <2>1, <2>2 DEF UnrefTo, Insert
    <3>2. PoolOf' = [PoolOf EXCEPT ![b] = @ \union {o}] BY <2>1, <3>1, <1>4, <1>6
    <3>3. refs' = [refs EXCEPT ![o] = 0] BY <1>15, <2>1, <2>2 DEF UnrefTo
    <3> QED BY <2>1, <2>2, <3>2, <3>3, <1>15 DEF UnrefTo, Pool!ReleaseTo, PoolOf
  <2>3. CASE n_shares[o] # 1
    <3>1. PoolOf' = PoolOf BY <1>15, <2>1, <2>3, <1>3 DEF UnrefTo, links
    <3> QED BY <2>1, <2>3, <3>1, <1>15 DEF UnrefTo, Pool!Release, PoolOf
  <2> QED BY <2>2, <2>3
<1>16. ASSUME NEW o \in Object, HandOver(o) PROVE Pool!HandOver(o)
  <2>1. CASE n_shares[o] = 0
    <3>1. created[o] \in Block /\ parked[o] = created[o]
      BY <1>16, <2>1 DEF HandOver, CreatedInBlock
    <3>2. ~BadDetach(o) BY <3>1 DEF BadDetach, Rings, RingsConsistent
    <3>3. parked' = [parked EXCEPT ![o] = Null] BY <1>16, <2>1, <3>2 DEF HandOver, Detach
    <3>4. PoolOf' = [b \in Block |-> PoolOf[b] \ {o}] BY <3>3, <1>5
    <3> QED BY <2>1, <3>2, <3>4, <1>16 DEF HandOver, Pool!HandOver, PoolOf
  <2>2. CASE n_shares[o] # 0
    <3>1. PoolOf' = PoolOf BY <1>16, <2>2, <1>3 DEF HandOver, links
    <3>2. PoolOf = [b \in Block |-> PoolOf[b] \ {o}]
      BY <2>2, <1>1, <1>6, <1>7
    <3> QED BY <2>2, <3>1, <3>2, <1>16 DEF HandOver, Pool!HandOver, PoolOf
  <2> QED BY <2>1, <2>2
<1>17. ASSUME NEW b \in Block, SweepBegin(b) PROVE UNCHANGED <<status, refs, PoolOf>>
  BY <1>17, <1>3 DEF SweepBegin, links
<1>18. ASSUME SweepStep PROVE Pool!Collect(current, sweep)
  <2>1. sweep \in Block /\ current \in Object /\ parked[current] = sweep
    BY <1>18 DEF SweepStep, TypeOK, SweepAtFirst, Rings, RingsConsistent
  <2>2. ~BadDetach(current) BY <2>1 DEF BadDetach, Rings, RingsConsistent
  <2>3. parked' = [parked EXCEPT ![current] = Null]
    BY <1>18, <2>2 DEF SweepStep, Detach
  <2>4. PoolOf' = [PoolOf EXCEPT ![sweep] = @ \ {current}]
    <3>1. \A c \in Block :
            PoolOf'[c] = IF c = sweep THEN PoolOf[c] \ {current} ELSE PoolOf[c]
      BY <1>1, <1>2, <2>1, <2>3 DEF TypeOK
    <3> QED BY <1>1, <1>2, <2>1, <3>1
  <2>5. current \in PoolOf[sweep] BY <1>1, <2>1
  <2> QED BY <2>2, <2>4, <2>5, <1>18 DEF SweepStep, Pool!Collect, PoolOf
<1>19. ASSUME UNCHANGED vars PROVE UNCHANGED <<status, refs, PoolOf>>
  BY <1>19, <1>3 DEF vars, links
<1>20. SweepStep => current \in Object /\ sweep \in Block
  BY DEF SweepStep, TypeOK, SweepAtFirst
<1> QED
  BY <1>10, <1>11, <1>12, <1>13, <1>14, <1>15, <1>16, <1>17, <1>18, <1>19, <1>20
  DEF Next, Pool!Next

(* The node lists of the share manager implement SharedPool: whatever the  *)
(* callers do within the protocol, a walk of a list finds exactly the      *)
(* temporaries the abstract pool holds.                                    *)
THEOREM PoolImplemented == ASSUME MaxRefs < ShareRange PROVE Spec => ImplementsPool
<1>1. Init => Pool!Init
  <2>1. Init => PoolOf = [b \in Block |-> {}]
    BY DEF Init, PoolOf, OnRing
  <2> QED BY <2>1 DEF Init, Pool!Init, PoolOf
<1>2. IInv /\ IInv' /\ [Next]_vars => [Pool!Next]_(Pool!vars)
  BY PoolStep DEF Pool!vars, PoolOf
<1> QED BY <1>1, <1>2, Invariance, PTL DEF Spec, Pool!Spec, ImplementsPool
=============================================================================
