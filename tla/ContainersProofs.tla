-------------------------- MODULE ContainersProofs --------------------------
(***************************************************************************)
(* Proofs about Containers, for any number of keys, nodes and loops.  The  *)
(* table and its ring agree in every script.  What a loop visits, and that *)
(* it uses nothing freed, needs bodies that keep to all rules.             *)
(***************************************************************************)
EXTENDS Containers, SequenceTheorems, WellFoundedInduction, TLAPS

KeepsRules == {"current", "shift", "index"} \subseteq BodyRules

(* The ring of a set of numbers: each is followed by the next larger one,  *)
(* the last one by the first.                                              *)
IsRing(r, S, ids) ==
  /\ r.next \in [ids -> Nat] /\ r.previous \in [ids -> Nat]
  /\ S \subseteq ids /\ ids \subseteq Nat \ {None}
  /\ S = {} => r.first = None /\ r.last = None
  /\ S # {} => r.first \in S /\ r.last \in S
  /\ \A x \in S : r.first <= x /\ x <= r.last
  /\ \A x \in S : /\ r.next[x] \in S /\ r.previous[r.next[x]] = x
                  /\ r.previous[x] \in S /\ r.next[r.previous[x]] = x
  /\ \A x \in S : IF x = r.last THEN r.next[x] = r.first
                  ELSE x < r.next[x] /\ \A y \in S : x < y => r.next[x] <= y
  /\ \A x \in ids \ S : r.next[x] = None

NodesIn == {fields.items[i].node : i \in 1 .. Count}
Attached == {c \in Iterators : iterator[c].attached}
SeenBy(c) == {iterator[c].seen[i] : i \in 1 .. Len(iterator[c].seen)}

(* What a loop has not visited yet.                                        *)
Left(c) ==
  LET at == iterator[c].at IN
  IF kind = "object"
    THEN IF iterator[c].pc = "test"
         THEN IF iterator[c].end THEN {} ELSE {n \in NodesIn : at <= n}
         ELSE {n \in NodesIn : at < n}
    ELSE {array.slots[j] : j \in {k \in 0 .. MaxNodes : k < array.count /\
                                    IF iterator[c].pc = "test" THEN at <= k ELSE at < k}}

Loop == [pc : {"free", "test", "body", "done"}, at : Nat, end : BOOLEAN,
         attached : BOOLEAN, seen : Seq(Nat), stay : SUBSET Nat]

Shapes ==
  /\ kind \in {"object", "array"}
  /\ made \in Seq(Nat) /\ Len(made) <= MaxNodes /\ freed \subseteq 1 .. Len(made)
  /\ iterator \in [Iterators -> Loop]
  /\ fault = FALSE

(* The items are sorted and each is the key of a node that is there; the   *)
(* ring holds these nodes.                                                 *)
Fields ==
  /\ fields.items \in Seq([key : Keys, node : Nat])
  /\ Len(fields.items) <= Len(made)
  /\ \A i, j \in 1 .. Count : i < j => fields.items[i].key < fields.items[j].key
  /\ \A i \in 1 .. Count : /\ fields.items[i].node \in 1 .. Len(made) /\ fields.items[i].node \notin freed
                           /\ made[fields.items[i].node] = fields.items[i].key
  /\ IsRing(fields.ring, NodesIn, Nodes)
  /\ kind = "array" => Len(fields.items) = 0

(* What the fields need whatever the bodies of the loops do.               *)
Table ==
  /\ kind \in {"object", "array"}
  /\ made \in Seq(Nat) /\ Len(made) <= MaxNodes
  /\ kind = "object" => freed \subseteq 1 .. Len(made)
  /\ Fields

(* The slots of the array hold elements that are there, each once.         *)
ArrayFits ==
  /\ kind = "object" => array.count = 0
  /\ array.slots \in [0 .. MaxNodes + 1 -> Nat] /\ array.count \in Nat /\ array.count <= Len(made)
  /\ \A j \in 0 .. MaxNodes : j < array.count =>
       array.slots[j] \in 1 .. Len(made) /\ array.slots[j] \notin freed
  /\ \A i, j \in 0 .. MaxNodes : i < array.count /\ j < array.count /\ array.slots[i] = array.slots[j] => i = j

(* The list of the container is the ring of its attached iterators.        *)
Attachments ==
  /\ IsRing(refs, Attached, Iterators)
  /\ life.state \in {"alive", "detaching", "dead"}
  /\ life.state = "detaching" => refs.first # None /\ life.next = refs.first
  /\ life.state = "dead" => refs.first = None
  /\ \A c \in Iterators : iterator[c].attached => iterator[c].pc \in {"test", "body"}
  /\ \A c \in Iterators : iterator[c].pc = "test" => life.state = "alive"
  /\ life.state = "alive" => \A c \in Loops : iterator[c].attached

(* What stayed since a loop began is visited or left, never both.          *)
Visited(c) ==
  /\ SeenBy(c) \subseteq 1 .. Len(made)
  /\ \A i, j \in 1 .. Len(iterator[c].seen) : iterator[c].seen[i] = iterator[c].seen[j] => i = j
  /\ iterator[c].pc = "done" => iterator[c].stay \subseteq SeenBy(c)

GoesOnRight(c) ==
  /\ iterator[c].stay \subseteq SeenBy(c) \cup Left(c)
  /\ Left(c) \cap SeenBy(c) = {}
  /\ kind = "object" /\ (iterator[c].pc = "body" \/ ~ iterator[c].end) => iterator[c].at \in NodesIn

Visits ==
  /\ \A c \in Iterators : Visited(c)
  /\ life.state = "alive" => \A c \in Loops : GoesOnRight(c)

IInv == Shapes /\ Fields /\ ArrayFits /\ Attachments /\ Visits
-----------------------------------------------------------------------------
LEMMA Least == ASSUME NEW S \in SUBSET Nat, S # {} PROVE \E m \in S : \A k \in S : m <= k
<1> DEFINE R == {r \in Nat \X Nat : r[1] < r[2]}
<1>1. IsWellFoundedOn(R, Nat) BY NatLessThanWellFounded DEF OpToRel
<1> HIDE DEF R
<1>2. PICK m \in S : \A k \in S : ~ (<<k, m>> \in R) BY <1>1, WFMin
<1>3. \A k \in S : ~ (k < m) BY <1>2 DEF R
<1> QED BY <1>3

GoesOn(f, n, stop, result, width, from) ==
  f = [w \in 0 .. n |-> [lo \in 0 .. n |->
         IF stop[w][lo] THEN result[w][lo] ELSE f[width[w][lo]][from[w][lo]]]]

(* What goes on with a smaller width is defined for every width.           *)
LEMMA HalvingEnds ==
  ASSUME NEW n \in Nat, NEW stop, NEW result, NEW width, NEW from,
         \A w \in 0 .. n : \A lo \in 0 .. n : ~ stop[w][lo] => width[w][lo] \in 0 .. (w - 1)
  PROVE  \E f : GoesOn(f, n, stop, result, width, from)
<1> USE DEF GoesOn
<1> DEFINE Row(f, w) == [lo \in 0 .. n |-> IF stop[w][lo] THEN result[w][lo] ELSE f[width[w][lo]][from[w][lo]]]
           Defined(m) == \E f : f = [w \in 0 .. m |-> Row(f, w)]
           S == {m \in 0 .. n : ~ Defined(m)}
<1> SUFFICES ASSUME S # {} PROVE FALSE
  <2> HIDE DEF Defined
  <2>1. n \in 0 .. n OBVIOUS
  <2>2. S = {} => Defined(n) BY <2>1
  <2> QED BY <2>2 DEF Defined
<1>1. S \in SUBSET Nat OBVIOUS
<1>2. PICK m \in S : \A k \in S : m <= k BY <1>1, Least
<1>3. PICK c : \A w \in 0 .. (m - 1) : c[w] = Row(c, w)
  <2>1. CASE m = 0 BY <2>1
  <2>2. CASE m # 0
    <3>1. m - 1 \in 0 .. n /\ ~ (m <= m - 1) BY <2>2
    <3>2. Defined(m - 1) 
      <4> HIDE DEF Defined
      <4> QED BY <1>2, <3>1
    <3>3. PICK f : f = [w \in 0 .. (m - 1) |-> Row(f, w)] BY <3>2
    <3> HIDE DEF Row
    <3>4. \A w \in 0 .. (m - 1) : f[w] = Row(f, w) BY <3>3
    <3> QED BY <3>4
  <2> QED BY <2>1, <2>2
<1> DEFINE d == [w \in 0 .. m |-> IF w < m THEN c[w] ELSE Row(c, m)]
<1>4. \A w \in 0 .. m : d[w] = Row(c, w)
  <2> TAKE w \in 0 .. m
  <2> HIDE DEF Row
  <2>1. CASE w < m BY <1>3, <2>1
  <2>2. CASE w = m BY <2>2
  <2> QED BY <2>1, <2>2
<1>5. \A w \in 0 .. m : \A lo \in 0 .. n : ~ stop[w][lo] => d[width[w][lo]] = c[width[w][lo]]
  <2> TAKE w \in 0 .. m
  <2> TAKE lo \in 0 .. n
  <2> HAVE ~ stop[w][lo]
  <2>1. PICK v : v = width[w][lo] OBVIOUS
  <2>2. v \in 0 .. (w - 1) BY <2>1
  <2>3. v \in 0 .. m /\ v < m BY <2>2
  <2>4. d[v] = c[v] BY <2>3
  <2> HIDE DEF d
  <2> QED BY <2>1, <2>4
<1>6. \A w \in 0 .. m : Row(d, w) = Row(c, w)
  <2> HIDE DEF d
  <2> TAKE w \in 0 .. m
  <2>1. \A lo \in 0 .. n : (IF stop[w][lo] THEN result[w][lo] ELSE d[width[w][lo]][from[w][lo]])
                    = (IF stop[w][lo] THEN result[w][lo] ELSE c[width[w][lo]][from[w][lo]]) BY Zenon, <1>5
  <2> QED BY <2>1
<1>7. d = [w \in 0 .. m |-> d[w]] OBVIOUS
<1>8. \A w \in 0 .. m : d[w] = Row(d, w) BY Zenon, <1>4, <1>6
<1>9. d = [w \in 0 .. m |-> Row(d, w)] 
  <2> HIDE DEF d, Row
  <2> QED BY <1>7, <1>8
<1>10. Defined(m) 
  <2> HIDE DEF d, Row
  <2> QED BY <1>9
<1> QED 
  <2> HIDE DEF Defined
  <2> QED BY <1>2, <1>10

(* The halving of search and of newSlot, as a function of the items.       *)
Halves(f, items, n, key) ==
  f = [w \in 0 .. n |-> [lo \in 0 .. n |->
        IF w = 0 THEN None
        ELSE LET m == (lo + lo + w - 1) \div 2
             IN  IF items[m + 1].key = key THEN m + 1
                 ELSE IF items[m + 1].key < key THEN f[lo + w - 1 - m][m + 1]
                 ELSE f[m - lo][lo]]]

HalvesSlots(f, items, n, key) ==
  f = [w \in 0 .. n - 1 |-> [lo \in 0 .. n - 1 |->
        IF w = 0 THEN lo
        ELSE LET m == (lo + lo + w) \div 2
             IN  IF items[m + 1].key > key THEN f[m - lo][lo]
                 ELSE f[lo + w - m - 1][m + 1]]]

LEMMA Middle ==
  ASSUME NEW w \in Nat, NEW lo \in Nat
  PROVE  /\ (lo + lo + w) \div 2 \in Nat
         /\ lo <= (lo + lo + w) \div 2 /\ (lo + lo + w) \div 2 <= lo + w
         /\ w > 0 => (lo + lo + w) \div 2 < lo + w
OBVIOUS

LEMMA HalvesExists == ASSUME NEW items, NEW n \in Nat, NEW key PROVE \E f : Halves(f, items, n, key)
<1> DEFINE M(w, lo) == (lo + lo + (w - 1)) \div 2
           stop == [w \in 0 .. n |-> [lo \in 0 .. n |-> w = 0 \/ items[M(w, lo) + 1].key = key]]
           result == [w \in 0 .. n |-> [lo \in 0 .. n |-> IF w = 0 THEN None ELSE M(w, lo) + 1]]
           width == [w \in 0 .. n |-> [lo \in 0 .. n |->
                       IF items[M(w, lo) + 1].key < key THEN lo + w - 1 - M(w, lo) ELSE M(w, lo) - lo]]
           from == [w \in 0 .. n |-> [lo \in 0 .. n |->
                       IF items[M(w, lo) + 1].key < key THEN M(w, lo) + 1 ELSE lo]]
<1>1. \A w \in 0 .. n : \A lo \in 0 .. n : ~ stop[w][lo] => width[w][lo] \in 0 .. (w - 1)
  <2> TAKE w \in 0 .. n
  <2> TAKE lo \in 0 .. n
  <2> HAVE ~ stop[w][lo]
  <2>1. w # 0 OBVIOUS
  <2>2. w - 1 \in Nat /\ lo \in Nat BY <2>1
  <2>3. M(w, lo) \in Nat /\ lo <= M(w, lo) /\ M(w, lo) <= lo + (w - 1) BY <2>2, Middle
  <2> HIDE DEF M
  <2> QED BY <2>2, <2>3
<1>2. PICK f : GoesOn(f, n, stop, result, width, from)
  <2> HIDE DEF stop, result, width, from
  <2> QED BY <1>1, HalvingEnds
<1> DEFINE Row(w) == [lo \in 0 .. n |-> IF stop[w][lo] THEN result[w][lo] ELSE f[width[w][lo]][from[w][lo]]]
           Code(w) == [lo \in 0 .. n |->
             IF w = 0 THEN None
             ELSE LET m == (lo + lo + w - 1) \div 2
                  IN  IF items[m + 1].key = key THEN m + 1
                      ELSE IF items[m + 1].key < key THEN f[lo + w - 1 - m][m + 1]
                      ELSE f[m - lo][lo]]
<1>4. \A w \in 0 .. n : Row(w) = Code(w)
  <2> TAKE w \in 0 .. n
  <2> SUFFICES ASSUME NEW lo \in 0 .. n PROVE Row(w)[lo] = Code(w)[lo] OBVIOUS
  <2>1. lo + lo + w - 1 = lo + lo + (w - 1) OBVIOUS
  <2> QED BY <2>1
<1>5. f = [w \in 0 .. n |-> Row(w)] BY Zenon, <1>2 DEF GoesOn
<1>6. f = [w \in 0 .. n |-> Code(w)]
  <2> HIDE DEF Row, Code
  <2> QED BY <1>4, <1>5
<1> QED BY Zenon, <1>6 DEF Halves

LEMMA HalvesSlotsExists ==
  ASSUME NEW items, NEW n \in Nat \ {0}, NEW key PROVE \E f : HalvesSlots(f, items, n, key)
<1> PICK l \in Nat : l = n - 1 OBVIOUS
<1> DEFINE M(w, lo) == (lo + lo + w) \div 2
           stop == [w \in 0 .. l |-> [lo \in 0 .. l |-> w = 0]]
           result == [w \in 0 .. l |-> [lo \in 0 .. l |-> lo]]
           width == [w \in 0 .. l |-> [lo \in 0 .. l |->
                       IF items[M(w, lo) + 1].key > key THEN M(w, lo) - lo ELSE lo + w - M(w, lo) - 1]]
           from == [w \in 0 .. l |-> [lo \in 0 .. l |->
                       IF items[M(w, lo) + 1].key > key THEN lo ELSE M(w, lo) + 1]]
<1>1. \A w \in 0 .. l : \A lo \in 0 .. l : ~ stop[w][lo] => width[w][lo] \in 0 .. (w - 1)
  <2> TAKE w \in 0 .. l
  <2> TAKE lo \in 0 .. l
  <2> HAVE ~ stop[w][lo]
  <2>1. w # 0 OBVIOUS
  <2>2. w \in Nat /\ w > 0 /\ lo \in Nat BY <2>1
  <2>3. M(w, lo) \in Nat /\ lo <= M(w, lo) /\ M(w, lo) < lo + w BY <2>2, Middle
  <2> HIDE DEF M
  <2> QED BY <2>2, <2>3
<1>2. PICK f : GoesOn(f, l, stop, result, width, from)
  <2> HIDE DEF stop, result, width, from
  <2> QED BY <1>1, HalvingEnds
<1> DEFINE Row(w) == [lo \in 0 .. l |-> IF stop[w][lo] THEN result[w][lo] ELSE f[width[w][lo]][from[w][lo]]]
           Code(w) == [lo \in 0 .. n - 1 |->
             IF w = 0 THEN lo
             ELSE LET m == (lo + lo + w) \div 2
                  IN  IF items[m + 1].key > key THEN f[m - lo][lo]
                      ELSE f[lo + w - m - 1][m + 1]]
<1>3. \A w \in 0 .. l : Row(w) = Code(w) OBVIOUS
<1>4. f = [w \in 0 .. l |-> Row(w)] BY Zenon, <1>2 DEF GoesOn
<1>5. f = [w \in 0 .. n - 1 |-> Code(w)]
  <2> HIDE DEF Row, Code
  <2> QED BY <1>3, <1>4
<1> QED BY Zenon, <1>5 DEF HalvesSlots

LEMMA HalvesAt ==
  ASSUME NEW items, NEW n, NEW key, NEW f, Halves(f, items, n, key), NEW w \in 0 .. n, NEW lo \in 0 .. n
  PROVE  f[w][lo] = IF w = 0 THEN None
                    ELSE LET m == (lo + lo + w - 1) \div 2
                         IN  IF items[m + 1].key = key THEN m + 1
                             ELSE IF items[m + 1].key < key THEN f[lo + w - 1 - m][m + 1]
                             ELSE f[m - lo][lo]
<1> DEFINE Code(v, l) ==
             IF v = 0 THEN None
             ELSE LET m == (l + l + v - 1) \div 2
                  IN  IF items[m + 1].key = key THEN m + 1
                      ELSE IF items[m + 1].key < key THEN f[l + v - 1 - m][m + 1]
                      ELSE f[m - l][l]
<1>1. f = [v \in 0 .. n |-> [l \in 0 .. n |-> Code(v, l)]] BY Zenon DEF Halves
<1>2. f[w][lo] = Code(w, lo)
  <2> HIDE DEF Code
  <2>1. PICK g : g = [v \in 0 .. n |-> [l \in 0 .. n |-> Code(v, l)]] OBVIOUS
  <2>2. g[w][lo] = Code(w, lo) BY <2>1
  <2> QED BY <1>1, <2>1, <2>2
<1> QED BY Zenon, <1>2

LEMMA HalvesSlotsAt ==
  ASSUME NEW items, NEW n, NEW key, NEW f, HalvesSlots(f, items, n, key),
         NEW w \in 0 .. n - 1, NEW lo \in 0 .. n - 1
  PROVE  f[w][lo] = IF w = 0 THEN lo
                    ELSE LET m == (lo + lo + w) \div 2
                         IN  IF items[m + 1].key > key THEN f[m - lo][lo]
                             ELSE f[lo + w - m - 1][m + 1]
<1> DEFINE Code(v, l) ==
             IF v = 0 THEN l
             ELSE LET m == (l + l + v) \div 2
                  IN  IF items[m + 1].key > key THEN f[m - l][l]
                      ELSE f[l + v - m - 1][m + 1]
<1>1. f = [v \in 0 .. n - 1 |-> [l \in 0 .. n - 1 |-> Code(v, l)]] BY Zenon DEF HalvesSlots
<1>2. f[w][lo] = Code(w, lo)
  <2> HIDE DEF Code
  <2>1. PICK g : g = [v \in 0 .. n - 1 |-> [l \in 0 .. n - 1 |-> Code(v, l)]] OBVIOUS
  <2>2. g[w][lo] = Code(w, lo) BY <2>1
  <2> QED BY <1>1, <2>1, <2>2
<1> QED BY Zenon, <1>2

(* The halving finds the key, or shows that it is not there.               *)
Sorted(items, n) == /\ \A i \in 1 .. n : items[i].key \in Nat
                    /\ \A i, j \in 1 .. n : i < j => items[i].key < items[j].key

LEMMA HalvesFind ==
  ASSUME NEW items, NEW n \in Nat, NEW key \in Nat, NEW f, Halves(f, items, n, key), Sorted(items, n)
  PROVE  /\ f[n][0] \in 0 .. n
         /\ f[n][0] # None => items[f[n][0]].key = key
         /\ f[n][0] = None => \A i \in 1 .. n : items[i].key # key
<1> DEFINE Around(w, lo) == /\ lo + w <= n
                            /\ \A i \in 1 .. lo : items[i].key < key
                            /\ \A i \in (lo + w + 1) .. n : key < items[i].key
           Found(p) == /\ p \in 0 .. n
                       /\ p # None => items[p].key = key
                       /\ p = None => \A i \in 1 .. n : items[i].key # key
           S == {w \in 0 .. n : \E lo \in 0 .. n : Around(w, lo) /\ ~ Found(f[w][lo])}
<1>1. SUFFICES S = {}
  <2>1. Around(n, 0) OBVIOUS
  <2>2. n \in 0 .. n /\ 0 \in 0 .. n OBVIOUS
  <2> HIDE DEF Around, Found
  <2>3. Found(f[n][0]) BY <1>1, <2>1, <2>2
  <2> QED BY <2>3 DEF Found
<1> SUFFICES ASSUME S # {} PROVE FALSE OBVIOUS
<1>2. S \in SUBSET Nat OBVIOUS
<1>3. PICK w \in S : \A v \in S : w <= v BY <1>2, Least
<1>4. w \in 0 .. n OBVIOUS
<1>5. PICK lo \in 0 .. n : Around(w, lo) /\ ~ Found(f[w][lo]) BY <1>3
<1>6. \A v \in 0 .. n : \A l \in 0 .. n : v < w /\ Around(v, l) => Found(f[v][l])
  <2> HIDE DEF Around, Found
  <2> QED BY <1>3, <1>4
<1>7. f[w][lo] = IF w = 0 THEN None
                 ELSE LET m == (lo + lo + w - 1) \div 2
                      IN  IF items[m + 1].key = key THEN m + 1
                          ELSE IF items[m + 1].key < key THEN f[lo + w - 1 - m][m + 1]
                          ELSE f[m - lo][lo]
  BY <1>4, HalvesAt
<1>8. CASE w = 0
  <2>1. f[w][lo] = 0 BY <1>7, <1>8 DEF None
  <2>2. \A i \in 1 .. n : items[i].key \in Nat BY DEF Sorted
  <2>3. \A i \in 1 .. n : items[i].key # key
    <3> TAKE i \in 1 .. n
    <3>1. CASE i <= lo BY <1>5, <2>2, <3>1
    <3>2. CASE i > lo BY <1>5, <1>8, <2>2, <3>2
    <3> QED BY <3>1, <3>2
  <2> QED BY <1>5, <2>1, <2>3 DEF None
<1>9. CASE w # 0
  <2>1. PICK m \in Nat : m = (lo + lo + (w - 1)) \div 2 /\ lo <= m /\ m <= lo + (w - 1)
    BY <1>4, <1>9, Middle
  <2>2. lo + lo + (w - 1) = lo + lo + w - 1 BY <1>4
  <2>3. m + 1 \in 1 .. n /\ lo + w <= n BY <1>4, <1>5, <2>1
  <2>4. items[m + 1].key \in Nat BY <2>3 DEF Sorted
  <2>5. CASE items[m + 1].key = key
    <3>1. f[w][lo] = m + 1 BY <1>7, <1>9, <2>1, <2>2, <2>5
    <3> QED BY <1>5, <2>3, <2>5, <3>1 DEF None
  <2>6. CASE items[m + 1].key < key
    <3>1. PICK v : v = lo + w - 1 - m OBVIOUS
    <3>2. v \in 0 .. n /\ v < w /\ (m + 1) + v = lo + w BY <1>4, <2>1, <2>3, <3>1
    <3>3. f[w][lo] = f[v][m + 1] BY <1>7, <1>9, <2>1, <2>2, <2>4, <2>6, <3>1
    <3>4. \A i \in 1 .. (m + 1) : items[i].key < key
      <4> TAKE i \in 1 .. (m + 1)
      <4>1. i \in 1 .. n BY <2>3
      <4>2. i < m + 1 => items[i].key < items[m + 1].key BY <2>3, <4>1 DEF Sorted
      <4>3. items[i].key \in Nat BY <4>1 DEF Sorted
      <4>4. i = m + 1 \/ i < m + 1 BY <2>1
      <4> QED BY <2>4, <2>6, <4>2, <4>3, <4>4
    <3>5. Around(v, m + 1) BY <1>5, <2>3, <3>2, <3>4
    <3>6. m + 1 \in 0 .. n BY <2>3
    <3> HIDE DEF Around, Found
    <3> QED BY <1>5, <1>6, <3>2, <3>3, <3>5, <3>6
  <2>7. CASE key < items[m + 1].key
    <3>1. PICK v : v = m - lo OBVIOUS
    <3>2. v \in 0 .. n /\ v < w /\ lo + v = m BY <1>4, <2>1, <2>3, <3>1
    <3>3. f[w][lo] = f[v][lo] BY <1>7, <1>9, <2>1, <2>2, <2>4, <2>7, <3>1
    <3>4. \A i \in (m + 1) .. n : key < items[i].key
      <4> TAKE i \in (m + 1) .. n
      <4>1. i \in 1 .. n BY <2>3
      <4>2. m + 1 < i => items[m + 1].key < items[i].key BY <2>3, <4>1 DEF Sorted
      <4>3. items[i].key \in Nat BY <4>1 DEF Sorted
      <4>4. i = m + 1 \/ m + 1 < i BY <2>1
      <4> QED BY <2>4, <2>7, <4>2, <4>3, <4>4
    <3>5. Around(v, lo) BY <1>5, <2>3, <3>2, <3>4
    <3> HIDE DEF Around, Found
    <3> QED BY <1>5, <1>6, <3>2, <3>3, <3>5
  <2> QED BY <2>4, <2>5, <2>6, <2>7
<1> QED BY <1>8, <1>9

(* The place of a new key is behind the smaller ones.                      *)
LEMMA HalvesPlace ==
  ASSUME NEW items, NEW n \in Nat \ {0}, NEW key \in Nat, NEW f, HalvesSlots(f, items, n, key),
         Sorted(items, n), \A i \in 1 .. n : items[i].key # key, key < items[n].key
  PROVE  /\ f[n - 1][0] \in 0 .. n
         /\ \A i \in 1 .. f[n - 1][0] : items[i].key < key
         /\ \A i \in (f[n - 1][0] + 1) .. n : key < items[i].key
<1> DEFINE Around(w, lo) == /\ lo + w <= n - 1
                            /\ \A i \in 1 .. lo : items[i].key < key
                            /\ \A i \in (lo + w + 1) .. n : key < items[i].key
           Found(p) == /\ p \in 0 .. n
                       /\ \A i \in 1 .. p : items[i].key < key
                       /\ \A i \in (p + 1) .. n : key < items[i].key
           S == {w \in 0 .. n - 1 : \E lo \in 0 .. n - 1 : Around(w, lo) /\ ~ Found(f[w][lo])}
<1>1. SUFFICES S = {}
  <2>1. Around(n - 1, 0) OBVIOUS
  <2>2. n - 1 \in 0 .. n - 1 /\ 0 \in 0 .. n - 1 OBVIOUS
  <2> HIDE DEF Around, Found
  <2>3. Found(f[n - 1][0]) BY <1>1, <2>1, <2>2
  <2> QED BY <2>3 DEF Found
<1> SUFFICES ASSUME S # {} PROVE FALSE OBVIOUS
<1>2. S \in SUBSET Nat OBVIOUS
<1>3. PICK w \in S : \A v \in S : w <= v BY <1>2, Least
<1>4. w \in 0 .. n - 1 OBVIOUS
<1>5. PICK lo \in 0 .. n - 1 : Around(w, lo) /\ ~ Found(f[w][lo]) BY <1>3
<1>6. \A v \in 0 .. n - 1 : \A l \in 0 .. n - 1 : v < w /\ Around(v, l) => Found(f[v][l])
  <2> HIDE DEF Around, Found
  <2> QED BY <1>3, <1>4
<1>7. f[w][lo] = IF w = 0 THEN lo
                 ELSE LET m == (lo + lo + w) \div 2
                      IN  IF items[m + 1].key > key THEN f[m - lo][lo]
                          ELSE f[lo + w - m - 1][m + 1]
  BY <1>4, HalvesSlotsAt
<1>8. CASE w = 0
  <2>1. f[w][lo] = lo BY <1>7, <1>8
  <2>2. Found(lo) BY <1>5, <1>8
  <2> HIDE DEF Found
  <2> QED BY <1>5, <2>1, <2>2
<1>9. CASE w # 0
  <2>1. PICK m \in Nat : m = (lo + lo + w) \div 2 /\ lo <= m /\ m < lo + w
    BY <1>4, <1>9, Middle
  <2>2. m + 1 \in 1 .. n /\ lo + w <= n - 1 BY <1>4, <1>5, <2>1
  <2>3. items[m + 1].key \in Nat /\ items[m + 1].key # key BY <2>2 DEF Sorted
  <2>4. CASE items[m + 1].key < key
    <3>1. PICK v : v = lo + w - m - 1 OBVIOUS
    <3>2. v \in 0 .. n - 1 /\ v < w /\ (m + 1) + v = lo + w BY <1>4, <2>1, <2>2, <3>1
    <3>3. f[w][lo] = f[v][m + 1]
      <4>1. ~ (items[m + 1].key > key) BY <2>3, <2>4
      <4> QED BY <1>7, <1>9, <2>1, <3>1, <4>1
    <3>4. \A i \in 1 .. (m + 1) : items[i].key < key
      <4> TAKE i \in 1 .. (m + 1)
      <4>1. i \in 1 .. n BY <2>2
      <4>2. i < m + 1 => items[i].key < items[m + 1].key BY <2>2, <4>1 DEF Sorted
      <4>3. items[i].key \in Nat BY <4>1 DEF Sorted
      <4>4. i = m + 1 \/ i < m + 1 BY <2>1
      <4> QED BY <2>3, <2>4, <4>2, <4>3, <4>4
    <3>5. Around(v, m + 1) BY <1>5, <2>2, <3>2, <3>4
    <3>6. m + 1 \in 0 .. n - 1 BY <2>1, <2>2
    <3> HIDE DEF Around, Found
    <3> QED BY <1>5, <1>6, <3>2, <3>3, <3>5, <3>6
  <2>5. CASE key < items[m + 1].key
    <3>1. PICK v : v = m - lo OBVIOUS
    <3>2. v \in 0 .. n - 1 /\ v < w /\ lo + v = m BY <1>4, <2>1, <2>2, <3>1
    <3>3. f[w][lo] = f[v][lo]
      <4>1. items[m + 1].key > key BY <2>3, <2>5
      <4> QED BY <1>7, <1>9, <2>1, <3>1, <4>1
    <3>4. \A i \in (m + 1) .. n : key < items[i].key
      <4> TAKE i \in (m + 1) .. n
      <4>1. i \in 1 .. n BY <2>2
      <4>2. m + 1 < i => items[m + 1].key < items[i].key BY <2>2, <4>1 DEF Sorted
      <4>3. items[i].key \in Nat BY <4>1 DEF Sorted
      <4>4. i = m + 1 \/ m + 1 < i BY <2>1
      <4> QED BY <2>3, <2>5, <4>2, <4>3, <4>4
    <3>5. Around(v, lo) BY <1>5, <2>2, <3>2, <3>4
    <3> HIDE DEF Around, Found
    <3> QED BY <1>5, <1>6, <3>2, <3>3, <3>5
  <2> QED BY <2>3, <2>4, <2>5
<1> QED BY <1>8, <1>9
-----------------------------------------------------------------------------
(* Rings of numbers.                                                       *)
LEMMA EmptyIsRing ==
  ASSUME NEW ids, ids \subseteq Nat \ {None}
  PROVE  IsRing(EmptyRing(ids), {}, ids)
BY DEF IsRing, EmptyRing, None

LEMMA RingInserted ==
  ASSUME NEW r, NEW S, NEW ids, IsRing(r, S, ids), NEW x \in ids \ S, \A y \in S : y < x
  PROVE  IsRing(RingInsert(r, x), S \cup {x}, ids)
<1> PICK q : q = RingInsert(r, x) OBVIOUS
<1>1. ids \subseteq Nat \ {0} /\ S \subseteq ids /\ x \in Nat /\ x # 0 BY DEF IsRing, None
<1>2. CASE r.first = None
  <2>1. S = {} BY <1>1, <1>2 DEF IsRing, None
  <2>2. /\ q.first = x /\ q.last = x
        /\ q.next = [r.next EXCEPT ![x] = x] /\ q.previous = [r.previous EXCEPT ![x] = x]
    BY <1>2 DEF RingInsert
  <2>3. /\ r.next \in [ids -> Nat] /\ r.previous \in [ids -> Nat]
        /\ \A y \in ids \ S : r.next[y] = None
    BY DEF IsRing
  <2>4. IsRing(q, {x}, ids) BY <1>1, <2>1, <2>2, <2>3 DEF IsRing, None
  <2> QED BY <2>1, <2>4
<1>3. CASE r.first # None
  <2>1. PICK a \in S : a = r.first BY <1>3 DEF IsRing
  <2>2. PICK b \in S : b = r.last BY <1>3 DEF IsRing
  <2>3. x # a /\ x # b /\ a \in ids /\ b \in ids BY <1>1
  <2>4. /\ q.first = a /\ q.last = x
        /\ q.next = [r.next EXCEPT ![b] = x, ![x] = a]
        /\ q.previous = [r.previous EXCEPT ![x] = b, ![a] = x]
    BY <1>3, <2>1, <2>2 DEF RingInsert
  <2>5. r.next \in [ids -> Nat] /\ r.previous \in [ids -> Nat] BY DEF IsRing
  <2>6. /\ q.next \in [ids -> Nat] /\ q.previous \in [ids -> Nat]
        /\ q.next[x] = a /\ q.next[b] = x /\ \A y \in ids \ {x, b} : q.next[y] = r.next[y]
        /\ q.previous[x] = b /\ q.previous[a] = x
        /\ \A y \in ids \ {x, a} : q.previous[y] = r.previous[y]
    BY <1>1, <2>3, <2>4, <2>5
  <2>7. /\ \A y \in S : a <= y /\ y <= b
        /\ \A y \in S : /\ r.next[y] \in S /\ r.previous[r.next[y]] = y
                        /\ r.previous[y] \in S /\ r.next[r.previous[y]] = y
        /\ \A y \in S : IF y = b THEN r.next[y] = a
                        ELSE y < r.next[y] /\ \A z \in S : y < z => r.next[y] <= z
        /\ \A y \in ids \ S : r.next[y] = None
    BY <2>1, <2>2 DEF IsRing
  <2> PICK T : T = S \cup {x} OBVIOUS
  <2>8. \A y \in T : q.first <= y /\ y <= q.last BY <1>1, <2>4, <2>7
  <2>9. \A y \in S \ {b} : q.next[y] = r.next[y] /\ r.next[y] # a
    <3> TAKE y \in S \ {b}
    <3>1. y < r.next[y] /\ a <= y BY <2>7
    <3>2. a \in Nat /\ y \in Nat /\ r.next[y] \in Nat BY <1>1, <2>7
    <3> QED BY <1>1, <2>6, <3>1, <3>2
  <2>10. \A y \in S \ {a} : q.previous[y] = r.previous[y] /\ r.previous[y] # b
    <3> TAKE y \in S \ {a}
    <3>1. r.previous[y] = b => y = a BY <2>2, <2>7
    <3> QED BY <1>1, <2>6, <3>1
  <2>11. \A y \in T : q.next[y] \in T /\ q.previous[q.next[y]] = y
    <3> TAKE y \in T
    <3>1. CASE y = x BY <2>1, <2>6, <3>1
    <3>2. CASE y = b BY <2>6, <3>2
    <3>3. CASE y \in S \ {b}
      <4>1. r.next[y] \in S \ {a} BY <2>7, <2>9, <3>3
      <4>2. r.previous[r.next[y]] = y BY <2>7, <3>3
      <4> QED BY <2>9, <2>10, <3>3, <4>1, <4>2
    <3> QED BY <3>1, <3>2, <3>3
  <2>12. \A y \in T : q.previous[y] \in T /\ q.next[q.previous[y]] = y
    <3> TAKE y \in T
    <3>1. CASE y = x BY <2>2, <2>6, <3>1
    <3>2. CASE y = a BY <2>6, <3>2
    <3>3. CASE y \in S \ {a}
      <4>1. r.previous[y] \in S \ {b} BY <2>7, <2>10, <3>3
      <4>2. r.next[r.previous[y]] = y BY <2>7, <3>3
      <4> QED BY <2>9, <2>10, <3>3, <4>1, <4>2
    <3> QED BY <3>1, <3>2, <3>3
  <2>13. \A y \in T : IF y = q.last THEN q.next[y] = q.first
                      ELSE y < q.next[y] /\ \A z \in T : y < z => q.next[y] <= z
    <3> TAKE y \in T
    <3>1. CASE y = x BY <2>4, <2>6, <3>1
    <3>2. CASE y = b
      <4>1. b < x BY <2>2
      <4>2. \A z \in T : b < z => x <= z BY <1>1, <2>7
      <4> QED BY <2>3, <2>4, <2>6, <3>2, <4>1, <4>2
    <3>3. CASE y \in S \ {b}
      <4>1. y < r.next[y] /\ \A z \in S : y < z => r.next[y] <= z BY <2>7, <3>3
      <4>2. r.next[y] \in S /\ r.next[y] < x BY <2>7, <3>3
      <4>3. r.next[y] <= x
        <5>1. PICK v \in Nat : v = r.next[y] BY <1>1, <4>2
        <5> QED BY <1>1, <4>2, <5>1
      <4>4. y # x BY <3>3
      <4> QED BY <2>4, <2>9, <3>3, <4>1, <4>3, <4>4
    <3> QED BY <3>1, <3>2, <3>3
  <2>14. \A y \in ids \ T : q.next[y] = None BY <2>2, <2>6, <2>7
  <2>15. q.first \in T /\ q.last \in T /\ T \subseteq ids /\ T # {} BY <1>1, <2>1, <2>4
  <2>16. IsRing(q, T, ids) BY <1>1, <2>6, <2>8, <2>11, <2>12, <2>13, <2>14, <2>15 DEF IsRing, None
  <2> QED BY <2>16
<1> QED BY <1>2, <1>3

LEMMA RingRemoved ==
  ASSUME NEW r, NEW S, NEW ids, IsRing(r, S, ids), NEW x \in S
  PROVE  IsRing(RingRemove(r, x), S \ {x}, ids)
<1> PICK q : q = RingRemove(r, x) OBVIOUS
<1>1. ids \subseteq Nat \ {0} /\ S \subseteq ids /\ x \in Nat /\ x # 0 BY DEF IsRing, None
<1>2. r.next \in [ids -> Nat] /\ r.previous \in [ids -> Nat] BY DEF IsRing
<1>3. PICK f \in S : f = r.first BY DEF IsRing
<1>4. PICK l \in S : l = r.last BY DEF IsRing
<1>5. /\ \A y \in S : f <= y /\ y <= l
      /\ \A y \in S : /\ r.next[y] \in S /\ r.previous[r.next[y]] = y
                      /\ r.previous[y] \in S /\ r.next[r.previous[y]] = y
      /\ \A y \in ids \ S : r.next[y] = None
  BY <1>3, <1>4 DEF IsRing
<1>6. r.next[l] = f BY <1>3, <1>4 DEF IsRing
<1>7. \A y \in S : y # l => y < r.next[y] /\ \A z \in S : y < z => r.next[y] <= z
  BY <1>4 DEF IsRing
<1>8. f = l => S = {f}
  <2> HAVE f = l
  <2>1. \A y \in S : y \in Nat /\ f <= y /\ y <= f BY <1>1, <1>5
  <2> QED BY <2>1
<1> PICK T : T = S \ {x} OBVIOUS
<1>9. CASE r.next[x] = x
  <2>1. x = l BY <1>1, <1>7, <1>9
  <2>2. x = f BY <1>6, <1>9, <2>1
  <2>3. S \ {x} = {} BY <1>8, <2>1, <2>2
  <2>4. /\ q.first = None /\ q.last = None
        /\ q.next = [r.next EXCEPT ![x] = None] /\ q.previous = [r.previous EXCEPT ![x] = None]
    BY <1>9 DEF RingRemove
  <2>5. \A y \in ids : q.next[y] = None BY <1>2, <1>5, <2>3, <2>4
  <2>6. IsRing(q, {}, ids) BY <1>1, <1>2, <2>4, <2>5 DEF IsRing, None
  <2> QED BY <2>3, <2>6
<1>10. CASE r.next[x] # x
  <2>1. PICK b \in S : b = r.next[x] /\ b # x BY <1>5, <1>10
  <2>2. PICK a \in S : a = r.previous[x] /\ r.next[a] = x BY <1>5
  <2>3. a # x /\ r.previous[b] = x BY <1>5, <1>10, <2>1, <2>2
  <2>4. ~ (f = x /\ l = x) BY <1>8, <2>1
  <2>5. /\ q.first = IF f = x THEN b ELSE f
        /\ q.last = IF l = x THEN a ELSE l
        /\ q.next = [r.next EXCEPT ![a] = b, ![x] = None]
        /\ q.previous = [r.previous EXCEPT ![b] = a, ![x] = None]
    BY <1>3, <1>4, <1>10, <2>1, <2>2 DEF RingRemove
  <2>6. /\ q.next \in [ids -> Nat] /\ q.previous \in [ids -> Nat]
        /\ q.next[a] = b /\ q.next[x] = None /\ \A y \in ids \ {x, a} : q.next[y] = r.next[y]
        /\ q.previous[b] = a /\ \A y \in ids \ {x, b} : q.previous[y] = r.previous[y]
    <3>1. x \in ids /\ a \in ids /\ b \in ids /\ a \in Nat /\ b \in Nat /\ 0 \in Nat BY <1>1
    <3>2. /\ q.next \in [ids -> Nat]
          /\ q.next[a] = b /\ q.next[x] = None /\ \A y \in ids \ {x, a} : q.next[y] = r.next[y]
      BY <1>2, <2>3, <2>5, <3>1 DEF None
    <3>3. /\ q.previous \in [ids -> Nat]
          /\ q.previous[b] = a /\ \A y \in ids \ {x, b} : q.previous[y] = r.previous[y]
      BY <1>2, <2>1, <2>5, <3>1 DEF None
    <3> QED BY <3>2, <3>3
  <2>7. \A y \in T : y \in Nat /\ y \in S /\ y \in ids /\ y # x BY <1>1
  <2>8. \A y \in T : y # a => r.next[y] \in T /\ r.next[y] # b
    <3> TAKE y \in T
    <3> HAVE y # a
    <3>1. r.next[y] = x => y = a BY <1>5, <2>2
    <3>2. r.next[y] = b => y = x BY <1>5, <2>3
    <3> QED BY <1>5, <2>7, <3>1, <3>2
  <2>9. \A y \in T : y # b => r.previous[y] \in T /\ r.previous[y] # a
    <3> TAKE y \in T
    <3> HAVE y # b
    <3>1. r.previous[y] = x => y = b BY <1>5, <2>1
    <3>2. r.previous[y] = a => y = x BY <1>5, <2>2
    <3> QED BY <1>5, <2>7, <3>1, <3>2
  <2>10. a \in T /\ b \in T BY <2>1, <2>3
  <2>11. q.first \in T /\ q.last \in T
    <3>1. f # x => f \in T OBVIOUS
    <3>2. l # x => l \in T OBVIOUS
    <3> QED BY <2>5, <2>10, <3>1, <3>2
  <2>12. \A y \in T : q.first <= y
    <3> TAKE y \in T
    <3>1. CASE f = x
      <4>1. x < y BY <1>1, <1>5, <2>7, <3>1
      <4>2. x # l BY <2>4, <3>1
      <4> QED BY <1>7, <2>1, <2>5, <2>7, <3>1, <4>1, <4>2
    <3>2. CASE f # x BY <1>5, <2>5, <2>7, <3>2
    <3> QED BY <3>1, <3>2
  <2>13. \A y \in T : y <= q.last
    <3> TAKE y \in T
    <3>1. CASE l = x
      <4>1. y < x BY <1>1, <1>5, <2>7, <3>1
      <4>2. \A z \in S : a < z => x <= z BY <1>7, <2>2, <2>3, <3>1
      <4>3. ~ (a < y) BY <1>1, <2>7, <4>1, <4>2
      <4>4. a \in Nat BY <1>1
      <4> QED BY <2>5, <2>7, <3>1, <4>3, <4>4
    <3>2. CASE l # x BY <1>5, <2>5, <2>7, <3>2
    <3> QED BY <3>1, <3>2
  <2>14. \A y \in T : q.next[y] \in T /\ q.previous[q.next[y]] = y
    <3> TAKE y \in T
    <3>1. CASE y = a BY <2>6, <2>10, <3>1
    <3>2. CASE y # a
      <4>1. q.next[y] = r.next[y] BY <2>6, <2>7, <3>2
      <4>2. r.next[y] \in T /\ r.next[y] # b BY <2>8, <3>2
      <4>3. q.previous[r.next[y]] = r.previous[r.next[y]] BY <2>6, <2>7, <4>2
      <4> QED BY <1>5, <2>7, <4>1, <4>2, <4>3
    <3> QED BY <3>1, <3>2
  <2>15. \A y \in T : q.previous[y] \in T /\ q.next[q.previous[y]] = y
    <3> TAKE y \in T
    <3>1. CASE y = b BY <2>6, <2>10, <3>1
    <3>2. CASE y # b
      <4>1. q.previous[y] = r.previous[y] BY <2>6, <2>7, <3>2
      <4>2. r.previous[y] \in T /\ r.previous[y] # a BY <2>9, <3>2
      <4>3. q.next[r.previous[y]] = r.next[r.previous[y]] BY <2>6, <2>7, <4>2
      <4> QED BY <1>5, <2>7, <4>1, <4>2, <4>3
    <3> QED BY <3>1, <3>2
  <2>16. \A y \in T : y = q.last => q.next[y] = q.first
    <3>1. CASE l = x
      <4>1. b = f /\ f # x BY <1>6, <2>1, <2>4, <3>1
      <4> QED BY <2>5, <2>6, <3>1, <4>1
    <3>2. CASE l # x /\ f = x
      <4>1. l = a BY <1>5, <1>6, <2>2, <3>2
      <4> QED BY <2>5, <2>6, <3>2, <4>1
    <3>3. CASE l # x /\ f # x
      <4>1. l # a BY <1>6, <2>2, <3>3
      <4> QED BY <1>1, <1>6, <2>5, <2>6, <3>3, <4>1
    <3> QED BY <3>1, <3>2, <3>3
  <2>17. \A y \in T : y # q.last => y < q.next[y] /\ \A z \in T : y < z => q.next[y] <= z
    <3> TAKE y \in T
    <3> HAVE y # q.last
    <3>1. CASE y = a
      <4>1. l # x /\ a # l BY <2>5, <3>1
      <4>2. a < x /\ \A z \in S : a < z => x <= z BY <1>7, <2>2, <4>1
      <4>3. x < b /\ \A z \in S : x < z => b <= z BY <1>7, <2>1, <4>1
      <4>4. a \in Nat /\ b \in Nat /\ q.next[y] = b BY <1>1, <2>6, <3>1
      <4>5. a < b BY <1>1, <4>2, <4>3, <4>4
      <4>6. \A z \in T : a < z => b <= z
        <5> TAKE z \in T
        <5> HAVE a < z
        <5>1. x <= z /\ z # x /\ z \in Nat /\ z \in S BY <2>7, <4>2
        <5> QED BY <1>1, <4>3, <5>1
      <4> QED BY <3>1, <4>4, <4>5, <4>6
    <3>2. CASE y # a
      <4>1. y # l BY <2>5, <2>7
      <4>2. y < r.next[y] /\ \A z \in S : y < z => r.next[y] <= z BY <1>7, <2>7, <4>1
      <4> QED BY <2>6, <2>7, <3>2, <4>2
    <3> QED BY <3>1, <3>2
  <2>18. \A y \in ids \ T : q.next[y] = None BY <1>5, <2>6
  <2>19. T \subseteq ids /\ T # {} BY <1>1, <2>10
  <2>20. IsRing(q, T, ids)
    BY <1>1, <2>6, <2>11, <2>12, <2>13, <2>14, <2>15, <2>16, <2>17, <2>18, <2>19 DEF IsRing, None
  <2> QED BY <2>20
<1> QED BY <1>9, <1>10
-----------------------------------------------------------------------------
(* Tables with one item more, or less.                                     *)
IsWith(more, items, slot, item) ==
  /\ Len(more) = Len(items) + 1
  /\ \A i \in 1 .. slot : more[i] = items[i]
  /\ more[slot + 1] = item
  /\ \A i \in (slot + 1) .. Len(items) : more[i + 1] = items[i]

LEMMA WithItem ==
  ASSUME NEW R, NEW items \in Seq(R), NEW slot \in 0 .. Len(items), NEW item \in R
  PROVE  With(items, slot, item) \in Seq(R) /\ IsWith(With(items, slot, item), items, slot, item)
<1> PICK n \in Nat : n = Len(items) OBVIOUS
<1> DEFINE f(i) == IF i <= slot THEN items[i] ELSE IF i = slot + 1 THEN item ELSE items[i - 1]
<1>1. With(items, slot, item) = [i \in 1 .. n + 1 |-> f(i)] BY DEF With
<1>2. \A i \in 1 .. n + 1 : f(i) \in R
  <2> TAKE i \in 1 .. n + 1
  <2>1. CASE i <= slot BY <2>1, ElementOfSeq
  <2>2. CASE i = slot + 1 BY <2>2
  <2>3. CASE i > slot + 1
    <3>1. i - 1 \in 1 .. n BY <2>3
    <3>2. items[i - 1] \in R BY <3>1, ElementOfSeq
    <3> QED BY <2>3, <3>2
  <2> QED BY <2>1, <2>2, <2>3
<1>3. \A i \in 1 .. slot : f(i) = items[i] OBVIOUS
<1>4. f(slot + 1) = item OBVIOUS
<1>5. \A i \in (slot + 1) .. n : f(i + 1) = items[i] OBVIOUS
<1> HIDE DEF f
<1>6. PICK w : w = [i \in 1 .. n + 1 |-> f(i)] OBVIOUS
<1>7. w \in [1 .. n + 1 -> R] BY <1>2, <1>6
<1>8. w \in Seq(R) /\ Len(w) = n + 1 BY <1>7
<1>9. \A i \in 1 .. n + 1 : w[i] = f(i) BY <1>6
<1>10. \A i \in 1 .. slot : w[i] = items[i] BY <1>3, <1>9
<1>11. w[slot + 1] = item BY <1>4, <1>9
<1>12. \A i \in (slot + 1) .. n : w[i + 1] = items[i] BY <1>5, <1>9
<1> QED BY <1>1, <1>6, <1>8, <1>10, <1>11, <1>12 DEF IsWith

LEMMA WithoutItem ==
  ASSUME NEW R, NEW items \in Seq(R), NEW place \in 1 .. Len(items)
  PROVE  /\ Without(items, place) \in Seq(R) /\ Len(Without(items, place)) = Len(items) - 1
         /\ \A i \in 1 .. (place - 1) : Without(items, place)[i] = items[i]
         /\ \A i \in place .. (Len(items) - 1) : Without(items, place)[i] = items[i + 1]
<1> PICK n \in Nat : n = Len(items) OBVIOUS
<1> PICK l \in Nat : l = n - 1 OBVIOUS
<1> DEFINE f(i) == IF i < place THEN items[i] ELSE items[i + 1]
<1>1. Without(items, place) = [i \in 1 .. l |-> f(i)] BY DEF Without
<1>2. \A i \in 1 .. l : f(i) \in R
  <2> TAKE i \in 1 .. l
  <2>1. i \in 1 .. n /\ i + 1 \in 1 .. n OBVIOUS
  <2>2. items[i] \in R /\ items[i + 1] \in R BY <2>1, ElementOfSeq
  <2> QED BY <2>2
<1>3. \A i \in 1 .. (place - 1) : f(i) = items[i] OBVIOUS
<1>4. \A i \in place .. l : f(i) = items[i + 1] OBVIOUS
<1> HIDE DEF f
<1>5. PICK w : w = [i \in 1 .. l |-> f(i)] OBVIOUS
<1>6. w \in [1 .. l -> R] BY <1>2, <1>5
<1>7. w \in Seq(R) /\ Len(w) = l BY <1>6
<1>8. \A i \in 1 .. l : w[i] = f(i) BY <1>5
<1>9. \A i \in 1 .. (place - 1) : w[i] = items[i] BY <1>3, <1>8
<1>10. \A i \in place .. l : w[i] = items[i + 1] BY <1>4, <1>8
<1> QED BY <1>1, <1>5, <1>7, <1>9, <1>10
-----------------------------------------------------------------------------
(* search and newSlot do what they should on a table that is sorted.       *)
Numbers == MaxNodes \in Nat \ {0} /\ MaxLoops \in Nat /\ Keys \subseteq Nat \ {0}

LEMMA AreNumbers == Numbers
BY NodesAssumption DEF Numbers

LEMMA FieldsSorted ==
  ASSUME Fields
  PROVE  Count \in Nat /\ Sorted(fields.items, Count)
<1>1. PICK items \in Seq([key : Keys, node : Nat]) : items = fields.items BY DEF Fields
<1>2. \A i \in 1 .. Len(items) : items[i].key \in Nat
  <2> TAKE i \in 1 .. Len(items)
  <2>1. items[i] \in [key : Keys, node : Nat] BY <1>1, ElementOfSeq
  <2> QED BY <2>1, AreNumbers DEF Numbers
<1> QED BY <1>1, <1>2 DEF Fields, Sorted, Count

LEMMA SearchFinds ==
  ASSUME Fields, NEW key \in Keys
  PROVE  /\ Search(key) \in 0 .. Count
         /\ Search(key) # None => fields.items[Search(key)].key = key
         /\ Search(key) = None => \A i \in 1 .. Count : fields.items[i].key # key
<1> PICK n \in Nat : n = Count BY FieldsSorted
<1> PICK items : items = fields.items OBVIOUS
<1> DEFINE from == CHOOSE f : Halves(f, fields.items, Count, key)
<1>1. Search(key) = from[Count][0] BY DEF Search, Halves, Item
<1>2. \E f : Halves(f, fields.items, Count, key) BY HalvesExists
<1>3. Halves(from, fields.items, Count, key) BY Zenon, <1>2
<1>4. PICK f : f = from OBVIOUS
<1>6. Halves(f, items, n, key) BY <1>3, <1>4
<1>7. Sorted(items, n) /\ key \in Nat BY FieldsSorted, AreNumbers DEF Numbers
<1>8. /\ f[n][0] \in 0 .. n
      /\ f[n][0] # None => items[f[n][0]].key = key
      /\ f[n][0] = None => \A i \in 1 .. n : items[i].key # key
  BY <1>6, <1>7, HalvesFind
<1>9. Search(key) = f[n][0]
  <2> HIDE DEF from
  <2> QED BY <1>1, <1>4
<1> QED BY <1>8, <1>9

LEMMA NewSlotRight ==
  ASSUME Fields, NEW key \in Keys, \A i \in 1 .. Count : fields.items[i].key # key
  PROVE  /\ NewSlot(key) \in 0 .. Count
         /\ \A i \in 1 .. NewSlot(key) : fields.items[i].key < key
         /\ \A i \in (NewSlot(key) + 1) .. Count : key < fields.items[i].key
<1> PICK n \in Nat : n = Count BY FieldsSorted
<1> PICK items : items = fields.items OBVIOUS
<1>1. Sorted(items, n) /\ key \in Nat BY FieldsSorted, AreNumbers DEF Numbers
<1>2. CASE n = 0 BY <1>2 DEF NewSlot
<1>3. CASE n # 0 /\ items[n].key < key
  <2>1. Item(n - 1) = items[n]
    <3>1. n - 1 + 1 = n OBVIOUS
    <3> QED BY <3>1 DEF Item
  <2>2. NewSlot(key) = n BY <1>3, <2>1 DEF NewSlot
  <2>3. \A i \in 1 .. n : items[i].key < key
    <3> TAKE i \in 1 .. n
    <3>1. items[i].key \in Nat /\ items[n].key \in Nat BY <1>1, <1>3 DEF Sorted
    <3>2. i < n => items[i].key < items[n].key BY <1>1, <1>3 DEF Sorted
    <3> QED BY <1>1, <1>3, <3>1, <3>2
  <2> QED BY <2>2, <2>3
<1>4. CASE n # 0 /\ ~ (items[n].key < key)
  <2>1. Item(n - 1) = items[n]
    <3>1. n - 1 + 1 = n OBVIOUS
    <3> QED BY <3>1 DEF Item
  <2>2. NewSlot(key) = Halved(key) BY <1>4, <2>1 DEF NewSlot
  <2>3. key < items[n].key
    <3>1. items[n].key \in Nat /\ items[n].key # key BY <1>1, <1>4 DEF Sorted
    <3> QED BY <1>1, <1>4, <3>1
  <2> DEFINE from == CHOOSE f : HalvesSlots(f, fields.items, Count, key)
  <2>4. Halved(key) = from[Count - 1][0] BY DEF Halved, HalvesSlots, Item
  <2>5. \E f : HalvesSlots(f, fields.items, Count, key) BY <1>4, HalvesSlotsExists
  <2>6. HalvesSlots(from, fields.items, Count, key) BY Zenon, <2>5
  <2>8. PICK f : f = from OBVIOUS
  <2>9. HalvesSlots(f, items, n, key) BY <2>6, <2>8
  <2>10. /\ f[n - 1][0] \in 0 .. n
         /\ \A i \in 1 .. f[n - 1][0] : items[i].key < key
         /\ \A i \in (f[n - 1][0] + 1) .. n : key < items[i].key
    BY <1>1, <1>4, <2>3, <2>9, HalvesPlace
  <2>11. NewSlot(key) = f[n - 1][0]
    <3> HIDE DEF from
    <3> QED BY <2>2, <2>4, <2>8
  <2> QED BY <2>10, <2>11
<1> QED BY <1>2, <1>3, <1>4
-----------------------------------------------------------------------------
(* What the actions leave alone.                                           *)
LEMMA FieldsFrame == Fields /\ UNCHANGED <<kind, fields, made, freed>> => Fields'
BY DEF Fields, NodesIn, Count

LEMMA ArrayFrame == ArrayFits /\ UNCHANGED <<kind, array, made, freed>> => ArrayFits'
BY DEF ArrayFits

LEMMA AttachmentsFrame ==
  ASSUME Attachments, UNCHANGED <<refs, life>>,
         \A c \in Iterators : iterator'[c].pc = iterator[c].pc /\ iterator'[c].attached = iterator[c].attached
  PROVE  Attachments'
<1>1. Attached' = Attached BY DEF Attached
<1>2. Loops' = Loops BY DEF Loops
<1>3. \A c \in Loops : c \in Iterators BY DEF Loops
<1>4. IsRing(refs, Attached, Iterators)' BY <1>1 DEF Attachments
<1> QED BY <1>1, <1>2, <1>3, <1>4 DEF Attachments

LEMMA WithStayKeeps ==
  ASSUME iterator \in [Iterators -> Loop], NEW T, iterator' = WithStay(T)
  PROVE  /\ iterator' \in [Iterators -> Loop]
         /\ \A c \in Iterators :
              /\ iterator'[c].pc = iterator[c].pc /\ iterator'[c].at = iterator[c].at
              /\ iterator'[c].end = iterator[c].end /\ iterator'[c].attached = iterator[c].attached
              /\ iterator'[c].seen = iterator[c].seen /\ iterator'[c].stay = iterator[c].stay \cap T
<1>1. \A c \in Iterators : iterator'[c] = [iterator[c] EXCEPT !.stay = @ \cap T] BY DEF WithStay
<1>2. iterator' = [c \in Iterators |-> iterator'[c]] BY DEF WithStay
<1>3. \A c \in Iterators : /\ iterator'[c] \in Loop
              /\ iterator'[c].pc = iterator[c].pc /\ iterator'[c].at = iterator[c].at
              /\ iterator'[c].end = iterator[c].end /\ iterator'[c].attached = iterator[c].attached
              /\ iterator'[c].seen = iterator[c].seen /\ iterator'[c].stay = iterator[c].stay \cap T
  <2> TAKE c \in Iterators
  <2>1. PICK l \in Loop : l = iterator[c] OBVIOUS
  <2>2. PICK m : m = [l EXCEPT !.stay = @ \cap T] OBVIOUS
  <2>3. /\ m \in Loop /\ m.pc = l.pc /\ m.at = l.at /\ m.end = l.end /\ m.attached = l.attached
        /\ m.seen = l.seen /\ m.stay = l.stay \cap T
    BY <2>2 DEF Loop
  <2> QED BY <1>1, <2>1, <2>2, <2>3
<1>4. iterator' \in [Iterators -> Loop] BY <1>2, <1>3
<1> QED BY <1>3, <1>4

(* A loop in its body: what is left is behind the place where it is.       *)
LEMMA LeftInBody ==
  ASSUME NEW c \in Iterators, iterator[c].pc = "body"
  PROVE  \A n : n \in Left(c) <=>
           IF kind = "object" THEN n \in NodesIn /\ iterator[c].at < n
           ELSE \E j \in 0 .. MaxNodes : j < array.count /\ iterator[c].at < j /\ array.slots[j] = n
BY DEF Left

LEMMA LeftInTest ==
  ASSUME NEW c \in Iterators, iterator[c].pc = "test"
  PROVE  \A n : n \in Left(c) <=>
           IF kind = "object" THEN ~ iterator[c].end /\ n \in NodesIn /\ iterator[c].at <= n
           ELSE \E j \in 0 .. MaxNodes : j < array.count /\ iterator[c].at <= j /\ array.slots[j] = n
BY DEF Left

(* The body of the innermost loop changes the container.                   *)
LEMMA VisitsInBody ==
  ASSUME IInv, InBody, life' = life, kind' = kind, Len(made) <= Len(made'),
         \A c \in Iterators :
           /\ iterator'[c].pc = iterator[c].pc /\ iterator'[c].at = iterator[c].at
           /\ iterator'[c].seen = iterator[c].seen /\ iterator'[c].stay \subseteq iterator[c].stay,
         \A c \in Loops :
           /\ iterator'[c].stay \cap Left(c) \subseteq Left(c)'
           /\ Left(c)' \cap SeenBy(c) = {}
           /\ kind = "object" => iterator[c].at \in NodesIn',
         made' \in Seq(Nat)
  PROVE  Visits'
<1>1. \A c \in Iterators : SeenBy(c)' = SeenBy(c) BY DEF SeenBy
<1>2. Loops' = Loops BY DEF Loops
<1>3. \A c \in Iterators : Visited(c)'
  <2> TAKE c \in Iterators
  <2>1. Visited(c) BY DEF IInv, Visits
  <2>2. 1 .. Len(made) \subseteq 1 .. Len(made')
    <3>1. Len(made) \in Nat /\ Len(made') \in Nat BY DEF IInv, Shapes
    <3> QED BY <3>1
  <2> QED BY <1>1, <2>1, <2>2 DEF Visited
<1>4. life.state = "alive" BY DEF InBody
<1>5. \A c \in Loops : GoesOnRight(c)'
  <2> TAKE c \in Loops
  <2>1. c \in Iterators /\ iterator[c].pc = "body" BY DEF Loops, InBody
  <2>2. GoesOnRight(c) BY <1>4 DEF IInv, Visits
  <2>3. iterator'[c].stay \subseteq SeenBy(c)' \cup Left(c)'
    <3>1. iterator'[c].stay \subseteq SeenBy(c) \cup Left(c) BY <2>1, <2>2 DEF GoesOnRight
    <3>2. iterator'[c].stay \cap Left(c) \subseteq Left(c)' OBVIOUS
    <3> QED BY <1>1, <2>1, <3>1, <3>2
  <2>4. Left(c)' \cap SeenBy(c)' = {} BY <1>1, <2>1
  <2>5. kind' = "object" => iterator'[c].at \in NodesIn' BY <2>1
  <2> QED BY <2>3, <2>4, <2>5 DEF GoesOnRight
<1> QED BY <1>2, <1>3, <1>5 DEF Visits

(* A step of one loop leaves the others alone.                             *)
LEMMA VisitsOfOthers ==
  ASSUME IInv, UNCHANGED contents, NEW c \in Iterators,
         \A d \in Iterators \ {c} : iterator'[d] = iterator[d],
         life' = life,
         Visited(c)', life.state = "alive" /\ c \in Loops' => GoesOnRight(c)'
  PROVE  Visits'
<1>1. \A d \in Iterators \ {c} : Visited(d)'
  <2> TAKE d \in Iterators \ {c}
  <2>1. Visited(d) BY DEF IInv, Visits
  <2> QED BY <2>1 DEF Visited, SeenBy, contents
<1>2. \A d \in Iterators \ {c} : d \in Loops' => d \in Loops BY DEF Loops
<1>3. NodesIn' = NodesIn BY DEF NodesIn, Count, contents
<1>4. \A d \in Iterators \ {c} : Left(d)' = Left(d) BY <1>3 DEF Left, contents
<1>5. \A d \in Iterators \ {c} : life.state = "alive" /\ d \in Loops' => GoesOnRight(d)'
  <2> TAKE d \in Iterators \ {c}
  <2> HAVE life.state = "alive" /\ d \in Loops'
  <2>1. GoesOnRight(d) BY <1>2 DEF IInv, Visits
  <2> QED BY <1>3, <1>4, <2>1 DEF GoesOnRight, SeenBy, contents
<1>6. \A d \in Loops' : d \in Iterators BY DEF Loops
<1> QED BY <1>1, <1>5, <1>6 DEF Visits
-----------------------------------------------------------------------------
(* Fields.                                                                 *)
LEMMA TableNodes ==
  ASSUME Table
  PROVE  /\ NodesIn \subseteq 1 .. Len(made) /\ NodesIn \subseteq Nodes /\ NodesIn \cap freed = {}
         /\ Len(made) \in Nat /\ Len(made) <= MaxNodes /\ Count \in Nat /\ Count <= Len(made)
<1>1. PICK l \in Nat : l = Len(made) /\ l <= MaxNodes BY DEF Table
<1>2. Count \in Nat /\ Count <= l BY <1>1, FieldsSorted DEF Table, Fields, Count
<1>3. \A n \in NodesIn : n \in 1 .. l /\ n \notin freed BY <1>1 DEF Table, Fields, NodesIn
<1>4. 1 .. l \subseteq Nodes BY <1>1, AreNumbers DEF Nodes, Numbers
<1> QED BY <1>1, <1>2, <1>3, <1>4

LEMMA TablePresent ==
  ASSUME Table, kind = "object"
  PROVE  Present = NodesIn
<1>1. PICK n \in Nat : n = Count /\ n <= MaxNodes BY TableNodes, AreNumbers DEF Numbers
<1>2. Present = {Item(i).node : i \in {j \in 0 .. MaxNodes : j < n}} BY <1>1 DEF Present
<1>3. NodesIn = {fields.items[i].node : i \in 1 .. n} BY <1>1 DEF NodesIn
<1>4. \A i \in {j \in 0 .. MaxNodes : j < n} : i + 1 \in 1 .. n /\ Item(i) = fields.items[i + 1]
  BY AreNumbers DEF Item, Numbers
<1>5. \A i \in 1 .. n : i - 1 \in {j \in 0 .. MaxNodes : j < n} /\ Item(i - 1) = fields.items[i]
  <2> TAKE i \in 1 .. n
  <2>1. i - 1 + 1 = i OBVIOUS
  <2>2. i - 1 \in {j \in 0 .. MaxNodes : j < n} BY <1>1, AreNumbers DEF Numbers
  <2> QED BY <2>1, <2>2 DEF Item
<1>6. \A x \in Present : x \in NodesIn BY <1>2, <1>3, <1>4
<1>7. \A x \in NodesIn : x \in Present BY <1>2, <1>3, <1>5
<1> QED BY <1>6, <1>7

LEMMA ShapesTable == ASSUME Shapes, Fields PROVE Table
BY DEF Shapes, Table

LEMMA NodesAreMade ==
  ASSUME Shapes, Fields
  PROVE  /\ NodesIn \subseteq 1 .. Len(made) /\ NodesIn \subseteq Nodes /\ NodesIn \cap freed = {}
         /\ Len(made) \in Nat /\ Len(made) <= MaxNodes /\ Count \in Nat /\ Count <= Len(made)
BY ShapesTable, TableNodes

LEMMA PresentNodes ==
  ASSUME Shapes, Fields, kind = "object"
  PROVE  Present = NodesIn
BY ShapesTable, TablePresent

(* A field that is set gets its place in the table and in the ring.        *)
LEMMA SetFieldInTable ==
  ASSUME Table, NEW key \in Keys, SetField(key)
  PROVE  /\ Table' /\ NodesIn' = NodesIn \cup {Len(made) + 1}
         /\ made' \in Seq(Nat) /\ Len(made') = Len(made) + 1
<1>a. PICK l \in Nat : l = Len(made) BY DEF Table
<1>b. PICK n \in Nat : n = Count /\ n <= l BY <1>a, TableNodes
<1>c. PICK item : item = [key |-> key, node |-> l + 1] OBVIOUS
<1>d. PICK slot : slot = NewSlot(key) OBVIOUS
<1>e. PICK R : R = [key : Keys, node : Nat] OBVIOUS
<1>f. PICK items : items = fields.items /\ items \in Seq(R) BY <1>e DEF Table, Fields
<1>g. PICK more : more = With(items, slot, item) OBVIOUS
<1>1. /\ InBody /\ kind = "object" /\ Search(key) = None /\ l + 1 <= MaxNodes
      /\ made' = Append(made, key)
      /\ fields' = [items |-> more, ring |-> RingInsert(fields.ring, l + 1)]
      /\ UNCHANGED <<kind, array, freed, refs, life, iterator, fault>>
  BY <1>a, <1>c, <1>d, <1>f, <1>g DEF SetField, Alive, NewNode
<1>2. Fields /\ made \in Seq(Nat) /\ freed \subseteq 1 .. l BY <1>a, <1>1 DEF Table
<1>3. /\ made \in Seq(Nat) /\ made' \in Seq(Nat) /\ Len(made') = l + 1 /\ made'[l + 1] = key
      /\ \A i \in 1 .. l : made'[i] = made[i]
  <2>1. made \in Seq(Nat) /\ key \in Nat BY <1>2, AreNumbers DEF Numbers
  <2> QED BY <1>a, <1>1, <2>1, AppendProperties
<1>4. Len(items) = n BY <1>b, <1>f DEF Count
<1>5. \A i \in 1 .. n : items[i].key # key BY <1>b, <1>f, <1>1, <1>2, SearchFinds
<1>6. /\ slot \in 0 .. n
      /\ \A i \in 1 .. slot : items[i].key < key
      /\ \A i \in (slot + 1) .. n : key < items[i].key
  BY <1>b, <1>d, <1>f, <1>2, <1>5, NewSlotRight
<1>7. item \in R /\ item.key = key /\ item.node = l + 1 BY <1>c, <1>e
<1>8. /\ more \in Seq(R) /\ Len(more) = n + 1
      /\ \A i \in 1 .. slot : more[i] = items[i]
      /\ more[slot + 1] = item
      /\ \A i \in (slot + 1) .. n : more[i + 1] = items[i]
  <2>1. items \in Seq(R) /\ slot \in 0 .. Len(items) /\ item \in R BY <1>f, <1>4, <1>6, <1>7
  <2>2. With(items, slot, item) \in Seq(R) /\ IsWith(With(items, slot, item), items, slot, item)
    BY <2>1, WithItem
  <2> QED BY <1>g, <1>4, <2>2 DEF IsWith
<1>9. Count' = n + 1 /\ fields'.items = more /\ fields'.ring = RingInsert(fields.ring, l + 1)
  BY <1>1, <1>8 DEF Count
<1>10. \A i \in 1 .. (n + 1) :
         \/ /\ i = slot + 1
            /\ more[i] = item
         \/ /\ i \in 1 .. slot /\ i \in 1 .. n
            /\ more[i] = items[i]
         \/ /\ i \in (slot + 2) .. (n + 1) /\ i - 1 \in (slot + 1) .. n /\ i - 1 \in 1 .. n
            /\ more[i] = items[i - 1]
  <2> TAKE i \in 1 .. (n + 1)
  <2>1. CASE i = slot + 1 BY <1>8, <2>1
  <2>2. CASE i \in 1 .. slot BY <1>6, <1>8, <2>2
  <2>3. CASE i \in (slot + 2) .. (n + 1)
    <3>1. i - 1 \in (slot + 1) .. n /\ i - 1 + 1 = i /\ i - 1 \in 1 .. n BY <1>6, <2>3
    <3> QED BY <1>8, <2>3, <3>1
  <2> QED BY <1>6, <2>1, <2>2, <2>3
<1>11. \A i \in 1 .. n : \E j \in 1 .. (n + 1) : more[j] = items[i]
  <2> TAKE i \in 1 .. n
  <2>1. CASE i \in 1 .. slot BY <1>6, <1>8, <2>1
  <2>2. CASE i \in (slot + 1) .. n
    <3>1. i + 1 \in 1 .. (n + 1) /\ more[i + 1] = items[i] BY <1>6, <1>8, <2>2
    <3> QED BY <3>1
  <2> QED BY <1>6, <2>1, <2>2
<1>12. NodesIn' = NodesIn \cup {l + 1}
  <2>1. NodesIn' = {more[i].node : i \in 1 .. (n + 1)} BY <1>9 DEF NodesIn
  <2>2. NodesIn = {items[i].node : i \in 1 .. n} BY <1>b, <1>f DEF NodesIn
  <2>3. \A x \in NodesIn' : x \in NodesIn \cup {l + 1} BY <1>7, <1>10, <2>1, <2>2
  <2>4. \A x \in NodesIn : x \in NodesIn' BY <1>11, <2>1, <2>2
  <2>5. slot + 1 \in 1 .. (n + 1) BY <1>6
  <2>6. l + 1 \in NodesIn' BY <1>7, <1>8, <2>1, <2>5
  <2> QED BY <2>3, <2>4, <2>6
<1>14. NodesIn \subseteq 1 .. l /\ freed \subseteq 1 .. l /\ l + 1 \notin 1 .. l
  <2>1. NodesIn \subseteq 1 .. l BY <1>a, <1>2, TableNodes
  <2>2. freed \subseteq 1 .. l BY <1>2
  <2> QED BY <2>1, <2>2
<1>15. Fields'
  <2>1. \A i \in 1 .. n : items[i].key \in Nat BY <1>b, <1>f, <1>2, FieldsSorted DEF Sorted
  <2>2. \A i, j \in 1 .. n : i < j => items[i].key < items[j].key BY <1>b, <1>f, <1>2 DEF Fields
  <2>3. \A i, j \in 1 .. (n + 1) : i < j => more[i].key < more[j].key
    <3> SUFFICES ASSUME NEW i \in 1 .. (n + 1), NEW j \in 1 .. (n + 1), i < j
                 PROVE  more[i].key < more[j].key
      OBVIOUS
    <3>1. CASE i = slot + 1
      <4>1. j \in (slot + 2) .. (n + 1) BY <1>6, <3>1
      <4>2. j - 1 \in (slot + 1) .. n /\ more[j] = items[j - 1] BY <1>6, <1>10, <4>1
      <4>3. more[i].key = key BY <1>7, <1>8, <3>1
      <4> QED BY <1>6, <4>2, <4>3
    <3>2. CASE j = slot + 1
      <4>1. i \in 1 .. slot BY <1>6, <3>2
      <4>2. more[i] = items[i] /\ more[j].key = key BY <1>7, <1>8, <3>2, <4>1
      <4> QED BY <1>6, <4>1, <4>2
    <3>3. CASE i # slot + 1 /\ j # slot + 1
      <4>1. PICK x \in 1 .. n : more[i] = items[x] /\ ((x = i /\ i <= slot) \/ (x = i - 1 /\ i > slot + 1))
        BY <1>6, <1>10, <3>3
      <4>2. PICK y \in 1 .. n : more[j] = items[y] /\ ((y = j /\ j <= slot) \/ (y = j - 1 /\ j > slot + 1))
        BY <1>6, <1>10, <3>3
      <4>3. x < y BY <1>6, <4>1, <4>2
      <4> QED BY <2>2, <4>1, <4>2, <4>3
    <3> QED BY <3>1, <3>2, <3>3
  <2>4. \A i \in 1 .. n : /\ items[i].node \in 1 .. l /\ items[i].node \notin freed
                          /\ made[items[i].node] = items[i].key
    BY <1>a, <1>b, <1>f, <1>2 DEF Fields
  <2>5. \A i \in 1 .. (n + 1) : /\ more[i].node \in 1 .. (l + 1) /\ more[i].node \notin freed
                                /\ made'[more[i].node] = more[i].key
    <3> TAKE i \in 1 .. (n + 1)
    <3>1. CASE more[i] = item BY <1>3, <1>7, <1>14, <3>1
    <3>2. CASE \E j \in 1 .. n : more[i] = items[j]
      <4>1. PICK j \in 1 .. n : more[i] = items[j] BY <3>2
      <4>2. PICK v \in 1 .. l : v = items[j].node BY <2>4
      <4>3. v \notin freed /\ made[v] = items[j].key BY <2>4, <4>2
      <4>4. made'[v] = made[v] /\ v \in 1 .. (l + 1) BY <1>3
      <4> QED BY <4>1, <4>2, <4>3, <4>4
    <3> QED BY <1>10, <3>1, <3>2
  <2>6. IsRing(RingInsert(fields.ring, l + 1), NodesIn \cup {l + 1}, Nodes)
    <3>1. IsRing(fields.ring, NodesIn, Nodes) BY <1>2 DEF Fields
    <3>2. l + 1 \in Nodes \ NodesIn BY <1>1, <1>14, AreNumbers DEF Nodes, Numbers
    <3>3. \A y \in NodesIn : y < l + 1 BY <1>14
    <3> QED BY <3>1, <3>2, <3>3, RingInserted
  <2>7. IsRing(fields'.ring, NodesIn', Nodes) BY <1>9, <1>12, <2>6
  <2>8. n + 1 <= l + 1 BY <1>b
  <2> QED BY <1>b, <1>e, <1>1, <1>3, <1>8, <1>9, <2>3, <2>5, <2>7, <2>8 DEF Fields
<1>16. Len(made') <= MaxNodes /\ freed' \subseteq 1 .. Len(made')
  <2>1. 1 .. l \subseteq 1 .. (l + 1) OBVIOUS
  <2> QED BY <1>1, <1>3, <1>14, <2>1
<1> QED BY <1>a, <1>1, <1>3, <1>12, <1>15, <1>16 DEF Table

LEMMA SetFieldKeeps == ASSUME IInv, NEW key \in Keys, SetField(key) PROVE IInv'
<1>a. PICK l \in Nat : l = Len(made) BY DEF IInv, Shapes
<1>1. /\ InBody /\ kind = "object"
      /\ UNCHANGED <<kind, array, freed, refs, life, iterator, fault>>
  BY DEF SetField, Alive
<1>2. Shapes /\ Fields /\ ArrayFits /\ Attachments BY DEF IInv
<1>3. /\ Table' /\ NodesIn' = NodesIn \cup {l + 1}
      /\ made' \in Seq(Nat) /\ Len(made') = l + 1
  BY <1>a, <1>2, ShapesTable, SetFieldInTable
<1>12. NodesIn' = NodesIn \cup {l + 1} BY <1>3
<1>13. Shapes' BY <1>1, <1>2, <1>3 DEF Shapes, Table
<1>14. l + 1 \notin 1 .. l OBVIOUS
<1>15. Fields' BY <1>3 DEF Table
<1>16. ArrayFits'
  <2>1. array.count = 0 BY <1>1, <1>2 DEF ArrayFits
  <2> QED BY <1>1, <1>2, <1>3, <2>1 DEF ArrayFits
<1>17. Attachments' BY <1>1, <1>2, AttachmentsFrame
<1>18. Visits'
  <2>1. \A c \in Loops : /\ iterator'[c].stay \cap Left(c) \subseteq Left(c)'
                         /\ Left(c)' \cap SeenBy(c) = {}
                         /\ iterator[c].at \in NodesIn'
    <3> TAKE c \in Loops
    <3>1. c \in Iterators /\ iterator[c].pc = "body" BY <1>1 DEF Loops, InBody
    <3>2. GoesOnRight(c) /\ Visited(c) BY <1>1, <3>1 DEF IInv, Visits, InBody
    <3>3. iterator[c].at \in NodesIn BY <1>1, <3>1, <3>2 DEF GoesOnRight
    <3>4. \A x \in Left(c) : x \in Left(c)'
      BY <1>1, <1>12, <3>1, LeftInBody DEF Left
    <3>5. \A x \in Left(c)' : x \in Left(c) \/ x = l + 1
      BY <1>1, <1>12, <3>1, LeftInBody DEF Left
    <3>6. l + 1 \notin SeenBy(c) BY <1>a, <1>14, <3>2 DEF Visited
    <3>7. Left(c) \cap SeenBy(c) = {} BY <3>2 DEF GoesOnRight
    <3> QED BY <1>12, <3>3, <3>4, <3>5, <3>6, <3>7
  <2>2. Len(made) <= Len(made') BY <1>a, <1>3
  <2> QED BY <1>1, <1>3, <2>1, <2>2, VisitsInBody
<1> QED BY <1>13, <1>15, <1>16, <1>17, <1>18 DEF IInv

(* A field that is erased leaves the table and the ring.                   *)
LEMMA EraseFieldInTable ==
  ASSUME Table, NEW key \in Keys, EraseField(key)
  PROVE  /\ Table' /\ fields.items[Search(key)].node \in NodesIn
         /\ NodesIn' = NodesIn \ {fields.items[Search(key)].node}
<1>a. PICK l \in Nat : l = Len(made) BY DEF Table
<1>b. PICK n \in Nat : n = Count /\ n <= l BY <1>a, TableNodes
<1>c. PICK place : place = Search(key) OBVIOUS
<1>d. PICK node : node = fields.items[place].node OBVIOUS
<1>e. PICK R : R = [key : Keys, node : Nat] OBVIOUS
<1>f. PICK items : items = fields.items /\ items \in Seq(R) BY <1>e DEF Table, Fields
<1>g. PICK less : less = Without(items, place) OBVIOUS
<1>1. /\ InBody /\ kind = "object" /\ place # None
      /\ fields' = [items |-> less, ring |-> RingRemove(fields.ring, node)]
      /\ freed' = freed \cup {node}
      /\ UNCHANGED <<kind, array, made, refs, life, fault>>
  BY <1>c, <1>d, <1>f, <1>g DEF EraseField, Alive
<1>2. Fields /\ made \in Seq(Nat) /\ Len(made) <= MaxNodes /\ freed \subseteq 1 .. l
  BY <1>a, <1>1 DEF Table
<1>3. Len(items) = n BY <1>b, <1>f DEF Count
<1>4. place \in 1 .. n BY <1>b, <1>c, <1>1, <1>2, SearchFinds DEF None
<1>5. n - 1 \in Nat BY <1>4
<1>6. /\ less \in Seq(R) /\ Len(less) = n - 1
      /\ \A i \in 1 .. (place - 1) : less[i] = items[i]
      /\ \A i \in place .. (n - 1) : less[i] = items[i + 1]
  <2>1. items \in Seq(R) /\ place \in 1 .. Len(items) BY <1>f, <1>3, <1>4
  <2>2. /\ Without(items, place) \in Seq(R) /\ Len(Without(items, place)) = Len(items) - 1
        /\ \A i \in 1 .. (place - 1) : Without(items, place)[i] = items[i]
        /\ \A i \in place .. (Len(items) - 1) : Without(items, place)[i] = items[i + 1]
    BY <2>1, WithoutItem
  <2> QED BY <1>g, <1>3, <2>2
<1>7. Count' = n - 1 /\ fields'.items = less /\ fields'.ring = RingRemove(fields.ring, node)
  BY <1>1, <1>6 DEF Count
<1>8. \A i \in 1 .. (n - 1) :
        \/ /\ i < place /\ i \in 1 .. n
           /\ less[i] = items[i]
        \/ /\ i >= place /\ i + 1 \in 1 .. n
           /\ less[i] = items[i + 1]
  <2> TAKE i \in 1 .. (n - 1)
  <2>1. CASE i < place
    <3>1. i \in 1 .. (place - 1) BY <1>4, <2>1
    <3> QED BY <1>6, <2>1, <3>1
  <2>2. CASE i >= place
    <3>1. i \in place .. (n - 1) BY <1>4, <2>2
    <3> QED BY <1>6, <2>2, <3>1
  <2> QED BY <1>4, <2>1, <2>2
<1>9. \A i \in 1 .. n : i # place => \E j \in 1 .. (n - 1) : less[j] = items[i]
  <2> TAKE i \in 1 .. n
  <2> HAVE i # place
  <2>1. CASE i < place
    <3>1. i \in 1 .. (place - 1) /\ i \in 1 .. (n - 1) BY <1>4, <2>1
    <3> QED BY <1>6, <3>1
  <2>2. CASE i > place
    <3>1. i - 1 \in place .. (n - 1) /\ i - 1 \in 1 .. (n - 1) /\ i - 1 + 1 = i BY <1>4, <2>2
    <3> QED BY <1>6, <3>1
  <2> QED BY <1>4, <2>1, <2>2
<1>10. \A i \in 1 .. n : /\ items[i].node \in 1 .. l /\ items[i].node \notin freed
                         /\ made[items[i].node] = items[i].key
  BY <1>a, <1>b, <1>f, <1>2 DEF Fields
<1>11. /\ \A i \in 1 .. n : items[i].key \in Nat
       /\ \A i, j \in 1 .. n : i < j => items[i].key < items[j].key
  BY <1>b, <1>f, <1>2, FieldsSorted DEF Sorted
<1>12. \A i \in 1 .. n : i # place => items[i].node # node
  <2> TAKE i \in 1 .. n
  <2> HAVE i # place
  <2>1. items[i].node = node => items[i].key = items[place].key BY <1>d, <1>f, <1>4, <1>10
  <2>2. items[i].key < items[place].key \/ items[place].key < items[i].key BY <1>4, <1>11
  <2>3. items[i].key \in Nat /\ items[place].key \in Nat BY <1>4, <1>11
  <2> QED BY <2>1, <2>2, <2>3
<1>13. NodesIn = {items[i].node : i \in 1 .. n} /\ NodesIn' = {less[i].node : i \in 1 .. (n - 1)}
  BY <1>b, <1>f, <1>7 DEF NodesIn
<1>14. node \in NodesIn BY <1>d, <1>f, <1>4, <1>13
<1>15. NodesIn' = NodesIn \ {node}
  <2>1. \A x \in NodesIn' : x \in NodesIn \ {node}
    <3> TAKE x \in NodesIn'
    <3>1. PICK i \in 1 .. (n - 1) : x = less[i].node BY <1>13
    <3>2. PICK j \in 1 .. n : j # place /\ x = items[j].node BY <1>4, <1>8, <3>1
    <3> QED BY <1>12, <1>13, <3>2
  <2>2. \A x \in NodesIn \ {node} : x \in NodesIn'
    <3> TAKE x \in NodesIn \ {node}
    <3>1. PICK i \in 1 .. n : x = items[i].node BY <1>13
    <3>2. i # place BY <1>d, <1>f, <3>1
    <3>3. PICK j \in 1 .. (n - 1) : less[j] = items[i] BY <1>9, <3>2
    <3> QED BY <1>13, <3>1, <3>3
  <2> QED BY <2>1, <2>2
<1>17. node \in 1 .. l BY <1>d, <1>f, <1>4, <1>10
<1>19. Fields'
  <2>1. \A i, j \in 1 .. (n - 1) : i < j => less[i].key < less[j].key
    <3> SUFFICES ASSUME NEW i \in 1 .. (n - 1), NEW j \in 1 .. (n - 1), i < j
                 PROVE  less[i].key < less[j].key
      OBVIOUS
    <3>1. PICK x \in 1 .. n : less[i] = items[x] /\ ((x = i /\ i < place) \/ (x = i + 1 /\ i >= place))
      BY <1>8
    <3>2. PICK y \in 1 .. n : less[j] = items[y] /\ ((y = j /\ j < place) \/ (y = j + 1 /\ j >= place))
      BY <1>8
    <3>3. x < y BY <1>4, <3>1, <3>2
    <3> QED BY <1>11, <3>1, <3>2, <3>3
  <2>2. \A i \in 1 .. (n - 1) : /\ less[i].node \in 1 .. l /\ less[i].node \notin freed'
                                /\ made[less[i].node] = less[i].key
    <3> TAKE i \in 1 .. (n - 1)
    <3>1. PICK x \in 1 .. n : less[i] = items[x] /\ x # place BY <1>4, <1>8
    <3> QED BY <1>1, <1>10, <1>12, <3>1
  <2>3. IsRing(fields'.ring, NodesIn', Nodes)
    <3>1. IsRing(fields.ring, NodesIn, Nodes) BY <1>2 DEF Fields
    <3> QED BY <1>7, <1>14, <1>15, <3>1, RingRemoved
  <2>4. n - 1 <= l BY <1>b
  <2> QED BY <1>a, <1>e, <1>1, <1>6, <1>7, <2>1, <2>2, <2>3, <2>4 DEF Fields
<1> QED BY <1>a, <1>c, <1>d, <1>1, <1>2, <1>14, <1>15, <1>17, <1>19 DEF Table

(* The body erases a field: not the one at which a loop is.                *)
LEMMA EraseFieldKeeps == ASSUME KeepsRules, IInv, NEW key \in Keys, EraseField(key) PROVE IInv'
<1>a. PICK l \in Nat : l = Len(made) BY DEF IInv, Shapes
<1>d. PICK node : node = fields.items[Search(key)].node OBVIOUS
<1>1. /\ InBody /\ kind = "object"
      /\ \A c \in Loops : iterator[c].at # node
      /\ iterator' = WithStay(Nodes \ {node})
      /\ UNCHANGED <<kind, array, made, refs, life, fault>>
      /\ freed' = freed \cup {node}
  BY <1>d DEF EraseField, Alive, Rule, KeepsRules
<1>2. Shapes /\ Fields /\ ArrayFits /\ Attachments BY DEF IInv
<1>3. Table' /\ node \in NodesIn /\ NodesIn' = NodesIn \ {node}
  BY <1>d, <1>2, ShapesTable, EraseFieldInTable
<1>15. NodesIn' = NodesIn \ {node} BY <1>3
<1>16. /\ iterator' \in [Iterators -> Loop]
       /\ \A c \in Iterators :
            /\ iterator'[c].pc = iterator[c].pc /\ iterator'[c].at = iterator[c].at
            /\ iterator'[c].end = iterator[c].end /\ iterator'[c].attached = iterator[c].attached
            /\ iterator'[c].seen = iterator[c].seen
            /\ iterator'[c].stay = iterator[c].stay \cap (Nodes \ {node})
  BY <1>1, <1>2, WithStayKeeps DEF Shapes
<1>17. node \in 1 .. l BY <1>a, <1>2, <1>3, NodesAreMade
<1>18. Shapes' BY <1>a, <1>1, <1>2, <1>16, <1>17 DEF Shapes
<1>19. Fields' BY <1>3 DEF Table
<1>20. ArrayFits'
  <2>1. array.count = 0 BY <1>1, <1>2 DEF ArrayFits
  <2> QED BY <1>1, <1>2, <2>1 DEF ArrayFits
<1>21. Attachments' BY <1>1, <1>2, <1>16, AttachmentsFrame
<1>22. Visits'
  <2>1. \A c \in Loops : /\ iterator'[c].stay \cap Left(c) \subseteq Left(c)'
                         /\ Left(c)' \cap SeenBy(c) = {}
                         /\ iterator[c].at \in NodesIn'
    <3> TAKE c \in Loops
    <3>1. c \in Iterators /\ iterator[c].pc = "body" BY <1>1 DEF Loops, InBody
    <3>2. GoesOnRight(c) /\ Visited(c) BY <1>1, <3>1 DEF IInv, Visits, InBody
    <3>3. iterator[c].at \in NodesIn /\ iterator[c].at # node BY <1>1, <3>1, <3>2 DEF GoesOnRight
    <3>4. \A x \in Left(c) : x # node => x \in Left(c)'
      BY <1>1, <1>15, <1>16, <3>1, LeftInBody DEF Left
    <3>5. \A x \in Left(c)' : x \in Left(c)
      BY <1>1, <1>15, <1>16, <3>1, LeftInBody DEF Left
    <3>6. node \notin iterator'[c].stay BY <1>16, <3>1
    <3>7. Left(c) \cap SeenBy(c) = {} BY <3>2 DEF GoesOnRight
    <3> QED BY <1>15, <3>3, <3>4, <3>5, <3>6, <3>7
  <2>2. Len(made) <= Len(made') /\ made' \in Seq(Nat) BY <1>a, <1>1, <1>2 DEF Shapes
  <2>3. \A c \in Iterators : iterator'[c].stay \subseteq iterator[c].stay BY <1>16
  <2> QED BY <1>1, <1>16, <2>1, <2>2, <2>3, VisitsInBody
<1> QED BY <1>18, <1>19, <1>20, <1>21, <1>22 DEF IInv

LEMMA NothingLeft ==
  ASSUME fields'.items = <<>>, fields'.ring = EmptyRing(Nodes), made' = made, made \in Seq(Nat)
  PROVE  Fields' /\ NodesIn' = {}
<1>1. Count' = 0 BY DEF Count
<1>2. NodesIn' = {} BY <1>1 DEF NodesIn
<1>3. Nodes \subseteq Nat \ {None} BY AreNumbers DEF Nodes, Numbers, None
<1>4. IsRing(fields'.ring, NodesIn', Nodes) BY <1>2, <1>3, EmptyIsRing
<1>5. PICK R : R = [key : Keys, node : Nat] OBVIOUS
<1>6. fields'.items \in Seq(R) /\ Len(fields'.items) = 0 OBVIOUS
<1>7. Len(made') \in Nat OBVIOUS
<1> QED BY <1>1, <1>2, <1>4, <1>5, <1>6, <1>7 DEF Fields

LEMMA ClearFieldsKeeps == ASSUME KeepsRules, IInv, ClearFields PROVE IInv'
<1>1. /\ InBody /\ kind = "object" /\ Loops = {}
      /\ fields' = [items |-> <<>>, ring |-> EmptyRing(Nodes)]
      /\ freed' = freed \cup Present
      /\ iterator' = WithStay({})
      /\ UNCHANGED <<kind, array, made, refs, life, fault>>
  BY DEF ClearFields, Alive, Rule, KeepsRules
<1>2. Shapes /\ Fields /\ ArrayFits /\ Attachments BY DEF IInv
<1>3. fields'.items = <<>> /\ fields'.ring = EmptyRing(Nodes) BY <1>1
<1>4. Fields' BY <1>1, <1>2, <1>3, NothingLeft DEF Shapes
<1>5. /\ iterator' \in [Iterators -> Loop]
      /\ \A c \in Iterators :
           /\ iterator'[c].pc = iterator[c].pc /\ iterator'[c].at = iterator[c].at
           /\ iterator'[c].end = iterator[c].end /\ iterator'[c].attached = iterator[c].attached
           /\ iterator'[c].seen = iterator[c].seen /\ iterator'[c].stay = iterator[c].stay \cap {}
  BY <1>1, <1>2, WithStayKeeps DEF Shapes
<1>6. Present \subseteq 1 .. Len(made) BY <1>1, <1>2, PresentNodes, NodesAreMade
<1>7. Shapes' BY <1>1, <1>2, <1>5, <1>6 DEF Shapes
<1>8. ArrayFits'
  <2>1. array.count = 0 BY <1>1, <1>2 DEF ArrayFits
  <2> QED BY <1>1, <1>2, <2>1 DEF ArrayFits
<1>9. Attachments' BY <1>1, <1>2, <1>5, AttachmentsFrame
<1>10. Len(made) <= Len(made') /\ made' \in Seq(Nat) BY <1>1, <1>2 DEF Shapes
<1>11. Visits' BY <1>1, <1>5, <1>10, VisitsInBody
<1> QED BY <1>4, <1>7, <1>8, <1>9, <1>11 DEF IInv
-----------------------------------------------------------------------------
(* Elements.                                                               *)
LEMMA NoFieldsFrame ==
  ASSUME Fields, kind = "array", UNCHANGED <<kind, fields>>,
         made' \in Seq(Nat), Len(made) <= Len(made')
  PROVE  Fields'
<1>1. Count = 0 /\ Count' = 0 /\ Len(fields.items) = 0 BY DEF Fields, Count
<1>2. NodesIn' = NodesIn BY DEF NodesIn, Count
<1>3. Len(made') \in Nat OBVIOUS
<1> QED BY <1>1, <1>2, <1>3 DEF Fields

LEMMA SlotsFit ==
  ASSUME Shapes, ArrayFits
  PROVE  /\ array.count \in Nat /\ array.count <= Len(made) /\ Len(made) \in Nat /\ Len(made) <= MaxNodes
         /\ \A j \in Nat : j < array.count =>
              /\ j \in 0 .. MaxNodes /\ array.slots[j] \in 1 .. Len(made) /\ array.slots[j] \notin freed
         /\ \A i, j \in Nat :
              i < array.count /\ j < array.count /\ array.slots[i] = array.slots[j] => i = j
<1>1. PICK l \in Nat : l = Len(made) /\ l <= MaxNodes BY DEF Shapes
<1>2. PICK n \in Nat : n = array.count /\ n <= l BY <1>1 DEF ArrayFits
<1>3. \A j \in Nat : j < n => j \in 0 .. MaxNodes BY <1>1, <1>2, AreNumbers DEF Numbers
<1> QED BY <1>1, <1>2, <1>3 DEF ArrayFits

(* What is left of a loop, and what an action of its body makes of it.     *)
LEMMA VisitsOfArray ==
  ASSUME IInv, InBody, kind = "array", kind' = kind, life' = life,
         Len(made) <= Len(made'), made' \in Seq(Nat),
         \A c \in Iterators :
           /\ iterator'[c].pc = iterator[c].pc /\ iterator'[c].at = iterator[c].at
           /\ iterator'[c].seen = iterator[c].seen /\ iterator'[c].stay \subseteq iterator[c].stay,
         \A c \in Loops :
           /\ \A j \in 0 .. MaxNodes :
                j < array.count /\ iterator[c].at < j /\ array.slots[j] \in iterator'[c].stay =>
                \E k \in 0 .. MaxNodes :
                  k < array'.count /\ iterator[c].at < k /\ array'.slots[k] = array.slots[j]
           /\ \A k \in 0 .. MaxNodes :
                k < array'.count /\ iterator[c].at < k =>
                \/ array'.slots[k] \notin 1 .. Len(made)
                \/ \E j \in 0 .. MaxNodes :
                     j < array.count /\ iterator[c].at < j /\ array.slots[j] = array'.slots[k]
  PROVE  Visits'
<1>1. \A c \in Loops : /\ iterator'[c].stay \cap Left(c) \subseteq Left(c)'
                       /\ Left(c)' \cap SeenBy(c) = {}
  <2> TAKE c \in Loops
  <2>1. c \in Iterators /\ iterator[c].pc = "body" BY DEF Loops, InBody
  <2>2. GoesOnRight(c) /\ Visited(c) BY <2>1 DEF IInv, Visits, InBody
  <2>3. \A x \in Left(c) : x \in iterator'[c].stay => x \in Left(c)'
    <3> TAKE x \in Left(c)
    <3> HAVE x \in iterator'[c].stay
    <3>1. PICK j \in 0 .. MaxNodes : j < array.count /\ iterator[c].at < j /\ array.slots[j] = x
      BY <2>1, LeftInBody
    <3>2. \E k \in 0 .. MaxNodes :
            k < array'.count /\ iterator[c].at < k /\ array'.slots[k] = x
      BY <3>1
    <3> QED BY <2>1, <3>2 DEF Left
  <2>4. \A x \in Left(c)' : x \notin 1 .. Len(made) \/ x \in Left(c)
    <3> TAKE x \in Left(c)'
    <3>1. PICK k \in 0 .. MaxNodes : k < array'.count /\ iterator[c].at < k /\ array'.slots[k] = x
      BY <2>1 DEF Left
    <3>2. \/ x \notin 1 .. Len(made)
          \/ \E j \in 0 .. MaxNodes : j < array.count /\ iterator[c].at < j /\ array.slots[j] = x
      BY <3>1
    <3> QED BY <2>1, <3>2, LeftInBody
  <2>5. SeenBy(c) \subseteq 1 .. Len(made) /\ Left(c) \cap SeenBy(c) = {}
    BY <2>2 DEF Visited, GoesOnRight
  <2> QED BY <2>3, <2>4, <2>5
<1> QED BY <1>1, VisitsInBody

LEMMA PushKeeps == ASSUME IInv, Push PROVE IInv'
<1>a. PICK l \in Nat : l = Len(made) BY DEF IInv, Shapes
<1>b. PICK n \in Nat : n = array.count BY DEF IInv, ArrayFits
<1>c. PICK s : s = array.slots OBVIOUS
<1>1. /\ InBody /\ kind = "array" /\ l + 1 <= MaxNodes
      /\ made' = Append(made, l + 1)
      /\ array' = [slots |-> [s EXCEPT ![n] = l + 1], count |-> n + 1]
      /\ UNCHANGED <<kind, fields, freed, refs, life, iterator, fault>>
  BY <1>a, <1>b, <1>c DEF Push, Alive, NewNode
<1>2. Shapes /\ Fields /\ ArrayFits /\ Attachments BY DEF IInv
<1>3. made \in Seq(Nat) /\ made' \in Seq(Nat) /\ Len(made') = l + 1
  <2>1. made \in Seq(Nat) /\ l + 1 \in Nat BY <1>2 DEF Shapes
  <2> QED BY <1>a, <1>1, <2>1, AppendProperties
<1>4. /\ n <= l /\ s \in [0 .. MaxNodes + 1 -> Nat]
      /\ \A j \in Nat : j < n => j \in 0 .. MaxNodes /\ s[j] \in 1 .. l /\ s[j] \notin freed
      /\ \A i, j \in Nat : i < n /\ j < n /\ s[i] = s[j] => i = j
  BY <1>a, <1>b, <1>c, <1>2, SlotsFit DEF ArrayFits
<1>5. freed \subseteq 1 .. l BY <1>a, <1>2 DEF Shapes
<1>6. n \in 0 .. MaxNodes + 1 BY <1>1, <1>4, AreNumbers DEF Numbers
<1>7. PICK t : t = [s EXCEPT ![n] = l + 1] OBVIOUS
<1>8. t \in [0 .. MaxNodes + 1 -> Nat] /\ t[n] = l + 1 /\ \A j \in 0 .. MaxNodes + 1 : j # n => t[j] = s[j]
  BY <1>4, <1>6, <1>7
<1>9. array'.slots = t /\ array'.count = n + 1 BY <1>1, <1>7
<1>10. \A j \in 0 .. MaxNodes : j < n => t[j] = s[j] BY <1>8, AreNumbers DEF Numbers
<1>11. Shapes'
  <2>1. 1 .. l \subseteq 1 .. (l + 1) OBVIOUS
  <2> QED BY <1>1, <1>2, <1>3, <1>5, <2>1 DEF Shapes
<1>12. Len(made) <= Len(made') BY <1>a, <1>3
<1>13. Fields' BY <1>1, <1>2, <1>3, <1>12, NoFieldsFrame
<1>14. \A j \in 0 .. MaxNodes : j < n + 1 => t[j] \in 1 .. (l + 1) /\ t[j] \notin freed
  <2> TAKE j \in 0 .. MaxNodes
  <2> HAVE j < n + 1
  <2>1. CASE j = n BY <1>5, <1>8, <2>1
  <2>2. CASE j < n
    <3>1. t[j] \in 1 .. l /\ t[j] \notin freed BY <1>4, <1>10, <2>2
    <3> QED BY <3>1
  <2> QED BY <2>1, <2>2
<1>15. \A i, j \in 0 .. MaxNodes : i < n + 1 /\ j < n + 1 /\ t[i] = t[j] => i = j
  <2> SUFFICES ASSUME NEW i \in 0 .. MaxNodes, NEW j \in 0 .. MaxNodes, i < n + 1, j < n + 1, t[i] = t[j]
               PROVE  i = j
    OBVIOUS
  <2>1. i < n => t[i] \in 1 .. l /\ t[i] = s[i] BY <1>4, <1>10
  <2>2. j < n => t[j] \in 1 .. l /\ t[j] = s[j] BY <1>4, <1>10
  <2>3. t[n] \notin 1 .. l BY <1>8
  <2>4. (i = n \/ i < n) /\ (j = n \/ j < n) OBVIOUS
  <2> QED BY <1>4, <2>1, <2>2, <2>3, <2>4
<1>16. ArrayFits'
  <2>1. n + 1 \in Nat /\ n + 1 <= l + 1 BY <1>4
  <2>2. kind' = "array" /\ freed' = freed BY <1>1
  <2> QED BY <1>3, <1>8, <1>9, <1>14, <1>15, <2>1, <2>2 DEF ArrayFits
<1>17. Attachments' BY <1>1, <1>2, AttachmentsFrame
<1>18. Visits'
  <2>1. \A c \in Loops : \A j \in 0 .. MaxNodes : j < n /\ iterator[c].at < j =>
          \E k \in 0 .. MaxNodes : k < n + 1 /\ iterator[c].at < k /\ t[k] = s[j]
    BY <1>10
  <2>2. \A c \in Loops : \A k \in 0 .. MaxNodes : k < n + 1 /\ iterator[c].at < k =>
          \/ t[k] \notin 1 .. l
          \/ \E j \in 0 .. MaxNodes : j < n /\ iterator[c].at < j /\ s[j] = t[k]
    <3> TAKE c \in Loops
    <3> TAKE k \in 0 .. MaxNodes
    <3> HAVE k < n + 1 /\ iterator[c].at < k
    <3>1. CASE k = n BY <1>8, <3>1
    <3>2. CASE k < n BY <1>10, <3>2
    <3> QED BY <3>1, <3>2
  <2>3. \A c \in Loops :
          /\ \A j \in 0 .. MaxNodes :
               j < array.count /\ iterator[c].at < j /\ array.slots[j] \in iterator'[c].stay =>
               \E k \in 0 .. MaxNodes :
                 k < array'.count /\ iterator[c].at < k /\ array'.slots[k] = array.slots[j]
          /\ \A k \in 0 .. MaxNodes :
               k < array'.count /\ iterator[c].at < k =>
               \/ array'.slots[k] \notin 1 .. Len(made)
               \/ \E j \in 0 .. MaxNodes :
                    j < array.count /\ iterator[c].at < j /\ array.slots[j] = array'.slots[k]
    BY <1>a, <1>b, <1>c, <1>9, <2>1, <2>2
  <2> QED BY <1>1, <1>3, <1>12, <2>3, VisitsOfArray
<1> QED BY <1>11, <1>13, <1>16, <1>17, <1>18 DEF IInv

LEMMA InsertElementKeeps ==
  ASSUME KeepsRules, IInv, NEW i \in 0 .. MaxNodes, InsertElement(i) PROVE IInv'
<1>a. PICK l \in Nat : l = Len(made) BY DEF IInv, Shapes
<1>b. PICK n \in Nat : n = array.count BY DEF IInv, ArrayFits
<1>c. PICK s : s = array.slots OBVIOUS
<1>d. PICK t : t = [j \in DOMAIN s |-> IF j = i THEN l + 1 ELSE IF i < j /\ j <= n THEN s[j - 1] ELSE s[j]]
  OBVIOUS
<1>1. /\ InBody /\ kind = "array" /\ l + 1 <= MaxNodes /\ i <= n
      /\ made' = Append(made, l + 1)
      /\ array' = [slots |-> t, count |-> n + 1]
      /\ UNCHANGED <<kind, fields, freed, refs, life, iterator, fault>>
  BY <1>a, <1>b, <1>c, <1>d DEF InsertElement, Alive, NewNode, Rule, KeepsRules, Slot
<1>e. \A c \in Loops : iterator[c].at < i
  <2>1. ~ (i > n) BY <1>1, <1>a, <1>b, AreNumbers DEF Numbers
  <2> QED BY <1>b, <2>1 DEF InsertElement, Ahead, Rule, KeepsRules
<1>2. Shapes /\ Fields /\ ArrayFits /\ Attachments BY DEF IInv
<1>3. made \in Seq(Nat) /\ made' \in Seq(Nat) /\ Len(made') = l + 1
  <2>1. made \in Seq(Nat) /\ l + 1 \in Nat BY <1>2 DEF Shapes
  <2> QED BY <1>a, <1>1, <2>1, AppendProperties
<1>4. /\ n <= l /\ s \in [0 .. MaxNodes + 1 -> Nat]
      /\ \A j \in Nat : j < n => j \in 0 .. MaxNodes /\ s[j] \in 1 .. l /\ s[j] \notin freed
      /\ \A x, y \in Nat : x < n /\ y < n /\ s[x] = s[y] => x = y
  BY <1>a, <1>b, <1>c, <1>2, SlotsFit DEF ArrayFits
<1>5. freed \subseteq 1 .. l BY <1>a, <1>2 DEF Shapes
<1>6. MaxNodes \in Nat /\ i \in Nat /\ n < MaxNodes BY <1>1, <1>4, AreNumbers DEF Numbers
<1>7. /\ t[i] = l + 1
      /\ \A j \in 0 .. MaxNodes : j < i => t[j] = s[j]
      /\ \A j \in 0 .. MaxNodes : i < j /\ j <= n => t[j] = s[j - 1]
  BY <1>d, <1>4, <1>6
<1>8. t \in [0 .. MaxNodes + 1 -> Nat]
  <2>1. \A j \in 0 .. MaxNodes + 1 :
          (IF j = i THEN l + 1 ELSE IF i < j /\ j <= n THEN s[j - 1] ELSE s[j]) \in Nat
    <3> TAKE j \in 0 .. MaxNodes + 1
    <3>1. i < j => j - 1 \in 0 .. MaxNodes + 1 BY <1>6
    <3> QED BY <1>4, <3>1
  <2> QED BY <1>d, <1>4, <2>1
<1>9. array'.slots = t /\ array'.count = n + 1 BY <1>1
<1>10. \A j \in 0 .. MaxNodes : j < n + 1 =>
         \/ j = i /\ t[j] = l + 1
         \/ \E x \in Nat : /\ x < n /\ t[j] = s[x]
                           /\ (x = j /\ j < i) \/ (x = j - 1 /\ i < j)
  <2> TAKE j \in 0 .. MaxNodes
  <2> HAVE j < n + 1
  <2>1. CASE j = i BY <1>7, <2>1
  <2>2. CASE j < i
    <3>1. j \in Nat /\ j < n /\ t[j] = s[j] BY <1>1, <1>6, <1>7, <2>2
    <3> QED BY <2>2, <3>1
  <2>3. CASE i < j
    <3>1. j - 1 \in Nat /\ j - 1 < n /\ t[j] = s[j - 1] BY <1>6, <1>7, <2>3
    <3> QED BY <2>3, <3>1
  <2> QED BY <1>6, <2>1, <2>2, <2>3
<1>11. Shapes'
  <2>1. 1 .. l \subseteq 1 .. (l + 1) OBVIOUS
  <2> QED BY <1>1, <1>2, <1>3, <1>5, <2>1 DEF Shapes
<1>12. Len(made) <= Len(made') BY <1>a, <1>3
<1>13. Fields' BY <1>1, <1>2, <1>3, <1>12, NoFieldsFrame
<1>14. \A j \in 0 .. MaxNodes : j < n + 1 => t[j] \in 1 .. (l + 1) /\ t[j] \notin freed
  <2> TAKE j \in 0 .. MaxNodes
  <2> HAVE j < n + 1
  <2>1. CASE t[j] = l + 1 BY <1>5, <2>1
  <2>2. CASE \E x \in Nat : x < n /\ t[j] = s[x]
    <3>1. t[j] \in 1 .. l /\ t[j] \notin freed BY <1>4, <2>2
    <3> QED BY <3>1
  <2> QED BY <1>10, <2>1, <2>2
<1>15. \A j, k \in 0 .. MaxNodes : j < n + 1 /\ k < n + 1 /\ t[j] = t[k] => j = k
  <2> SUFFICES ASSUME NEW j \in 0 .. MaxNodes, NEW k \in 0 .. MaxNodes, j < n + 1, k < n + 1, t[j] = t[k]
               PROVE  j = k
    OBVIOUS
  <2>1. l + 1 \notin 1 .. l OBVIOUS
  <2>2. CASE j = i /\ t[j] = l + 1
    <3>1. ~ \E x \in Nat : x < n /\ t[k] = s[x] BY <1>4, <2>1, <2>2
    <3>2. k = i BY <1>10, <3>1
    <3> QED BY <2>2, <3>2
  <2>3. CASE k = i /\ t[k] = l + 1
    <3>1. ~ \E x \in Nat : x < n /\ t[j] = s[x] BY <1>4, <2>1, <2>3
    <3>2. j = i BY <1>10, <3>1
    <3> QED BY <2>3, <3>2
  <2>4. CASE ~ (j = i /\ t[j] = l + 1) /\ ~ (k = i /\ t[k] = l + 1)
    <3>1. PICK x \in Nat : /\ x < n /\ t[j] = s[x]
                           /\ (x = j /\ j < i) \/ (x = j - 1 /\ i < j)
      BY <1>10, <2>4
    <3>2. PICK y \in Nat : /\ y < n /\ t[k] = s[y]
                           /\ (y = k /\ k < i) \/ (y = k - 1 /\ i < k)
      BY <1>10, <2>4
    <3>3. x = y BY <1>4, <3>1, <3>2
    <3> QED BY <1>6, <3>1, <3>2, <3>3
  <2> QED BY <2>2, <2>3, <2>4
<1>16. ArrayFits'
  <2>1. n + 1 \in Nat /\ n + 1 <= l + 1 BY <1>4
  <2>2. kind' = "array" /\ freed' = freed BY <1>1
  <2> QED BY <1>3, <1>8, <1>9, <1>14, <1>15, <2>1, <2>2 DEF ArrayFits
<1>17. Attachments' BY <1>1, <1>2, AttachmentsFrame
<1>18. Visits'
  <2>1. \A c \in Loops : \A j \in 0 .. MaxNodes : j < n /\ iterator[c].at < j =>
          \E k \in 0 .. MaxNodes : k < n + 1 /\ iterator[c].at < k /\ t[k] = s[j]
    <3> TAKE c \in Loops
    <3> TAKE j \in 0 .. MaxNodes
    <3> HAVE j < n /\ iterator[c].at < j
    <3>1. CASE j < i
      <4>1. t[j] = s[j] BY <1>7, <3>1
      <4> QED BY <4>1
    <3>2. CASE i <= j
      <4>1. j + 1 \in 0 .. MaxNodes /\ i < j + 1 /\ j + 1 <= n /\ j + 1 - 1 = j BY <1>6, <3>2
      <4>2. t[j + 1] = s[j] BY <1>7, <4>1
      <4>3. iterator[c].at < j + 1
        <5>1. iterator[c].at \in Nat BY <1>2 DEF Shapes, Loop, Loops
        <5> QED BY <5>1
      <4> QED BY <4>1, <4>2, <4>3
    <3> QED BY <1>6, <3>1, <3>2
  <2>2. \A c \in Loops : \A k \in 0 .. MaxNodes : k < n + 1 /\ iterator[c].at < k =>
          \/ t[k] \notin 1 .. l
          \/ \E j \in 0 .. MaxNodes : j < n /\ iterator[c].at < j /\ s[j] = t[k]
    <3> TAKE c \in Loops
    <3> TAKE k \in 0 .. MaxNodes
    <3> HAVE k < n + 1 /\ iterator[c].at < k
    <3>1. CASE t[k] = l + 1 BY <3>1
    <3>2. CASE \E x \in Nat : /\ x < n /\ t[k] = s[x]
                              /\ (x = k /\ k < i) \/ (x = k - 1 /\ i < k)
      <4>1. PICK x \in Nat : /\ x < n /\ t[k] = s[x]
                             /\ (x = k /\ k < i) \/ (x = k - 1 /\ i < k)
        BY <3>2
      <4>2. iterator[c].at \in Nat /\ iterator[c].at < i BY <1>2, <1>e DEF Shapes, Loop, Loops
      <4>3. x \in 0 .. MaxNodes BY <1>4, <4>1
      <4>4. iterator[c].at < x BY <1>6, <4>1, <4>2
      <4> QED BY <4>1, <4>3, <4>4
    <3> QED BY <1>10, <3>1, <3>2
  <2>3. \A c \in Loops :
          /\ \A j \in 0 .. MaxNodes :
               j < array.count /\ iterator[c].at < j /\ array.slots[j] \in iterator'[c].stay =>
               \E k \in 0 .. MaxNodes :
                 k < array'.count /\ iterator[c].at < k /\ array'.slots[k] = array.slots[j]
          /\ \A k \in 0 .. MaxNodes :
               k < array'.count /\ iterator[c].at < k =>
               \/ array'.slots[k] \notin 1 .. Len(made)
               \/ \E j \in 0 .. MaxNodes :
                    j < array.count /\ iterator[c].at < j /\ array.slots[j] = array'.slots[k]
    BY <1>a, <1>b, <1>c, <1>9, <2>1, <2>2
  <2> QED BY <1>1, <1>3, <1>12, <2>3, VisitsOfArray
<1> QED BY <1>11, <1>13, <1>16, <1>17, <1>18 DEF IInv

LEMMA EraseElementKeeps ==
  ASSUME KeepsRules, IInv, NEW i \in 0 .. MaxNodes, EraseElement(i) PROVE IInv'
<1>a. PICK l \in Nat : l = Len(made) BY DEF IInv, Shapes
<1>b. PICK n \in Nat : n = array.count BY DEF IInv, ArrayFits
<1>c. PICK s : s = array.slots OBVIOUS
<1>d. PICK t : t = [j \in DOMAIN s |-> IF i <= j /\ j + 1 < n THEN s[j + 1] ELSE s[j]] OBVIOUS
<1>1. /\ InBody /\ kind = "array" /\ i < n
      /\ i + 1 = n \/ \A c \in Loops : iterator[c].at < i
      /\ array' = [slots |-> t, count |-> n - 1]
      /\ fault' = ~ Sound(s[i])
      /\ freed' = freed \cup {s[i]}
      /\ iterator' = WithStay(Nodes \ {s[i]})
      /\ UNCHANGED <<kind, fields, made, refs, life>>
  BY <1>b, <1>c, <1>d DEF EraseElement, Erase, Alive, Rule, KeepsRules, Slot, Ahead
<1>2. Shapes /\ Fields /\ ArrayFits /\ Attachments BY DEF IInv
<1>3. /\ n <= l /\ s \in [0 .. MaxNodes + 1 -> Nat]
      /\ \A j \in Nat : j < n => j \in 0 .. MaxNodes /\ s[j] \in 1 .. l /\ s[j] \notin freed
      /\ \A x, y \in Nat : x < n /\ y < n /\ s[x] = s[y] => x = y
  BY <1>a, <1>b, <1>c, <1>2, SlotsFit DEF ArrayFits
<1>4. PICK e : e = s[i] OBVIOUS
<1>5. MaxNodes \in Nat /\ i \in Nat /\ n - 1 \in Nat /\ i <= n - 1 BY <1>1, AreNumbers DEF Numbers
<1>6. e \in 1 .. l /\ e \notin freed BY <1>1, <1>3, <1>4, <1>5
<1>7. fault' = FALSE
  <2>1. Sound(s[i]) BY <1>4, <1>6 DEF Sound, None
  <2> QED BY Zenon, <1>1, <2>1
<1>8. t \in [0 .. MaxNodes + 1 -> Nat]
  <2>1. \A j \in 0 .. MaxNodes + 1 : (IF i <= j /\ j + 1 < n THEN s[j + 1] ELSE s[j]) \in Nat
    <3> TAKE j \in 0 .. MaxNodes + 1
    <3>1. j + 1 < n => j + 1 \in 0 .. MaxNodes + 1 BY <1>3, <1>5
    <3> QED BY <1>3, <3>1
  <2> QED BY <1>d, <1>3, <2>1
<1>9. array'.slots = t /\ array'.count = n - 1 BY <1>1
<1>10. \A j \in 0 .. MaxNodes + 1 : t[j] = IF i <= j /\ j + 1 < n THEN s[j + 1] ELSE s[j] BY <1>d, <1>3
<1>11. \A j \in 0 .. MaxNodes : j < n - 1 =>
         \E x \in Nat : /\ x < n /\ x # i /\ t[j] = s[x]
                        /\ (x = j /\ j < i) \/ (x = j + 1 /\ i <= j)
  <2> TAKE j \in 0 .. MaxNodes
  <2> HAVE j < n - 1
  <2>1. j \in 0 .. MaxNodes + 1 /\ j + 1 < n BY <1>5
  <2>2. CASE j < i
    <3>1. j \in Nat /\ j < n /\ t[j] = s[j] BY <1>5, <1>10, <2>1, <2>2
    <3> QED BY <2>2, <3>1
  <2>3. CASE i <= j
    <3>1. j + 1 \in Nat /\ j + 1 < n /\ t[j] = s[j + 1] BY <1>5, <1>10, <2>1, <2>3
    <3> QED BY <1>5, <2>3, <3>1
  <2> QED BY <1>5, <2>2, <2>3
<1>12. /\ iterator' \in [Iterators -> Loop]
       /\ \A c \in Iterators :
            /\ iterator'[c].pc = iterator[c].pc /\ iterator'[c].at = iterator[c].at
            /\ iterator'[c].end = iterator[c].end /\ iterator'[c].attached = iterator[c].attached
            /\ iterator'[c].seen = iterator[c].seen
            /\ iterator'[c].stay = iterator[c].stay \cap (Nodes \ {e})
  BY <1>1, <1>2, <1>4, WithStayKeeps DEF Shapes
<1>13. Shapes' BY <1>a, <1>1, <1>2, <1>4, <1>6, <1>7, <1>12 DEF Shapes
<1>14. Len(made) <= Len(made') /\ made' \in Seq(Nat) BY <1>a, <1>1, <1>2 DEF Shapes
<1>15. Fields' BY <1>1, <1>2, <1>14, NoFieldsFrame
<1>16. \A j \in 0 .. MaxNodes : j < n - 1 => t[j] \in 1 .. l /\ t[j] \notin freed'
  <2> TAKE j \in 0 .. MaxNodes
  <2> HAVE j < n - 1
  <2>1. PICK x \in Nat : x < n /\ x # i /\ t[j] = s[x] BY <1>11
  <2>2. s[x] # s[i] BY <1>1, <1>3, <1>5, <2>1
  <2>3. s[x] \in 1 .. l /\ s[x] \notin freed BY <1>3, <2>1
  <2> QED BY <1>1, <2>1, <2>2, <2>3
<1>17. \A j, k \in 0 .. MaxNodes : j < n - 1 /\ k < n - 1 /\ t[j] = t[k] => j = k
  <2> SUFFICES ASSUME NEW j \in 0 .. MaxNodes, NEW k \in 0 .. MaxNodes, j < n - 1, k < n - 1, t[j] = t[k]
               PROVE  j = k
    OBVIOUS
  <2>1. PICK x \in Nat : /\ x < n /\ t[j] = s[x]
                         /\ (x = j /\ j < i) \/ (x = j + 1 /\ i <= j)
    BY <1>11
  <2>2. PICK y \in Nat : /\ y < n /\ t[k] = s[y]
                         /\ (y = k /\ k < i) \/ (y = k + 1 /\ i <= k)
    BY <1>11
  <2>3. x = y BY <1>3, <2>1, <2>2
  <2> QED BY <1>5, <2>1, <2>2, <2>3
<1>18. ArrayFits'
  <2>1. n - 1 <= l /\ l = Len(made') /\ kind' = "array" BY <1>a, <1>1, <1>3
  <2> QED BY <1>5, <1>8, <1>9, <1>16, <1>17, <2>1 DEF ArrayFits
<1>19. Attachments' BY <1>1, <1>2, <1>12, AttachmentsFrame
<1>20. Visits'
  <2>1. \A c \in Loops : \A j \in 0 .. MaxNodes :
          j < n /\ iterator[c].at < j /\ s[j] \in iterator'[c].stay =>
          \E k \in 0 .. MaxNodes : k < n - 1 /\ iterator[c].at < k /\ t[k] = s[j]
    <3> TAKE c \in Loops
    <3> TAKE j \in 0 .. MaxNodes
    <3> HAVE j < n /\ iterator[c].at < j /\ s[j] \in iterator'[c].stay
    <3>1. c \in Iterators BY DEF Loops
    <3>2. j # i BY <1>4, <1>12, <3>1
    <3>3. iterator[c].at \in Nat BY <1>2, <3>1 DEF Shapes, Loop
    <3>4. CASE j < i
      <4>1. j < n - 1 /\ j \in 0 .. MaxNodes + 1 BY <1>5, <3>4
      <4>2. t[j] = s[j] BY <1>5, <1>10, <3>4, <4>1
      <4> QED BY <4>1, <4>2
    <3>5. CASE i < j
      <4>1. i + 1 # n BY <1>5, <3>5
      <4>2. iterator[c].at < i BY <1>1, <4>1
      <4>3. /\ j - 1 \in 0 .. MaxNodes /\ j - 1 \in 0 .. MaxNodes + 1
            /\ i <= j - 1 /\ j - 1 + 1 = j /\ j - 1 < n - 1
        BY <1>5, <3>5
      <4>4. t[j - 1] = s[j] BY <1>10, <4>3
      <4>5. iterator[c].at < j - 1 BY <1>5, <3>3, <4>2, <4>3
      <4> QED BY <4>3, <4>4, <4>5
    <3> QED BY <1>5, <3>2, <3>4, <3>5
  <2>2. \A c \in Loops : \A k \in 0 .. MaxNodes : k < n - 1 /\ iterator[c].at < k =>
          \/ t[k] \notin 1 .. l
          \/ \E j \in 0 .. MaxNodes : j < n /\ iterator[c].at < j /\ s[j] = t[k]
    <3> TAKE c \in Loops
    <3> TAKE k \in 0 .. MaxNodes
    <3> HAVE k < n - 1 /\ iterator[c].at < k
    <3>1. PICK x \in Nat : /\ x < n /\ t[k] = s[x]
                           /\ (x = k /\ k < i) \/ (x = k + 1 /\ i <= k)
      BY <1>11
    <3>2. iterator[c].at \in Nat BY <1>2 DEF Shapes, Loop, Loops
    <3>3. x \in 0 .. MaxNodes BY <1>3, <3>1
    <3>4. iterator[c].at < x BY <1>5, <3>1, <3>2
    <3> QED BY <3>1, <3>3, <3>4
  <2>3. \A c \in Iterators : iterator'[c].stay \subseteq iterator[c].stay BY <1>12
  <2>4. \A c \in Loops :
          /\ \A j \in 0 .. MaxNodes :
               j < array.count /\ iterator[c].at < j /\ array.slots[j] \in iterator'[c].stay =>
               \E k \in 0 .. MaxNodes :
                 k < array'.count /\ iterator[c].at < k /\ array'.slots[k] = array.slots[j]
          /\ \A k \in 0 .. MaxNodes :
               k < array'.count /\ iterator[c].at < k =>
               \/ array'.slots[k] \notin 1 .. Len(made)
               \/ \E j \in 0 .. MaxNodes :
                    j < array.count /\ iterator[c].at < j /\ array.slots[j] = array'.slots[k]
    BY <1>a, <1>b, <1>c, <1>9, <2>1, <2>2
  <2> QED BY <1>1, <1>12, <1>14, <2>3, <2>4, VisitsOfArray
<1> QED BY <1>13, <1>15, <1>18, <1>19, <1>20 DEF IInv

LEMMA NoSlotsFit ==
  ASSUME ArrayFits, array'.count = 0, made' \in Seq(Nat),
         array'.slots = [j \in DOMAIN array.slots |-> None]
  PROVE  ArrayFits'
<1>1. array'.slots \in [0 .. MaxNodes + 1 -> Nat] BY DEF ArrayFits, None
<1>2. Len(made') \in Nat OBVIOUS
<1> QED BY <1>1, <1>2 DEF ArrayFits

LEMMA ElementsMade ==
  ASSUME Shapes, ArrayFits
  PROVE  Elements \subseteq 1 .. Len(made) /\ Elements \cap freed = {}
BY DEF Elements, ArrayFits

LEMMA ClearElementsKeeps == ASSUME IInv, ClearElements PROVE IInv'
<1>a. PICK t : t = [i \in DOMAIN array.slots |-> None] OBVIOUS
<1>1. /\ InBody /\ kind = "array"
      /\ freed' = freed \cup Elements
      /\ fault' = \E e \in Elements : ~Sound(e)
      /\ array' = [slots |-> t, count |-> 0]
      /\ iterator' = WithStay({})
      /\ UNCHANGED <<kind, fields, made, refs, life>>
  BY <1>a DEF ClearElements, Alive
<1>2. Shapes /\ Fields /\ ArrayFits /\ Attachments BY DEF IInv
<1>3. PICK l \in Nat : l = Len(made) BY <1>2 DEF Shapes
<1>4. Elements \subseteq 1 .. l /\ Elements \cap freed = {} BY <1>2, <1>3, ElementsMade
<1>5. fault' = FALSE
  <2>1. \A e \in Elements : Sound(e) BY <1>4 DEF Sound, None
  <2> QED BY Zenon, <1>1, <2>1
<1>6. /\ iterator' \in [Iterators -> Loop]
      /\ \A c \in Iterators :
           /\ iterator'[c].pc = iterator[c].pc /\ iterator'[c].at = iterator[c].at
           /\ iterator'[c].end = iterator[c].end /\ iterator'[c].attached = iterator[c].attached
           /\ iterator'[c].seen = iterator[c].seen /\ iterator'[c].stay = iterator[c].stay \cap {}
  BY <1>1, <1>2, WithStayKeeps DEF Shapes
<1>7. Shapes' BY <1>1, <1>2, <1>3, <1>4, <1>5, <1>6 DEF Shapes
<1>8. Len(made) <= Len(made') /\ made' \in Seq(Nat) BY <1>1, <1>2 DEF Shapes
<1>9. Fields' BY <1>1, <1>2, <1>8, NoFieldsFrame
<1>10. array'.slots = t /\ array'.count = 0 BY <1>1
<1>11. ArrayFits' BY <1>a, <1>2, <1>8, <1>10, NoSlotsFit
<1>12. Attachments' BY <1>1, <1>2, <1>6, AttachmentsFrame
<1>13. Visits'
  <2>1. \A c \in Iterators : iterator'[c].stay = {} BY <1>6
  <2>2. \A c \in Loops : \A j \in 0 .. MaxNodes : array.slots[j] \notin iterator'[c].stay
    BY <2>1 DEF Loops
  <2>3. \A k \in 0 .. MaxNodes : ~ (k < array'.count) BY <1>10
  <2>4. \A c \in Iterators : iterator'[c].stay \subseteq iterator[c].stay BY <1>6
  <2> QED BY <1>1, <1>6, <1>8, <2>2, <2>3, <2>4, VisitsOfArray
<1> QED BY <1>7, <1>9, <1>11, <1>12, <1>13 DEF IInv
-----------------------------------------------------------------------------
(* Loops.                                                                  *)
LEMMA LoopSet ==
  ASSUME iterator \in [Iterators -> Loop], NEW c \in Iterators, NEW x \in Loop,
         iterator' = [iterator EXCEPT ![c] = x]
  PROVE  /\ iterator' \in [Iterators -> Loop] /\ iterator'[c] = x
         /\ \A d \in Iterators \ {c} : iterator'[d] = iterator[d]
OBVIOUS

LEMMA EmptySeen == ASSUME NEW c, iterator[c].seen = <<>> PROVE SeenBy(c) = {}
<1>1. Len(iterator[c].seen) = 0 OBVIOUS
<1> QED BY <1>1 DEF SeenBy

LEMMA AliveIsAttached ==
  ASSUME IInv
  PROVE  /\ \A c \in Attached : c \in Iterators /\ c \in Loops
         /\ life.state = "alive" => Attached = Loops
         /\ Iterators \subseteq Nat \ {0}
         /\ Loops \subseteq Iterators
<1>1. Iterators \subseteq Nat \ {0} BY AreNumbers DEF Iterators, Numbers
<1> QED BY <1>1 DEF IInv, Attachments, Attached, Loops

LEMMA IterInitKeeps == ASSUME IInv, NEW c \in Iterators, IterInit(c) PROVE IInv'
<1>a. PICK x : x = [pc |-> "test", at |-> IF kind = "object" THEN fields.ring.first ELSE 0,
                    end |-> fields.ring.first = None, attached |-> TRUE,
                    seen |-> <<>>, stay |-> Present]
  OBVIOUS
<1>1. /\ InBody /\ iterator[c].pc \notin {"test", "body"} /\ Innermost(c)
      /\ refs' = RingInsert(refs, c)
      /\ iterator' = [iterator EXCEPT ![c] = x]
      /\ UNCHANGED <<contents, life, fault>>
  BY <1>a DEF IterInit
<1>2. Shapes /\ Fields /\ ArrayFits /\ Attachments BY DEF IInv
<1>3. PICK l \in Nat : l = Len(made) BY <1>2 DEF Shapes
<1>4. /\ x.pc = "test" /\ x.attached = TRUE /\ x.seen = <<>> /\ x.stay = Present
      /\ x.at = (IF kind = "object" THEN fields.ring.first ELSE 0)
      /\ x.end = (fields.ring.first = None)
  BY <1>a
<1>5. Present \subseteq Nat
  <2>1. CASE kind = "object"
    <3>1. Present \subseteq 1 .. l BY <1>2, <1>3, <2>1, PresentNodes, NodesAreMade
    <3> QED BY <3>1
  <2>2. CASE kind # "object"
    <3>1. Present = Elements BY <2>2 DEF Present
    <3>2. Present \subseteq 1 .. l BY <1>2, <1>3, <3>1, ElementsMade
    <3> QED BY <3>2
  <2> QED BY <2>1, <2>2
<1>6. IsRing(fields.ring, NodesIn, Nodes) BY <1>2 DEF Fields
<1>7. NodesIn \subseteq Nat \ {0} BY <1>6 DEF IsRing, None
<1>8. fields.ring.first \in Nat /\ (fields.ring.first = None <=> NodesIn = {})
  <2>1. NodesIn = {} => fields.ring.first = 0 BY <1>6 DEF IsRing, None
  <2>2. NodesIn # {} => fields.ring.first \in NodesIn BY <1>6 DEF IsRing
  <2>3. CASE NodesIn = {} BY <2>1, <2>3 DEF None
  <2>4. CASE NodesIn # {}
    <3>1. fields.ring.first \in Nat \ {0} BY <1>7, <2>2, <2>4
    <3> QED BY <2>4, <3>1 DEF None
  <2> QED BY <2>3, <2>4
<1>9. x \in Loop
  <2>1. (IF kind = "object" THEN fields.ring.first ELSE 0) \in Nat BY <1>8
  <2>2. (fields.ring.first = None) \in BOOLEAN OBVIOUS
  <2>3. <<>> \in Seq(Nat) OBVIOUS
  <2> QED BY <1>a, <1>5, <2>1, <2>2, <2>3 DEF Loop
<1>10. /\ iterator' \in [Iterators -> Loop] /\ iterator'[c] = x
       /\ \A d \in Iterators \ {c} : iterator'[d] = iterator[d]
  BY <1>1, <1>2, <1>9, LoopSet DEF Shapes
<1>11. Shapes' BY <1>1, <1>2, <1>10 DEF Shapes, contents
<1>12. Fields' BY <1>1, <1>2, FieldsFrame DEF contents
<1>13. ArrayFits' BY <1>1, <1>2, ArrayFrame DEF contents
<1>14. Attachments'
  <2>1. Attached' = Attached \cup {c} BY <1>4, <1>10 DEF Attached
  <2>2. c \notin Attached BY <1>1, AliveIsAttached DEF Loops
  <2>3. \A d \in Attached : d < c
    <3> TAKE d \in Attached
    <3>1. d \in Iterators /\ d \in Loops /\ d # c /\ d \in Nat /\ c \in Nat BY <2>2, AliveIsAttached
    <3>2. ~ (d > c) BY <1>1, <3>1 DEF Innermost, Loops
    <3> QED BY <3>1, <3>2
  <2>4. IsRing(refs', Attached', Iterators)
    <3>1. IsRing(refs, Attached, Iterators) BY <1>2 DEF Attachments
    <3> QED BY <1>1, <2>1, <2>2, <2>3, <3>1, RingInserted
  <2>5. life' = life /\ life.state = "alive" BY <1>1 DEF InBody
  <2>6. \A d \in Iterators : iterator'[d].attached => iterator'[d].pc \in {"test", "body"}
    BY <1>2, <1>4, <1>10 DEF Attachments
  <2>7. \A d \in Loops' : iterator'[d].attached
    <3> TAKE d \in Loops'
    <3>1. d \in Iterators /\ iterator'[d].pc \in {"test", "body"} BY DEF Loops
    <3>2. d # c => d \in Loops BY <1>10, <3>1 DEF Loops
    <3> QED BY <1>2, <1>4, <1>10, <2>5, <3>1, <3>2 DEF Attachments
  <2> QED BY <2>4, <2>5, <2>6, <2>7 DEF Attachments
<1>15. SeenBy(c)' = {}
  <2>1. Len(iterator'[c].seen) = 0 BY <1>4, <1>10
  <2> QED BY <2>1 DEF SeenBy
<1>16. Visited(c)'
  <2>1. Len(iterator'[c].seen) = 0 BY <1>4, <1>10
  <2> QED BY <1>4, <1>10, <1>15, <2>1 DEF Visited
<1>17. Present \subseteq Left(c)' /\ kind' = kind /\ NodesIn' = NodesIn
  <2>1. UNCHANGED <<kind, fields, array>> BY <1>1 DEF contents
  <2>2. NodesIn' = NodesIn BY <2>1 DEF NodesIn, Count
  <2>3. CASE kind = "object"
    <3>1. Present = NodesIn BY <1>2, <2>3, PresentNodes
    <3>2. \A n \in NodesIn : fields.ring.first <= n BY <1>6 DEF IsRing
    <3>3. x.end => NodesIn = {} BY <1>4, <1>8
    <3> QED BY <1>4, <1>10, <2>1, <2>2, <2>3, <3>1, <3>2, <3>3 DEF Left
  <2>4. CASE kind # "object"
    <3>1. Present = Elements BY <2>4 DEF Present
    <3>2. \A j \in 0 .. MaxNodes : 0 <= j OBVIOUS
    <3> QED BY <1>4, <1>10, <2>1, <2>2, <2>4, <3>1, <3>2 DEF Left, Elements
  <2> QED BY <2>1, <2>2, <2>3, <2>4
<1>18. GoesOnRight(c)'
  <2>1. kind = "object" /\ ~ x.end => x.at \in NodesIn
    <3> HAVE kind = "object" /\ ~ x.end
    <3>1. NodesIn # {} BY <1>4, <1>8
    <3> QED BY <1>4, <1>6, <3>1 DEF IsRing
  <2> QED BY <1>4, <1>10, <1>15, <1>17, <2>1 DEF GoesOnRight
<1>19. Visits' BY <1>1, <1>10, <1>16, <1>18, VisitsOfOthers
<1> QED BY <1>11, <1>12, <1>13, <1>14, <1>19 DEF IInv

(* One loop that goes on keeps its place in the list.                      *)
LEMMA AttachmentsOfLoop ==
  ASSUME IInv, NEW c \in Iterators, UNCHANGED <<refs, life>>, life.state = "alive",
         iterator[c].attached, iterator'[c].attached, iterator'[c].pc \in {"test", "body"},
         \A d \in Iterators \ {c} : iterator'[d] = iterator[d]
  PROVE  Attachments'
<1>1. Attached' = Attached BY DEF Attached
<1>2. \A d \in Loops' : d \in Iterators /\ (d # c => d \in Loops) BY DEF Loops
<1>3. IsRing(refs', Attached', Iterators) BY <1>1 DEF IInv, Attachments
<1>4. \A d \in Loops' : iterator'[d].attached BY <1>2 DEF IInv, Attachments
<1> QED BY <1>3, <1>4 DEF IInv, Attachments

LEMMA GetKeeps == ASSUME IInv, NEW c \in Iterators, Get(c) PROVE IInv'
<1>a. PICK i : i = iterator[c] OBVIOUS
<1>b. PICK e : e = Current(c) OBVIOUS
<1>c. PICK x : x = [i EXCEPT !.pc = "body", !.seen = Append(@, e)] OBVIOUS
<1>1. /\ i.pc = "test" /\ i.attached /\ ~ AtEnd(c)
      /\ fault' = ~ Sound(e)
      /\ iterator' = [iterator EXCEPT ![c].pc = "body", ![c].seen = Append(@, e)]
      /\ UNCHANGED <<contents, refs, life>>
  BY <1>a, <1>b DEF Get
<1>2. Shapes /\ Fields /\ ArrayFits /\ Attachments BY DEF IInv
<1>3. PICK l \in Nat : l = Len(made) BY <1>2 DEF Shapes
<1>4. i \in Loop BY <1>a, <1>2 DEF Shapes
<1>5. life.state = "alive" /\ c \in Loops BY <1>a, <1>1, <1>2 DEF Attachments, Loops
<1>6. Visited(c) /\ GoesOnRight(c) BY <1>5 DEF IInv, Visits
<1>7. /\ e \in 1 .. l /\ e \notin freed /\ e \in Left(c)
      /\ kind = "object" => e = i.at /\ e \in NodesIn
      /\ kind # "object" => i.at < array.count /\ e = array.slots[i.at]
  <2>1. CASE kind = "object"
    <3>1. ~ i.end /\ e = i.at BY <1>a, <1>b, <1>1, <2>1 DEF AtEnd, Current
    <3>2. e \in NodesIn BY <1>a, <1>6, <2>1, <3>1 DEF GoesOnRight
    <3>3. e \in 1 .. l /\ e \notin freed BY <1>2, <1>3, <3>2, NodesAreMade
    <3>4. e \in Left(c) BY <1>a, <1>1, <2>1, <3>1, <3>2, <3>3, LeftInTest
    <3> QED BY <2>1, <3>1, <3>2, <3>3, <3>4
  <2>2. CASE kind # "object"
    <3>1. ~ (i.at >= array.count) /\ e = array.slots[i.at]
      BY <1>a, <1>b, <1>1, <2>2 DEF AtEnd, Current, Slot
    <3>2. i.at \in Nat BY <1>4 DEF Loop
    <3>3. array.count \in Nat /\ i.at < array.count BY <1>2, <3>1, <3>2 DEF ArrayFits
    <3>4. i.at \in 0 .. MaxNodes /\ e \in 1 .. l /\ e \notin freed BY <1>2, <1>3, <3>1, <3>2, <3>3, SlotsFit
    <3>5. i.at <= i.at BY <3>2
    <3>6. e \in Left(c) BY <1>a, <1>1, <2>2, <3>1, <3>3, <3>4, <3>5, LeftInTest
    <3> QED BY <2>2, <3>1, <3>3, <3>4, <3>6
  <2> QED BY <2>1, <2>2
<1>8. x \in Loop /\ x.pc = "body" /\ x.seen = Append(i.seen, e) /\ x.at = i.at /\ x.attached = i.attached
      /\ x.stay = i.stay
  <2>1. i.seen \in Seq(Nat) /\ e \in Nat BY <1>4, <1>7 DEF Loop
  <2>2. Append(i.seen, e) \in Seq(Nat) BY <2>1, AppendProperties
  <2> QED BY <1>c, <1>4, <2>2 DEF Loop
<1>9. iterator' = [iterator EXCEPT ![c] = x] BY <1>a, <1>c, <1>1, <1>2 DEF Shapes, Loop
<1>10. /\ iterator' \in [Iterators -> Loop] /\ iterator'[c] = x
       /\ \A d \in Iterators \ {c} : iterator'[d] = iterator[d]
  BY <1>2, <1>8, <1>9, LoopSet DEF Shapes
<1>11. fault' = FALSE
  <2>1. Sound(e) BY <1>7 DEF Sound, None
  <2> QED BY Zenon, <1>1, <2>1
<1>12. Shapes' BY <1>1, <1>2, <1>10, <1>11 DEF Shapes, contents
<1>13. Fields' BY <1>1, <1>2, FieldsFrame DEF contents
<1>14. ArrayFits' BY <1>1, <1>2, ArrayFrame DEF contents
<1>15. Attachments' BY <1>a, <1>1, <1>5, <1>8, <1>10, AttachmentsOfLoop
<1>16. UNCHANGED <<kind, fields, array, made, freed>> /\ NodesIn' = NodesIn
  BY <1>1 DEF contents, NodesIn, Count
<1>17. PICK m \in Nat : m = Len(i.seen) BY <1>4 DEF Loop
<1>18. Len(x.seen) = m + 1 /\ x.seen[m + 1] = e /\ \A k \in 1 .. m : x.seen[k] = i.seen[k]
  <2>1. i.seen \in Seq(Nat) /\ e \in Nat BY <1>4, <1>7 DEF Loop
  <2> QED BY <1>8, <1>17, <2>1, AppendProperties
<1>19. SeenBy(c) = {i.seen[k] : k \in 1 .. m} BY <1>a, <1>17 DEF SeenBy
<1>20. SeenBy(c)' = {x.seen[k] : k \in 1 .. (m + 1)} BY <1>10, <1>18 DEF SeenBy
<1>21. SeenBy(c)' = SeenBy(c) \cup {e}
  <2>1. \A k \in 1 .. (m + 1) : k = m + 1 \/ k \in 1 .. m OBVIOUS
  <2>2. m + 1 \in 1 .. (m + 1) /\ \A k \in 1 .. m : k \in 1 .. (m + 1) OBVIOUS
  <2>3. \A y \in SeenBy(c)' : y \in SeenBy(c) \cup {e} BY <1>18, <1>19, <1>20, <2>1
  <2>4. \A y \in SeenBy(c) : y \in SeenBy(c)' BY <1>18, <1>19, <1>20, <2>2
  <2>5. e \in SeenBy(c)' BY <1>18, <1>20, <2>2
  <2> QED BY <2>3, <2>4, <2>5
<1>22. e \notin SeenBy(c) BY <1>6, <1>7 DEF GoesOnRight
<1>23. Visited(c)'
  <2>1. SeenBy(c)' \subseteq 1 .. l BY <1>3, <1>6, <1>7, <1>21 DEF Visited
  <2>2. \A j, k \in 1 .. m : i.seen[j] = i.seen[k] => j = k BY <1>a, <1>6, <1>17 DEF Visited
  <2>3. \A k \in 1 .. m : i.seen[k] # e BY <1>19, <1>22
  <2>4. \A j, k \in 1 .. (m + 1) : x.seen[j] = x.seen[k] => j = k
    <3> SUFFICES ASSUME NEW j \in 1 .. (m + 1), NEW k \in 1 .. (m + 1), x.seen[j] = x.seen[k] PROVE j = k
      OBVIOUS
    <3>1. (j = m + 1 \/ j \in 1 .. m) /\ (k = m + 1 \/ k \in 1 .. m) OBVIOUS
    <3> QED BY <1>18, <2>2, <2>3, <3>1
  <2> QED BY <1>3, <1>8, <1>10, <1>16, <1>18, <2>1, <2>4 DEF Visited
<1>24. \A y \in Left(c)' : y \in Left(c) /\ y # e
  <2> TAKE y \in Left(c)'
  <2>1. CASE kind = "object"
    <3>1. y \in NodesIn /\ i.at < y BY <1>8, <1>10, <1>16, <2>1 DEF Left
    <3>2. ~ i.end BY <1>a, <1>1, <2>1 DEF AtEnd
    <3>3. i.at \in Nat /\ y \in Nat BY <1>2, <1>4, <3>1, NodesAreMade DEF Loop
    <3>4. i.at <= y /\ y # i.at BY <3>1, <3>3
    <3> QED BY <1>a, <1>1, <1>7, <2>1, <3>1, <3>2, <3>4, LeftInTest
  <2>2. CASE kind # "object"
    <3>1. PICK j \in 0 .. MaxNodes : j < array.count /\ i.at < j /\ array.slots[j] = y
      BY <1>8, <1>10, <1>16, <2>2 DEF Left
    <3>2. i.at \in Nat /\ j \in Nat /\ i.at <= j /\ i.at # j BY <1>4, <3>1 DEF Loop
    <3>3. y # e BY <1>2, <1>7, <2>2, <3>1, <3>2, SlotsFit
    <3> QED BY <1>a, <1>1, <2>2, <3>1, <3>2, <3>3, LeftInTest
  <2> QED BY <2>1, <2>2
<1>25. \A y \in Left(c) : y # e => y \in Left(c)'
  <2> TAKE y \in Left(c)
  <2> HAVE y # e
  <2>1. CASE kind = "object"
    <3>1. y \in NodesIn /\ i.at <= y BY <1>a, <1>1, <2>1, LeftInTest
    <3>2. i.at \in Nat /\ y \in Nat BY <1>2, <1>4, <3>1, NodesAreMade DEF Loop
    <3>3. i.at < y BY <1>7, <2>1, <3>1, <3>2
    <3> QED BY <1>8, <1>10, <1>16, <2>1, <3>1, <3>3 DEF Left
  <2>2. CASE kind # "object"
    <3>1. PICK j \in 0 .. MaxNodes : j < array.count /\ i.at <= j /\ array.slots[j] = y
      BY <1>a, <1>1, <2>2, LeftInTest
    <3>2. i.at \in Nat /\ j \in Nat /\ i.at # j BY <1>4, <1>7, <2>2, <3>1 DEF Loop
    <3>3. i.at < j BY <3>1, <3>2
    <3> QED BY <1>8, <1>10, <1>16, <2>2, <3>1, <3>3 DEF Left
  <2> QED BY <2>1, <2>2
<1>26. GoesOnRight(c)'
  <2>1. i.stay \subseteq SeenBy(c) \cup Left(c) /\ Left(c) \cap SeenBy(c) = {}
    BY <1>a, <1>6 DEF GoesOnRight
  <2>2. x.stay \subseteq SeenBy(c)' \cup Left(c)' BY <1>8, <1>21, <1>25, <2>1
  <2>3. Left(c)' \cap SeenBy(c)' = {} BY <1>21, <1>24, <2>1
  <2>4. kind = "object" => x.at \in NodesIn BY <1>7, <1>8
  <2> QED BY <1>10, <1>16, <2>2, <2>3, <2>4 DEF GoesOnRight
<1>27. Visits' BY <1>1, <1>10, <1>23, <1>26, VisitsOfOthers
<1> QED BY <1>12, <1>13, <1>14, <1>15, <1>27 DEF IInv

(* The loop c is taken out of the list.                                    *)
LEMMA AttachmentsWithout ==
  ASSUME IInv, NEW c \in Iterators, life' = life, life.state # "detaching",
         ~ iterator'[c].attached, iterator'[c].pc \notin {"test", "body"},
         \A d \in Iterators \ {c} : iterator'[d] = iterator[d],
         refs' = Detached(c)
  PROVE  Attachments'
<1>1. Attached' = Attached \ {c} BY DEF Attached
<1>2. \A d \in Loops' : d \in Iterators /\ d # c /\ d \in Loops BY DEF Loops
<1>3. IsRing(refs, Attached, Iterators) BY DEF IInv, Attachments
<1>4. IsRing(refs', Attached', Iterators)
  <2>1. CASE iterator[c].attached
    <3>1. c \in Attached BY <2>1 DEF Attached
    <3> QED BY <1>1, <1>3, <2>1, <3>1, RingRemoved DEF Detached
  <2>2. CASE ~ iterator[c].attached
    <3>1. Attached \ {c} = Attached BY <2>2 DEF Attached
    <3> QED BY <1>1, <1>3, <2>2, <3>1 DEF Detached
  <2> QED BY <2>1, <2>2
<1>5. \A d \in Loops' : life.state = "alive" => iterator'[d].attached BY <1>2 DEF IInv, Attachments
<1>6. life.state = "dead" => refs'.first = None
  <2> HAVE life.state = "dead"
  <2>1. refs.first = None BY DEF IInv, Attachments
  <2>2. Attached = {} BY <1>3, <2>1, AliveIsAttached DEF IsRing, None
  <2>3. ~ iterator[c].attached BY <2>2 DEF Attached
  <2> QED BY <2>1, <2>3 DEF Detached
<1>7. \A d \in Iterators : iterator'[d].attached => iterator'[d].pc \in {"test", "body"}
  BY DEF IInv, Attachments
<1>8. \A d \in Iterators : iterator'[d].pc = "test" => life.state = "alive"
  BY DEF IInv, Attachments
<1> QED BY <1>4, <1>5, <1>6, <1>7, <1>8 DEF IInv, Attachments

LEMMA DoneKeeps == ASSUME IInv, NEW c \in Iterators, Done(c) PROVE IInv'
<1>a. PICK i : i = iterator[c] OBVIOUS
<1>b. PICK x : x = [i EXCEPT !.pc = "done", !.attached = FALSE] OBVIOUS
<1>1. /\ i.pc = "test" /\ i.attached /\ AtEnd(c)
      /\ iterator' = [iterator EXCEPT ![c].pc = "done", ![c].attached = FALSE]
      /\ refs' = Detached(c)
      /\ UNCHANGED <<contents, life, fault>>
  BY <1>a DEF Done
<1>2. Shapes /\ Fields /\ ArrayFits /\ Attachments BY DEF IInv
<1>3. i \in Loop BY <1>a, <1>2 DEF Shapes
<1>4. /\ x \in Loop /\ x.pc = "done" /\ x.attached = FALSE /\ x.seen = i.seen /\ x.stay = i.stay
  BY <1>b, <1>3 DEF Loop
<1>5. iterator' = [iterator EXCEPT ![c] = x] BY <1>a, <1>b, <1>1, <1>2 DEF Shapes, Loop
<1>6. /\ iterator' \in [Iterators -> Loop] /\ iterator'[c] = x
      /\ \A d \in Iterators \ {c} : iterator'[d] = iterator[d]
  BY <1>2, <1>4, <1>5, LoopSet DEF Shapes
<1>7. life.state = "alive" /\ c \in Loops BY <1>a, <1>1, <1>2 DEF Attachments, Loops
<1>8. Visited(c) /\ GoesOnRight(c) BY <1>7 DEF IInv, Visits
<1>9. Shapes' BY <1>1, <1>2, <1>6 DEF Shapes, contents
<1>10. Fields' BY <1>1, <1>2, FieldsFrame DEF contents
<1>11. ArrayFits' BY <1>1, <1>2, ArrayFrame DEF contents
<1>12. Attachments' BY <1>1, <1>4, <1>6, <1>7, AttachmentsWithout
<1>13. Left(c) = {}
  <2>1. CASE kind = "object"
    <3>1. i.end BY <1>a, <1>1, <2>1 DEF AtEnd
    <3> QED BY <1>a, <1>1, <2>1, <3>1, LeftInTest
  <2>2. CASE kind # "object"
    <3>1. i.at >= array.count BY <1>a, <1>1, <2>2 DEF AtEnd
    <3>2. i.at \in Nat /\ array.count \in Nat BY <1>2, <1>3 DEF ArrayFits, Loop
    <3>3. \A j \in 0 .. MaxNodes : ~ (j < array.count /\ i.at <= j) BY <3>1, <3>2
    <3> QED BY <1>a, <1>1, <2>2, <3>3, LeftInTest
  <2> QED BY <2>1, <2>2
<1>14. SeenBy(c)' = SeenBy(c) BY <1>a, <1>4, <1>6 DEF SeenBy
<1>15. Visited(c)'
  <2>1. x.stay \subseteq SeenBy(c) BY <1>a, <1>4, <1>8, <1>13 DEF GoesOnRight
  <2> QED BY <1>a, <1>1, <1>4, <1>6, <1>8, <1>14, <2>1 DEF Visited, contents
<1>16. c \notin Loops' BY <1>4, <1>6 DEF Loops
<1>17. Visits' BY <1>1, <1>6, <1>15, <1>16, VisitsOfOthers
<1> QED BY <1>9, <1>10, <1>11, <1>12, <1>17 DEF IInv

LEMMA LeaveKeeps == ASSUME IInv, NEW c \in Iterators, Leave(c) PROVE IInv'
<1>1. /\ life.state # "detaching"
      /\ iterator' = [iterator EXCEPT ![c] = Free]
      /\ refs' = Detached(c)
      /\ UNCHANGED <<contents, life, fault>>
  BY DEF Leave
<1>2. Shapes /\ Fields /\ ArrayFits /\ Attachments BY DEF IInv
<1>3. Free \in Loop /\ Free.pc = "free" /\ Free.attached = FALSE /\ Free.seen = <<>> BY DEF Loop, Free, None
<1>4. /\ iterator' \in [Iterators -> Loop] /\ iterator'[c] = Free
      /\ \A d \in Iterators \ {c} : iterator'[d] = iterator[d]
  BY <1>1, <1>2, <1>3, LoopSet DEF Shapes
<1>5. Shapes' BY <1>1, <1>2, <1>4 DEF Shapes, contents
<1>6. Fields' BY <1>1, <1>2, FieldsFrame DEF contents
<1>7. ArrayFits' BY <1>1, <1>2, ArrayFrame DEF contents
<1>8. Attachments' BY <1>1, <1>3, <1>4, AttachmentsWithout
<1>9. Visited(c)'
  <2>1. Len(iterator'[c].seen) = 0 BY <1>3, <1>4
  <2>2. SeenBy(c)' = {} BY <2>1 DEF SeenBy
  <2> QED BY <1>3, <1>4, <2>1, <2>2 DEF Visited
<1>10. c \notin Loops' BY <1>3, <1>4 DEF Loops
<1>11. Visits' BY <1>1, <1>4, <1>9, <1>10, VisitsOfOthers
<1> QED BY <1>5, <1>6, <1>7, <1>8, <1>11 DEF IInv

LEMMA IterNextKeeps == ASSUME IInv, NEW c \in Iterators, IterNext(c) PROVE IInv'
<1>a. PICK i : i = iterator[c] OBVIOUS
<1>b. PICK y : y = IF kind = "object" THEN NextInMap(c) ELSE NextInVector(c) OBVIOUS
<1>c. PICK x : x = [y EXCEPT !.pc = "test"] OBVIOUS
<1>1. /\ i.pc = "body" /\ i.attached /\ InBody
      /\ fault' = (kind = "object" /\ i.at \in freed)
      /\ iterator' = [iterator EXCEPT ![c] = x]
      /\ UNCHANGED <<contents, refs, life>>
  BY <1>a, <1>b, <1>c DEF IterNext
<1>2. Shapes /\ Fields /\ ArrayFits /\ Attachments BY DEF IInv
<1>3. i \in Loop BY <1>a, <1>2 DEF Shapes
<1>4. life.state = "alive" /\ c \in Loops BY <1>a, <1>1 DEF InBody, Loops
<1>5. Visited(c) /\ GoesOnRight(c) BY <1>4 DEF IInv, Visits
<1>6. IsRing(fields.ring, NodesIn, Nodes) BY <1>2 DEF Fields
<1>7. NodesIn \subseteq Nat \ {0} BY <1>6 DEF IsRing, None
<1>8. PICK r : r = fields.ring OBVIOUS
<1>9. /\ y \in Loop /\ y.attached = i.attached /\ y.seen = i.seen /\ y.stay = i.stay
      /\ kind = "object" =>
           /\ i.at \in NodesIn /\ i.at \notin freed
           /\ y.at = r.next[i.at] /\ y.at \in NodesIn /\ (y.end <=> y.at = r.first)
      /\ kind # "object" => y.at = IF i.at < array.count THEN i.at + 1 ELSE i.at
  <2>1. CASE kind = "object"
    <3>1. i.at \in NodesIn BY <1>a, <1>1, <1>5, <2>1 DEF GoesOnRight
    <3>2. i.at # None /\ i.at \notin freed BY <1>2, <1>7, <3>1, NodesAreMade DEF None
    <3>3. PICK n \in NodesIn : n = r.next[i.at] BY <1>6, <1>8, <3>1 DEF IsRing
    <3>4. y = [i EXCEPT !.at = n, !.end = (n = r.first)]
      BY <1>a, <1>b, <1>8, <2>1, <3>2, <3>3 DEF NextInMap
    <3>5. n \in Nat BY <1>7
    <3>6. PICK b \in BOOLEAN : b <=> n = r.first OBVIOUS
    <3>7. y = [i EXCEPT !.at = n, !.end = b] BY <3>4, <3>6
    <3>8. /\ y \in Loop /\ y.attached = i.attached /\ y.seen = i.seen /\ y.stay = i.stay
          /\ y.at = n /\ y.end = b
      BY <1>3, <3>5, <3>7 DEF Loop
    <3> QED BY <2>1, <3>1, <3>2, <3>3, <3>6, <3>8
  <2>2. CASE kind # "object"
    <3>1. i.at \in Nat /\ array.count \in Nat BY <1>2, <1>3 DEF ArrayFits, Loop
    <3>2. PICK n \in Nat : n = IF i.at < array.count THEN i.at + 1 ELSE i.at BY <3>1
    <3>3. y = [i EXCEPT !.at = n] BY <1>a, <1>b, <2>2, <3>2 DEF NextInVector
    <3>4. /\ y \in Loop /\ y.attached = i.attached /\ y.seen = i.seen /\ y.stay = i.stay /\ y.at = n
      BY <1>3, <3>3 DEF Loop
    <3> QED BY <2>2, <3>2, <3>4
  <2> QED BY <2>1, <2>2
<1>10. /\ x \in Loop /\ x.pc = "test" /\ x.attached = i.attached /\ x.seen = i.seen /\ x.stay = i.stay
       /\ x.at = y.at /\ x.end = y.end
  BY <1>c, <1>9 DEF Loop
<1>11. /\ iterator' \in [Iterators -> Loop] /\ iterator'[c] = x
       /\ \A d \in Iterators \ {c} : iterator'[d] = iterator[d]
  BY <1>1, <1>2, <1>10, LoopSet DEF Shapes
<1>12. fault' = FALSE BY Zenon, <1>1, <1>9
<1>13. Shapes' BY <1>1, <1>2, <1>11, <1>12 DEF Shapes, contents
<1>14. Fields' BY <1>1, <1>2, FieldsFrame DEF contents
<1>15. ArrayFits' BY <1>1, <1>2, ArrayFrame DEF contents
<1>16. Attachments' BY <1>a, <1>1, <1>4, <1>10, <1>11, AttachmentsOfLoop
<1>17. UNCHANGED <<kind, fields, array, made, freed>> /\ NodesIn' = NodesIn
  BY <1>1 DEF contents, NodesIn, Count
<1>18. SeenBy(c)' = SeenBy(c) BY <1>a, <1>10, <1>11 DEF SeenBy
<1>19. Visited(c)' BY <1>a, <1>1, <1>5, <1>10, <1>11, <1>17, <1>18 DEF Visited
<1>20. Left(c)' = Left(c)
  <2>1. CASE kind = "object"
    <3>1. i.at \in NodesIn /\ x.at = r.next[i.at] /\ (x.end <=> x.at = r.first) /\ x.at \in NodesIn
      BY <1>9, <1>10, <2>1
    <3>2. CASE i.at = r.last
      <4>1. r.next[i.at] = r.first BY <1>6, <1>8, <3>1, <3>2 DEF IsRing
      <4>2. \A n \in NodesIn : n <= i.at BY <1>6, <1>8, <3>2 DEF IsRing
      <4>3. \A n \in NodesIn : ~ (i.at < n)
        <5> TAKE n \in NodesIn
        <5>1. n \in Nat /\ i.at \in Nat BY <1>7, <3>1
        <5> QED BY <4>2, <5>1
      <4>4. x.end BY <3>1, <4>1
      <4>5. \A n : n \notin Left(c) BY <1>a, <1>1, <2>1, <4>3, LeftInBody
      <4>6. \A n : n \notin Left(c)' BY <1>10, <1>11, <1>17, <2>1, <4>4 DEF Left
      <4> QED BY <4>5, <4>6
    <3>3. CASE i.at # r.last
      <4>1. i.at < x.at /\ \A n \in NodesIn : i.at < n => x.at <= n
        BY <1>6, <1>8, <3>1, <3>3 DEF IsRing
      <4>2. r.first <= i.at /\ r.first \in Nat
        <5>1. r.first \in NodesIn /\ r.first <= i.at BY <1>6, <1>8, <3>1 DEF IsRing
        <5> QED BY <1>7, <5>1
      <4>3. i.at \in Nat /\ x.at \in Nat /\ \A n \in NodesIn : n \in Nat BY <1>7, <3>1
      <4>4. ~ x.end BY <3>1, <4>1, <4>2, <4>3
      <4>5. \A n \in NodesIn : i.at < n <=> x.at <= n BY <4>1, <4>3
      <4>6. \A n : n \in Left(c) <=> n \in NodesIn /\ i.at < n BY <1>a, <1>1, <2>1, LeftInBody
      <4>7. \A n : n \in Left(c)' <=> n \in NodesIn /\ x.at <= n
        BY <1>10, <1>11, <1>17, <2>1, <4>4 DEF Left
      <4> QED BY <4>5, <4>6, <4>7
    <3> QED BY <3>2, <3>3
  <2>2. CASE kind # "object"
    <3>1. i.at \in Nat /\ array.count \in Nat BY <1>2, <1>3 DEF ArrayFits, Loop
    <3>2. x.at = IF i.at < array.count THEN i.at + 1 ELSE i.at BY <1>9, <1>10, <2>2
    <3>3. \A j \in 0 .. MaxNodes : j < array.count => (i.at < j <=> x.at <= j) BY <3>1, <3>2
    <3>4. \A n : n \in Left(c) <=>
            \E j \in 0 .. MaxNodes : j < array.count /\ i.at < j /\ array.slots[j] = n
      BY <1>a, <1>1, <2>2, LeftInBody
    <3>5. \A n : n \in Left(c)' <=>
            \E j \in 0 .. MaxNodes : j < array.count /\ x.at <= j /\ array.slots[j] = n
      BY <1>10, <1>11, <1>17, <2>2 DEF Left
    <3> QED BY <3>3, <3>4, <3>5
  <2> QED BY <2>1, <2>2
<1>21. GoesOnRight(c)'
  <2>1. kind = "object" => x.at \in NodesIn BY <1>9, <1>10
  <2> QED BY <1>a, <1>5, <1>10, <1>11, <1>17, <1>18, <1>20, <2>1 DEF GoesOnRight
<1>22. Visits' BY <1>1, <1>11, <1>19, <1>21, VisitsOfOthers
<1> QED BY <1>13, <1>14, <1>15, <1>16, <1>22 DEF IInv
-----------------------------------------------------------------------------
(* The end of the container.                                               *)
LEMMA DestroyKeeps == ASSUME IInv, Destroy PROVE IInv'
<1>a. PICK t : t = [i \in DOMAIN array.slots |-> None] OBVIOUS
<1>b. PICK e : e = IF refs.first = None THEN [state |-> "dead", next |-> None]
                                        ELSE [state |-> "detaching", next |-> refs.first]
  OBVIOUS
<1>1. /\ InBody
      /\ freed' = freed \cup Present
      /\ fields' = [items |-> <<>>, ring |-> EmptyRing(Nodes)]
      /\ array' = [slots |-> t, count |-> 0]
      /\ iterator' = WithStay({})
      /\ life' = e
      /\ UNCHANGED <<kind, made, refs, fault>>
  BY <1>a, <1>b DEF Destroy
<1>2. Shapes /\ Fields /\ ArrayFits /\ Attachments BY DEF IInv
<1>3. PICK l \in Nat : l = Len(made) BY <1>2 DEF Shapes
<1>4. Present \subseteq 1 .. l
  <2>1. CASE kind = "object" BY <1>2, <1>3, <2>1, PresentNodes, NodesAreMade
  <2>2. CASE kind # "object"
    <3>1. Present = Elements BY <2>2 DEF Present
    <3> QED BY <1>2, <1>3, <3>1, ElementsMade
  <2> QED BY <2>1, <2>2
<1>5. /\ iterator' \in [Iterators -> Loop]
      /\ \A c \in Iterators :
           /\ iterator'[c].pc = iterator[c].pc /\ iterator'[c].at = iterator[c].at
           /\ iterator'[c].end = iterator[c].end /\ iterator'[c].attached = iterator[c].attached
           /\ iterator'[c].seen = iterator[c].seen /\ iterator'[c].stay = iterator[c].stay \cap {}
  BY <1>1, <1>2, WithStayKeeps DEF Shapes
<1>6. Shapes' BY <1>1, <1>2, <1>3, <1>4, <1>5 DEF Shapes
<1>7. made' = made /\ made \in Seq(Nat) BY <1>1, <1>2 DEF Shapes
<1>8. fields'.items = <<>> /\ fields'.ring = EmptyRing(Nodes) /\ array'.slots = t /\ array'.count = 0
  BY <1>1
<1>9. Fields' BY <1>7, <1>8, NothingLeft
<1>10. ArrayFits' BY <1>a, <1>2, <1>7, <1>8, NoSlotsFit
<1>11. life'.state # "alive" /\ life'.state \in {"detaching", "dead"}
  BY <1>b, <1>1
<1>12. Attachments'
  <2>1. Attached' = Attached BY <1>5 DEF Attached
  <2>2. IsRing(refs', Attached', Iterators) BY <1>1, <1>2, <2>1 DEF Attachments
  <2>3. \A c \in Iterators : iterator'[c].pc # "test" BY <1>1, <1>5 DEF InBody
  <2>4. life'.state = "detaching" => refs.first # None /\ life'.next = refs.first BY <1>b, <1>1
  <2>5. life'.state = "dead" => refs.first = None BY <1>b, <1>1
  <2>6. \A c \in Iterators : iterator'[c].attached => iterator'[c].pc \in {"test", "body"}
    BY <1>2, <1>5 DEF Attachments
  <2> QED BY <1>1, <1>11, <2>2, <2>3, <2>4, <2>5, <2>6 DEF Attachments
<1>13. \A c \in Iterators : Visited(c)'
  <2> TAKE c \in Iterators
  <2>1. Visited(c) BY DEF IInv, Visits
  <2>2. SeenBy(c)' = SeenBy(c) BY <1>5 DEF SeenBy
  <2> QED BY <1>5, <1>7, <2>1, <2>2 DEF Visited
<1>14. Visits' BY <1>11, <1>13 DEF Visits
<1> QED BY <1>6, <1>9, <1>10, <1>12, <1>14 DEF IInv

LEMMA DetachNodeKeeps == ASSUME IInv, DetachNode PROVE IInv'
<1>a. PICK c : c = life.next OBVIOUS
<1>b. PICK rest : rest = RingRemove(refs, c) OBVIOUS
<1>c. PICK e : e = IF rest.first = None THEN [state |-> "dead", next |-> None]
                   ELSE [state |-> "detaching", next |-> refs.next[c]]
  OBVIOUS
<1>1. /\ life.state = "detaching"
      /\ fault' = (refs.next[c] = None)
      /\ refs' = IF refs.next[c] = None THEN refs ELSE rest
      /\ iterator' = [iterator EXCEPT ![c].attached = FALSE]
      /\ life' = e
      /\ UNCHANGED contents
  BY <1>a, <1>b, <1>c DEF DetachNode
<1>2. Shapes /\ Fields /\ ArrayFits /\ Attachments BY DEF IInv
<1>3. refs.first # None /\ c = refs.first BY <1>a, <1>1, <1>2 DEF Attachments
<1>4. IsRing(refs, Attached, Iterators) BY <1>2 DEF Attachments
<1>5. c \in Attached /\ c \in Iterators
  <2>1. Attached # {} BY <1>3, <1>4 DEF IsRing
  <2> QED BY <1>3, <1>4, <2>1 DEF IsRing
<1>6. refs.next[c] # None
  <2>1. refs.next[c] \in Attached /\ Attached \subseteq Iterators BY <1>4, <1>5 DEF IsRing
  <2> QED BY <2>1, AliveIsAttached DEF None
<1>7. fault' = FALSE /\ refs' = rest BY Zenon, <1>1, <1>6
<1>8. PICK x : x = [iterator[c] EXCEPT !.attached = FALSE] OBVIOUS
<1>9. /\ x \in Loop /\ x.attached = FALSE /\ x.pc = iterator[c].pc /\ x.seen = iterator[c].seen
      /\ x.stay = iterator[c].stay
  <2>1. iterator[c] \in Loop BY <1>2, <1>5 DEF Shapes
  <2> QED BY <1>8, <2>1 DEF Loop
<1>10. iterator' = [iterator EXCEPT ![c] = x] BY <1>1, <1>8
<1>11. /\ iterator' \in [Iterators -> Loop] /\ iterator'[c] = x
       /\ \A d \in Iterators \ {c} : iterator'[d] = iterator[d]
  BY <1>2, <1>5, <1>9, <1>10, LoopSet DEF Shapes
<1>12. Shapes' BY <1>1, <1>2, <1>7, <1>11 DEF Shapes, contents
<1>13. Fields' BY <1>1, <1>2, FieldsFrame DEF contents
<1>14. ArrayFits' BY <1>1, <1>2, ArrayFrame DEF contents
<1>15. life'.state \in {"detaching", "dead"} /\ life'.state # "alive" BY <1>c, <1>1
<1>16. Attachments'
  <2>1. Attached' = Attached \ {c} BY <1>9, <1>11 DEF Attached
  <2>2. IsRing(refs', Attached', Iterators) BY <1>b, <1>4, <1>5, <1>7, <2>1, RingRemoved
  <2>3. rest.first # None => rest.first = refs.next[c]
    <3>1. CASE refs.next[c] = c BY <1>b, <3>1 DEF RingRemove
    <3>2. CASE refs.next[c] # c BY <1>b, <1>3, <3>2 DEF RingRemove
    <3> QED BY <3>1, <3>2
  <2>4. life'.state = "detaching" => refs'.first # None /\ life'.next = refs'.first
    BY <1>c, <1>1, <1>7, <2>3
  <2>5. life'.state = "dead" => refs'.first = None BY <1>c, <1>1, <1>7
  <2>6. \A d \in Iterators : iterator'[d].pc # "test"
    BY <1>1, <1>2, <1>5, <1>9, <1>11 DEF Attachments
  <2>7. \A d \in Iterators : iterator'[d].attached => iterator'[d].pc \in {"test", "body"}
    BY <1>2, <1>9, <1>11 DEF Attachments
  <2> QED BY <1>15, <2>2, <2>4, <2>5, <2>6, <2>7 DEF Attachments
<1>17. \A d \in Iterators : Visited(d)'
  <2> TAKE d \in Iterators
  <2>1. Visited(d) BY DEF IInv, Visits
  <2>2. iterator'[d].pc = iterator[d].pc /\ iterator'[d].seen = iterator[d].seen
        /\ iterator'[d].stay = iterator[d].stay
    BY <1>9, <1>11
  <2>3. SeenBy(d)' = SeenBy(d) BY <2>2 DEF SeenBy
  <2> QED BY <1>1, <2>1, <2>2, <2>3 DEF Visited, contents
<1>18. Visits' BY <1>15, <1>17 DEF Visits
<1> QED BY <1>12, <1>13, <1>14, <1>16, <1>18 DEF IInv
-----------------------------------------------------------------------------
(* The invariant holds of every behaviour.                                 *)
LEMMA InitIsRight == Init => IInv
<1> SUFFICES ASSUME Init PROVE IInv OBVIOUS
<1>1. /\ kind \in {"object", "array"} /\ fields.items = <<>> /\ fields.ring = EmptyRing(Nodes)
      /\ array.slots = [i \in 0 .. MaxNodes + 1 |-> None] /\ array.count = 0
      /\ made = <<>> /\ freed = {} /\ refs = EmptyRing(Iterators)
      /\ life.state = "alive" /\ iterator = [c \in Iterators |-> Free] /\ fault = FALSE
  BY DEF Init
<1>2. Nodes \subseteq Nat \ {None} /\ Iterators \subseteq Nat \ {None}
  BY AreNumbers DEF Nodes, Iterators, Numbers, None
<1>3. Free \in Loop /\ Free.pc = "free" /\ Free.attached = FALSE /\ Free.seen = <<>> BY DEF Loop, Free, None
<1>4. MaxNodes \in Nat BY AreNumbers DEF Numbers
<1>5. Shapes
  <2>1. made \in Seq(Nat) /\ Len(made) = 0 BY <1>1
  <2> QED BY <1>1, <1>3, <1>4, <2>1 DEF Shapes
<1>6. Fields
  <2>1. Count = 0 /\ Len(fields.items) = 0 /\ Len(made) = 0 BY <1>1 DEF Count
  <2>2. NodesIn = {} BY <2>1 DEF NodesIn
  <2>3. IsRing(fields.ring, NodesIn, Nodes) BY <1>1, <1>2, <2>2, EmptyIsRing
  <2>4. fields.items \in Seq([key : Keys, node : Nat])
    <3>1. PICK R : R = [key : Keys, node : Nat] OBVIOUS
    <3>2. fields.items \in Seq(R) BY <1>1
    <3> QED BY <3>1, <3>2
  <2> QED BY <2>1, <2>3, <2>4 DEF Fields
<1>7. ArrayFits
  <2>1. array.slots \in [0 .. MaxNodes + 1 -> Nat] BY <1>1 DEF None
  <2>2. Len(made) = 0 BY <1>1
  <2> QED BY <1>1, <2>1, <2>2 DEF ArrayFits
<1>8. \A c \in Iterators : iterator[c] = Free BY <1>1
<1>9. Attached = {} /\ Loops = {} BY <1>3, <1>8 DEF Attached, Loops
<1>10. Attachments
  <2>1. IsRing(refs, Attached, Iterators) BY <1>1, <1>2, <1>9, EmptyIsRing
  <2>2. \A c \in Iterators : ~ iterator[c].attached /\ iterator[c].pc # "test" BY <1>3, <1>8
  <2> QED BY <1>1, <1>9, <2>1, <2>2 DEF Attachments
<1>11. Visits
  <2>1. \A c \in Iterators : Len(iterator[c].seen) = 0 BY <1>3, <1>8
  <2>2. \A c \in Iterators : SeenBy(c) = {} BY <2>1 DEF SeenBy
  <2> QED BY <1>3, <1>8, <1>9, <2>1, <2>2 DEF Visits, Visited
<1> QED BY <1>5, <1>6, <1>7, <1>10, <1>11 DEF IInv

LEMMA StutterKeeps == IInv /\ UNCHANGED vars => IInv'
<1> SUFFICES ASSUME IInv, UNCHANGED vars PROVE IInv' OBVIOUS
<1>1. UNCHANGED <<kind, fields, array, made, freed, refs, life, iterator, fault>> BY DEF vars
<1>2. Shapes' BY <1>1 DEF IInv, Shapes
<1>3. Fields' BY <1>1, FieldsFrame DEF IInv
<1>4. ArrayFits' BY <1>1, ArrayFrame DEF IInv
<1>5. Attachments' BY <1>1, AttachmentsFrame DEF IInv
<1>6. NodesIn' = NodesIn BY <1>1 DEF NodesIn, Count
<1>7. \A c \in Iterators : SeenBy(c)' = SeenBy(c) /\ Left(c)' = Left(c)
  BY <1>1, <1>6 DEF SeenBy, Left
<1>8. Loops' = Loops BY <1>1 DEF Loops
<1>9. \A c \in Iterators : Visited(c) => Visited(c)' BY <1>1, <1>7 DEF Visited
<1>10. \A c \in Iterators : GoesOnRight(c) => GoesOnRight(c)' BY <1>1, <1>6, <1>7 DEF GoesOnRight
<1>11. Visits' BY <1>1, <1>8, <1>9, <1>10, AliveIsAttached DEF IInv, Visits
<1> QED BY <1>2, <1>3, <1>4, <1>5, <1>11 DEF IInv

LEMMA NextKeeps == KeepsRules /\ IInv /\ [Next]_vars => IInv'
<1> SUFFICES ASSUME KeepsRules, IInv, [Next]_vars PROVE IInv' OBVIOUS
<1>1. CASE \E key \in Keys : SetField(key) \/ EraseField(key)
  BY <1>1, SetFieldKeeps, EraseFieldKeeps
<1>2. CASE ClearFields BY <1>2, ClearFieldsKeeps
<1>3. CASE Push BY <1>3, PushKeeps
<1>4. CASE \E i \in 0 .. MaxNodes : InsertElement(i) \/ EraseElement(i)
  BY <1>4, InsertElementKeeps, EraseElementKeeps
<1>5. CASE ClearElements BY <1>5, ClearElementsKeeps
<1>6. CASE \E c \in Iterators : IterInit(c) \/ Get(c) \/ Done(c) \/ IterNext(c) \/ Leave(c)
  BY <1>6, IterInitKeeps, GetKeeps, DoneKeeps, IterNextKeeps, LeaveKeeps
<1>7. CASE Destroy BY <1>7, DestroyKeeps
<1>8. CASE DetachNode BY <1>8, DetachNodeKeeps
<1>9. CASE UNCHANGED vars BY <1>9, StutterKeeps
<1> QED BY <1>1, <1>2, <1>3, <1>4, <1>5, <1>6, <1>7, <1>8, <1>9 DEF Next

(* The invariant: shapes, table and ring, slots, list, and what each loop  *)
(* has visited and has left, in every state.                               *)
THEOREM InvariantHolds == KeepsRules => (Spec => []IInv)
<1> SUFFICES ASSUME KeepsRules PROVE Spec => []IInv OBVIOUS
<1>1. Init => IInv BY InitIsRight
<1>2. IInv /\ [Next]_vars => IInv' BY NextKeeps
<1> QED BY <1>1, <1>2, PTL DEF Spec
-----------------------------------------------------------------------------
(* The table alone, whatever the bodies of the loops do.                   *)
LEMMA InitTable == Init => Table
<1> SUFFICES ASSUME Init PROVE Table OBVIOUS
<1>1. IInv BY InitIsRight
<1> QED BY <1>1, ShapesTable DEF IInv

LEMMA EmptiesTable ==
  ASSUME Table, fields' = [items |-> <<>>, ring |-> EmptyRing(Nodes)], UNCHANGED <<kind, made>>,
         freed' = freed \cup Present
  PROVE  Table'
<1>1. fields'.items = <<>> /\ fields'.ring = EmptyRing(Nodes) OBVIOUS
<1>2. made' = made /\ made \in Seq(Nat) BY DEF Table
<1>3. Fields' BY <1>1, <1>2, NothingLeft
<1>4. kind = "object" => Present \subseteq 1 .. Len(made) BY TablePresent, TableNodes
<1> QED BY <1>2, <1>3, <1>4 DEF Table

LEMMA AddsToArray ==
  ASSUME Table, kind = "array", UNCHANGED <<kind, fields>>,
         made' = Append(made, NewNode), NewNode <= MaxNodes
  PROVE  Table'
<1>1. made \in Seq(Nat) BY DEF Table
<1>2. PICK l \in Nat : l = Len(made) BY <1>1
<1>3. made' \in Seq(Nat) /\ Len(made') = l + 1 /\ l + 1 <= MaxNodes
  <2>1. l + 1 \in Nat /\ NewNode = l + 1 BY <1>2 DEF NewNode
  <2> QED BY <1>1, <1>2, <2>1, AppendProperties
<1>4. Len(made) <= Len(made') BY <1>2, <1>3
<1>5. Fields' BY <1>3, <1>4, NoFieldsFrame DEF Table
<1> QED BY <1>3, <1>5 DEF Table

LEMMA TakesFromArray ==
  ASSUME Table, kind = "array", UNCHANGED <<kind, fields, made>>
  PROVE  Table'
<1>1. made' \in Seq(Nat) /\ Len(made) \in Nat /\ Len(made) <= Len(made') BY DEF Table
<1>2. Fields' BY <1>1, NoFieldsFrame DEF Table
<1> QED BY <1>2 DEF Table

LEMMA TableFrame == Table /\ UNCHANGED <<kind, fields, made, freed>> => Table'
BY FieldsFrame DEF Table

LEMMA NextTable == Table /\ [Next]_vars => Table'
<1> SUFFICES ASSUME Table, [Next]_vars PROVE Table' OBVIOUS
<1>1. ASSUME NEW key \in Keys, SetField(key) PROVE Table' BY <1>1, SetFieldInTable
<1>2. ASSUME NEW key \in Keys, EraseField(key) PROVE Table' BY <1>2, EraseFieldInTable
<1>3. CASE ClearFields BY <1>3, EmptiesTable DEF ClearFields
<1>4. CASE Push BY <1>4, AddsToArray DEF Push, Alive
<1>5. ASSUME NEW i \in 0 .. MaxNodes, InsertElement(i) PROVE Table'
  BY <1>5, AddsToArray DEF InsertElement, Alive
<1>6. ASSUME NEW i \in 0 .. MaxNodes, EraseElement(i) PROVE Table'
  BY <1>6, TakesFromArray DEF EraseElement, Alive
<1>7. CASE ClearElements BY <1>7, TakesFromArray DEF ClearElements, Alive
<1>8. ASSUME NEW c \in Iterators, IterInit(c) \/ Get(c) \/ Done(c) \/ IterNext(c) \/ Leave(c) PROVE Table'
  <2>1. UNCHANGED <<kind, fields, made, freed>>
    BY <1>8 DEF IterInit, Get, Done, IterNext, Leave, contents
  <2> QED BY <2>1, TableFrame
<1>9. CASE Destroy BY <1>9, EmptiesTable DEF Destroy
<1>10. CASE DetachNode \/ UNCHANGED vars
  <2>1. UNCHANGED <<kind, fields, made, freed>> BY <1>10 DEF DetachNode, contents, vars
  <2> QED BY <2>1, TableFrame
<1> QED BY <1>1, <1>2, <1>3, <1>4, <1>5, <1>6, <1>7, <1>8, <1>9, <1>10 DEF Next

(* What it says.                                                           *)
LEMMA FieldsDoAgree == Table => FieldsAgree
<1> SUFFICES ASSUME Table PROVE FieldsAgree OBVIOUS
<1>a. PICK n \in Nat : n = Count BY TableNodes
<1>b. PICK items : items = fields.items OBVIOUS
<1> DEFINE nodes == {Item(i).node : i \in {j \in 0 .. MaxNodes : j < Count}}
           r == fields.ring
<1>c. nodes = {Item(i).node : i \in {j \in 0 .. MaxNodes : j < Count}} OBVIOUS
<1>d. r = fields.ring OBVIOUS
<1> HIDE DEF nodes, r
<1>1. Table /\ Fields BY DEF Table
<1>2. nodes = NodesIn
  <2>1. CASE kind = "object" BY <1>c, <1>1, <2>1, TablePresent DEF Present
  <2>2. CASE kind = "array"
    <3>1. Count = 0 BY <1>1, <2>2 DEF Fields, Count
    <3>2. NodesIn = {} BY <3>1 DEF NodesIn
    <3>3. nodes = {} BY <1>c, <3>1
    <3> QED BY <3>2, <3>3
  <2> QED BY <1>1, <2>1, <2>2 DEF Table
<1>3. IsRing(r, nodes, Nodes) BY <1>d, <1>1, <1>2 DEF Fields
<1>4. nodes \subseteq Nat \ {0} BY <1>3 DEF IsRing, None
<1>5. \A i, j \in 1 .. Count : i < j => fields.items[i].key < fields.items[j].key BY <1>1 DEF Fields
<1>6. \A i \in 1 .. Count : made[fields.items[i].node] = fields.items[i].key BY <1>1 DEF Fields
<1>7. nodes \cap freed = {} BY <1>1, <1>2, TableNodes
<1>8. \A key \in Keys :
        Search(key) = IF \E i \in 1 .. Count : fields.items[i].key = key
                      THEN CHOOSE i \in 1 .. Count : fields.items[i].key = key ELSE None
  <2> TAKE key \in Keys
  <2>1. PICK p : p = Search(key) OBVIOUS
  <2>2. /\ p \in 0 .. n
        /\ p # 0 => items[p].key = key
        /\ p = 0 => \A i \in 1 .. n : items[i].key # key
    BY <1>a, <1>b, <1>1, <2>1, SearchFinds DEF None
  <2>3. CASE p = 0 BY <1>a, <1>b, <2>1, <2>2, <2>3 DEF None
  <2>4. CASE p # 0
    <3>1. p \in 1 .. n /\ items[p].key = key BY <2>2, <2>4
    <3>2. \A i \in 1 .. n : items[i].key = key => i = p
      <4> TAKE i \in 1 .. n
      <4> HAVE items[i].key = key
      <4>1. key \in Nat BY AreNumbers DEF Numbers
      <4>2. ~ (items[i].key < items[p].key) /\ ~ (items[p].key < items[i].key) BY <3>1, <4>1
      <4>3. ~ (i < p) /\ ~ (p < i) BY <1>a, <1>b, <1>5, <3>1, <4>2
      <4> QED BY <3>1, <4>3
    <3>3. (CHOOSE i \in 1 .. n : items[i].key = key) = p BY <3>1, <3>2
    <3> QED BY <1>a, <1>b, <2>1, <3>1, <3>3
  <2> QED BY <2>3, <2>4
<1>9. r.first = None <=> nodes = {}
  <2>1. nodes = {} => r.first = None BY <1>3 DEF IsRing
  <2>2. nodes # {} => r.first \in nodes BY <1>3 DEF IsRing
  <2> QED BY <1>4, <2>1, <2>2 DEF None
<1>10. \A x \in nodes :
         r.next[x] = IF \E m \in nodes : m > x
                     THEN CHOOSE m \in nodes : m > x /\ \A l \in nodes : l > x => m <= l
                     ELSE r.first
  <2> TAKE x \in nodes
  <2>1. CASE x = r.last
    <3>1. r.next[x] = r.first BY <1>3, <2>1 DEF IsRing
    <3>2. \A m \in nodes : m <= x BY <1>3, <2>1 DEF IsRing
    <3>3. ~ \E m \in nodes : m > x
      <4> SUFFICES ASSUME NEW m \in nodes PROVE ~ (m > x) OBVIOUS
      <4>1. m \in Nat /\ x \in Nat BY <1>4
      <4> QED BY <3>2, <4>1
    <3> QED BY <3>1, <3>3
  <2>2. CASE x # r.last
    <3>1. PICK y \in nodes : y = r.next[x] BY <1>3 DEF IsRing
    <3>2. x < y /\ \A m \in nodes : x < m => y <= m BY <1>3, <2>2, <3>1 DEF IsRing
    <3>3. x \in Nat /\ y \in Nat /\ \A m \in nodes : m \in Nat BY <1>4
    <3>4. y > x /\ \A l \in nodes : l > x => y <= l BY <3>2, <3>3
    <3>5. \A m \in nodes : m > x /\ (\A l \in nodes : l > x => m <= l) => m = y
      <4> TAKE m \in nodes
      <4> HAVE m > x /\ \A l \in nodes : l > x => m <= l
      <4>1. m <= y /\ y <= m BY <3>4
      <4> QED BY <3>3, <4>1
    <3>6. (CHOOSE m \in nodes : m > x /\ \A l \in nodes : l > x => m <= l) = y BY <3>4, <3>5
    <3>7. \E m \in nodes : m > x BY <3>4
    <3> QED BY <3>1, <3>6, <3>7
  <2> QED BY <2>1, <2>2
<1>11. \A x \in nodes : x >= r.first /\ r.previous[r.next[x]] = x
  <2> TAKE x \in nodes
  <2>1. r.first <= x /\ r.first \in nodes /\ r.previous[r.next[x]] = x BY <1>3 DEF IsRing
  <2>2. x \in Nat /\ r.first \in Nat BY <1>4, <2>1
  <2> QED BY <2>1, <2>2
<1> QED BY Zenon, <1>5, <1>6, <1>7, <1>8, <1>9, <1>10, <1>11 DEF FieldsAgree, nodes, r

(* For every number of fields, and whatever the bodies of loops do: the    *)
(* table is sorted and agrees with the ring of nodes, and halving finds    *)
(* exactly the keys that are there.                                        *)
THEOREM FieldsAlwaysAgree == Spec => []FieldsAgree
<1>1. Init => Table BY InitTable
<1>2. Table /\ [Next]_vars => Table' BY NextTable
<1>3. Table => FieldsAgree BY FieldsDoAgree
<1> QED BY <1>1, <1>2, <1>3, PTL DEF Spec
-----------------------------------------------------------------------------
(* What it says of the loops.                                              *)
LEMMA LoopsAreExact == IInv => LoopsExact
<1> SUFFICES ASSUME IInv PROVE LoopsExact OBVIOUS
<1>1. NoFault BY DEF IInv, Shapes, NoFault
<1>2. VisitsOnce BY DEF IInv, Visits, Visited, SeenBy, VisitsOnce
<1>3. IsRing(refs, Attached, Iterators) BY DEF IInv, Attachments
<1>4. \A c \in Attached : refs.next[c] # None /\ refs.previous[refs.next[c]] = c
  <2> TAKE c \in Attached
  <2>1. refs.next[c] \in Attached /\ refs.previous[refs.next[c]] = c BY <1>3 DEF IsRing
  <2>2. refs.next[c] \in Iterators BY <2>1 DEF Attached
  <2> QED BY <2>1, <2>2, AliveIsAttached DEF None
<1>5. \A c \in Iterators \ Attached : refs.next[c] = None BY <1>3 DEF IsRing
<1>6. \A c \in Iterators : c \in Attached <=> iterator[c].attached BY DEF Attached
<1>7. life.state = "dead" => refs.first = None BY DEF IInv, Attachments
<1>8. AttachedExact BY <1>4, <1>5, <1>6, <1>7 DEF AttachedExact
<1> QED BY <1>1, <1>2, <1>8 DEF LoopsExact

(* For every number of loops, one in the body of the other, over a         *)
(* container that their bodies change and that may die under them: nothing *)
(* freed is used, each element that stays is visited once, and the list of *)
(* the container holds exactly the iterators attached to it.               *)
THEOREM LoopsAlwaysExact == KeepsRules => (Spec => []LoopsExact)
<1> SUFFICES ASSUME KeepsRules PROVE Spec => []LoopsExact OBVIOUS
<1>1. Spec => []IInv BY InvariantHolds
<1>2. IInv => LoopsExact BY LoopsAreExact
<1> QED BY <1>1, <1>2, PTL
=============================================================================
