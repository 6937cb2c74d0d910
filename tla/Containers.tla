----------------------------- MODULE Containers -----------------------------
(***************************************************************************)
(* The containers of the language while loops run over them.  An object    *)
(* keeps its fields in a MapString: a table sorted by key, searched by     *)
(* halving, whose items point to nodes of a ring in the order in which     *)
(* they were added.  An array is a Vector of elements.  for-in makes an    *)
(* iterator that holds a node, or an index, and is attached to a list of   *)
(* its container; a container that dies detaches its iterators.  The body  *)
(* of a loop may change the container, or let it die.                      *)
(***************************************************************************)
EXTENDS Naturals, Sequences, FiniteSets

CONSTANTS Keys,      \* names of fields, in the order of strcmp
          MaxLoops,  \* bound: loops one in the body of the other
          MaxNodes,  \* bound: nodes of fields, or elements of the array, made
          BodyRules  \* the rules below that scripts keep to

ASSUME NodesAssumption == MaxNodes \in Nat \ {0} /\ Keys \subseteq Nat \ {0} /\ MaxLoops \in Nat
ASSUME BodyRulesAssumption == BodyRules \subseteq {"current", "shift", "index"}

VARIABLES kind,     \* "object" or "array"
          fields,   \* MapString: items sorted by key and the ring of nodes
          array,    \* Vector: slots, of which the first count are elements
          made,     \* the key of each node, or the elements, made so far
          freed,    \* nodes and elements that were freed
          refs,     \* ref_objects of the container: the attached iterators
          life,     \* alive, detaching (with the next iterator) or dead
          iterator, \* each loop: where it is, and what it has visited
          fault     \* something freed or never written was used

vars == <<kind, fields, array, made, freed, refs, life, iterator, fault>>
contents == <<kind, fields, array, made, freed>>

None == 0
Nodes == 1 .. MaxNodes
Iterators == 1 .. MaxLoops   \* by depth
-----------------------------------------------------------------------------
(* Rings: List, and the nodes of the maps.                                 *)

EmptyRing(ids) == [first |-> None, last |-> None,
                   next |-> [x \in ids |-> None], previous |-> [x \in ids |-> None]]

RingInsert(r, x) ==
  IF r.first = None
    THEN [first |-> x, last |-> x, next |-> [r.next EXCEPT ![x] = x],
          previous |-> [r.previous EXCEPT ![x] = x]]
    ELSE [first |-> r.first, last |-> x,
          next |-> [r.next EXCEPT ![r.last] = x, ![x] = r.first],
          previous |-> [r.previous EXCEPT ![x] = r.last, ![r.first] = x]]

RingRemove(r, x) ==
  IF r.next[x] = x
    THEN [first |-> None, last |-> None, next |-> [r.next EXCEPT ![x] = None],
          previous |-> [r.previous EXCEPT ![x] = None]]
    ELSE [first |-> IF r.first = x THEN r.next[x] ELSE r.first,
          last |-> IF r.last = x THEN r.previous[x] ELSE r.last,
          next |-> [r.next EXCEPT ![r.previous[x]] = r.next[x], ![x] = None],
          previous |-> [r.previous EXCEPT ![r.next[x]] = r.previous[x], ![x] = None]]
-----------------------------------------------------------------------------
(* The sorted table, with the indices of the code.                         *)

Count == Len(fields.items)
Item(i) == fields.items[i + 1]

(* search: the place of a key in the table, from 1.                        *)
Search(key) ==
  LET from[w \in 0 .. Count] == [lo \in 0 .. Count |->
        \* the items lo .. lo + w - 1 are left
        IF w = 0 THEN None
        ELSE LET m == (lo + lo + w - 1) \div 2
             IN  IF Item(m).key = key THEN m + 1
                 ELSE IF Item(m).key < key THEN from[lo + w - 1 - m][m + 1]
                 ELSE from[m - lo][lo]]
  IN  from[Count][0]

(* Where newSlot makes room for a key, from 0; w is idx_max - idx_min.     *)
Halved(key) ==
  LET from[w \in 0 .. Count - 1] == [lo \in 0 .. Count - 1 |->
        IF w = 0 THEN lo
        ELSE LET m == (lo + lo + w) \div 2
             IN  IF Item(m).key > key THEN from[m - lo][lo]
                 ELSE from[lo + w - m - 1][m + 1]]
  IN  from[Count - 1][0]

NewSlotLeft(key) ==
  IF Count = 0 THEN 0 ELSE Halved(key)

NewSlot(key) ==
  IF Count = 0 THEN 0
  ELSE IF Item(Count - 1).key < key THEN Count ELSE Halved(key)

With(items, slot, item) ==
  [i \in 1 .. Len(items) + 1 |-> IF i <= slot THEN items[i]
                                 ELSE IF i = slot + 1 THEN item ELSE items[i - 1]]
Without(items, place) ==
  [i \in 1 .. Len(items) - 1 |-> IF i < place THEN items[i] ELSE items[i + 1]]
-----------------------------------------------------------------------------
(* Loops.                                                                  *)

Free == [pc |-> "free", at |-> None, end |-> TRUE, attached |-> FALSE,
         seen |-> <<>>, stay |-> {}]

Init ==
  /\ kind \in {"object", "array"}
  /\ fields = [items |-> <<>>, ring |-> EmptyRing(Nodes)]
  /\ array = [slots |-> [i \in 0 .. MaxNodes + 1 |-> None], count |-> 0]
  /\ made = <<>> /\ freed = {}
  /\ refs = EmptyRing(Iterators)
  /\ life = [state |-> "alive", next |-> None]
  /\ iterator = [c \in Iterators |-> Free]
  /\ fault = FALSE

(* The innermost loop runs, and what is not a loop runs in its body.       *)
Innermost(c) == \A d \in Iterators : d > c => iterator[d].pc \notin {"test", "body"}
InBody == life.state = "alive" /\ ~fault /\ \A c \in Iterators : iterator[c].pc # "test"

Loops == {c \in Iterators : iterator[c].pc \in {"test", "body"}}
Elements == {array.slots[i] : i \in {j \in 0 .. MaxNodes : j < array.count}}
Present == IF kind = "object" THEN {Item(i).node : i \in {j \in 0 .. MaxNodes : j < Count}}
                              ELSE Elements

(* Rules.  current: the body neither erases the field at which a loop is   *)
(* nor clears the object.  shift: the body does not insert or erase        *)
(* elements at or before the index of a loop.  index: insertAt and eraseAt *)
(* get an index in the array.                                              *)
Rule(name, condition) == name \in BodyRules => condition
-----------------------------------------------------------------------------
(* Fields.  A field that exists keeps its node; a new one is the last of   *)
(* the ring and gets its place in the table.                               *)

Alive(k) == kind = k /\ InBody
NewNode == Len(made) + 1
WithStay(S) == [c \in Iterators |-> [iterator[c] EXCEPT !.stay = @ \cap S]]

SetField(key) ==
  /\ Alive("object")
  /\ Search(key) = None /\ NewNode <= MaxNodes
  /\ made' = Append(made, key)
  /\ fields' = [items |-> With(fields.items, NewSlot(key), [key |-> key, node |-> NewNode]),
                ring |-> RingInsert(fields.ring, NewNode)]
  /\ UNCHANGED <<kind, array, freed, refs, life, iterator, fault>>

EraseField(key) ==
  LET place == Search(key)
      node == fields.items[place].node
  IN
  /\ Alive("object")
  /\ place # None
  /\ Rule("current", \A c \in Loops : iterator[c].at # node)
  /\ fields' = [items |-> Without(fields.items, place),
                ring |-> RingRemove(fields.ring, node)]
  /\ freed' = freed \cup {node}
  /\ iterator' = WithStay(Nodes \ {node})
  /\ UNCHANGED <<kind, array, made, refs, life, fault>>

ClearFields ==
  /\ Alive("object")
  /\ Rule("current", Loops = {})
  /\ fields' = [items |-> <<>>, ring |-> EmptyRing(Nodes)]
  /\ freed' = freed \cup Present
  /\ iterator' = WithStay({})
  /\ UNCHANGED <<kind, array, made, refs, life, fault>>
-----------------------------------------------------------------------------
(* Elements.  The slots beyond count keep what they held.                  *)

Slot(i) == array.slots[i]
Sound(element) == element # None /\ element \notin freed
Ahead(i) == Rule("shift", \A c \in Loops : iterator[c].at < i)

Push ==
  /\ Alive("array")
  /\ NewNode <= MaxNodes
  /\ made' = Append(made, NewNode)
  /\ array' = [slots |-> [array.slots EXCEPT ![array.count] = NewNode],
               count |-> array.count + 1]
  /\ UNCHANGED <<kind, fields, freed, refs, life, iterator, fault>>

(* insertAt lets through the index one beyond the end: the place that      *)
(* pushSlot added is then skipped.                                         *)
InsertElement(i) ==
  /\ Alive("array")
  /\ NewNode <= MaxNodes
  /\ Rule("index", i <= array.count)
  /\ Ahead(i) \/ i > array.count
  /\ i <= array.count + 1
  /\ made' = Append(made, NewNode)
  /\ array' = [slots |-> [j \in DOMAIN array.slots |->
                            IF j = i THEN NewNode
                            ELSE IF i < j /\ j <= array.count THEN Slot(j - 1)
                            ELSE Slot(j)],
               count |-> array.count + 1]
  /\ UNCHANGED <<kind, fields, freed, refs, life, iterator, fault>>

Erase(i) ==
  [slots |-> [j \in DOMAIN array.slots |->
                IF i <= j /\ j + 1 < array.count THEN Slot(j + 1) ELSE Slot(j)],
   count |-> array.count - 1]

(* eraseAt reports an index beyond the end and goes on.                    *)
EraseElement(i) ==
  /\ Alive("array")
  /\ Rule("index", i < array.count)
  /\ i + 1 = array.count \/ Ahead(i)
  /\ array.count > 0
  /\ array' = Erase(i)
  /\ fault' = ~Sound(Slot(i))
  /\ freed' = freed \cup {Slot(i)}
  /\ iterator' = WithStay(Nodes \ {Slot(i)})
  /\ UNCHANGED <<kind, fields, made, refs, life>>

ClearElements ==
  /\ Alive("array")
  /\ freed' = freed \cup Elements
  /\ fault' = \E e \in Elements : ~Sound(e)
  /\ array' = [slots |-> [i \in DOMAIN array.slots |-> None], count |-> 0]
  /\ iterator' = WithStay({})
  /\ UNCHANGED <<kind, fields, made, refs, life>>
-----------------------------------------------------------------------------
(* for-in: _iter, then _end and _get before each round, _next after it.    *)

IterInit(c) ==
  /\ InBody
  /\ iterator[c].pc \notin {"test", "body"} /\ Innermost(c)
  /\ \A d \in Iterators : d < c => iterator[d].pc = "body"
  /\ refs' = RingInsert(refs, c)
  /\ iterator' = [iterator EXCEPT ![c] =
       [pc |-> "test", at |-> IF kind = "object" THEN fields.ring.first ELSE 0,
        end |-> fields.ring.first = None, attached |-> TRUE,
        seen |-> <<>>, stay |-> Present]]
  /\ UNCHANGED <<contents, life, fault>>

AtEnd(c) == IF kind = "object" THEN iterator[c].end ELSE iterator[c].at >= array.count
Current(c) == IF kind = "object" THEN iterator[c].at ELSE Slot(iterator[c].at)
Detached(c) == IF iterator[c].attached THEN RingRemove(refs, c) ELSE refs

Get(c) ==
  /\ iterator[c].pc = "test" /\ iterator[c].attached /\ ~fault
  /\ ~AtEnd(c)
  /\ fault' = ~Sound(Current(c))
  /\ iterator' = [iterator EXCEPT ![c].pc = "body", ![c].seen = Append(@, Current(c))]
  /\ UNCHANGED <<contents, refs, life>>

Done(c) ==
  /\ iterator[c].pc = "test" /\ iterator[c].attached /\ ~fault
  /\ AtEnd(c)
  /\ iterator' = [iterator EXCEPT ![c].pc = "done", ![c].attached = FALSE]
  /\ refs' = Detached(c)
  /\ UNCHANGED <<contents, life, fault>>

NextUntilLast(c) ==
  IF iterator[c].at = None THEN iterator[c]
  ELSE LET next == fields.ring.next[iterator[c].at]
       IN  [iterator[c] EXCEPT !.at = next, !.end = next = fields.ring.last]

NextInMap(c) ==
  IF iterator[c].at = None THEN iterator[c]
  ELSE LET next == fields.ring.next[iterator[c].at]
       IN  [iterator[c] EXCEPT !.at = next, !.end = next = fields.ring.first]

NextInVector(c) == [iterator[c] EXCEPT !.at = IF @ < array.count THEN @ + 1 ELSE @]

IterNext(c) ==
  /\ iterator[c].pc = "body" /\ iterator[c].attached /\ InBody /\ Innermost(c)
  /\ fault' = (kind = "object" /\ iterator[c].at \in freed)
  /\ iterator' = [iterator EXCEPT ![c] =
       [(IF kind = "object" THEN NextInMap(c) ELSE NextInVector(c)) EXCEPT !.pc = "test"]]
  /\ UNCHANGED <<contents, refs, life>>

(* break; or the error of _next, that the object was unreferenced.         *)
Leave(c) ==
  /\ iterator[c].pc = "body" /\ Innermost(c) /\ life.state # "detaching" /\ ~fault
  /\ iterator' = [iterator EXCEPT ![c] = Free]
  /\ refs' = Detached(c)
  /\ UNCHANGED <<contents, life, fault>>

-----------------------------------------------------------------------------
(* The destructor frees the contents and detaches the iterators: each is   *)
(* taken out of the list while the loop holds on to the one after it.      *)

Destroy ==
  /\ InBody
  /\ freed' = freed \cup Present
  /\ fields' = [items |-> <<>>, ring |-> EmptyRing(Nodes)]
  /\ array' = [slots |-> [i \in DOMAIN array.slots |-> None], count |-> 0]
  /\ iterator' = WithStay({})
  /\ life' = IF refs.first = None THEN [state |-> "dead", next |-> None]
                                  ELSE [state |-> "detaching", next |-> refs.first]
  /\ UNCHANGED <<kind, made, refs, fault>>

DetachNodeAlone ==
  /\ life.state = "detaching"
  /\ life' = [life EXCEPT !.next = refs.next[life.next]]
  /\ UNCHANGED <<contents, refs, iterator, fault>>

DetachNode ==
  /\ life.state = "detaching"
  /\ LET c == life.next
         rest == RingRemove(refs, c)
     IN /\ fault' = (refs.next[c] = None)
        /\ refs' = IF refs.next[c] = None THEN refs ELSE rest
        /\ iterator' = [iterator EXCEPT ![c].attached = FALSE]
        /\ life' = IF rest.first = None THEN [state |-> "dead", next |-> None]
                   ELSE [state |-> "detaching", next |-> refs.next[c]]
  /\ UNCHANGED contents

Next ==
  \/ \E key \in Keys : SetField(key) \/ EraseField(key)
  \/ ClearFields
  \/ Push
  \/ \E i \in 0 .. MaxNodes : InsertElement(i) \/ EraseElement(i)
  \/ ClearElements
  \/ \E c \in Iterators :
       IterInit(c) \/ Get(c) \/ Done(c) \/ IterNext(c) \/ Leave(c)
  \/ Destroy
  \/ DetachNode

(* A destructor that has begun goes on.                                    *)
Spec == Init /\ [][Next]_vars /\ WF_vars(DetachNode)
-----------------------------------------------------------------------------
(* Properties.                                                             *)

(* Whatever was set and erased in which order, the table stays sorted, has *)
(* one item for each node of the ring and no freed node, each field that   *)
(* is there is found by halving and no other is, and the ring leads        *)
(* through all nodes in the order in which they were added.                *)
FieldsAgree ==
  LET nodes == {Item(i).node : i \in {j \in 0 .. MaxNodes : j < Count}} IN
  /\ \A i, j \in 1 .. Count : i < j => fields.items[i].key < fields.items[j].key
  /\ \A i \in 1 .. Count : made[fields.items[i].node] = fields.items[i].key
  /\ nodes \cap freed = {}
  /\ \A key \in Keys :
       Search(key) = IF \E i \in 1 .. Count : fields.items[i].key = key
                     THEN CHOOSE i \in 1 .. Count : fields.items[i].key = key ELSE None
  /\ fields.ring.first = None <=> nodes = {}
  /\ \A n \in nodes :
       fields.ring.next[n] = IF \E m \in nodes : m > n
                             THEN CHOOSE m \in nodes : m > n /\ \A l \in nodes : l > n => m <= l
                             ELSE fields.ring.first
  /\ \A n \in nodes : n >= fields.ring.first /\ fields.ring.previous[fields.ring.next[n]] = n

(* Nothing freed is used, and no slot that was never written.              *)
NoFault == ~fault

(* A loop that ends by itself has visited each element that was there when *)
(* it began and stayed, and no element twice, whatever its body added and  *)
(* erased elsewhere.                                                       *)
VisitsOnce ==
  \A c \in Iterators :
    LET seen == iterator[c].seen IN
    /\ \A i, j \in 1 .. Len(seen) : i # j => seen[i] # seen[j]
    /\ iterator[c].pc = "done" => iterator[c].stay \subseteq {seen[i] : i \in 1 .. Len(seen)}

(* The list of a container is exactly its attached iterators: none is left *)
(* attached to a container that is dead.                                   *)
AttachedExact ==
  /\ \A c \in Iterators : iterator[c].attached <=> refs.next[c] # None
  /\ life.state = "dead" => refs.first = None
  /\ \A c \in Iterators : refs.next[c] # None => refs.previous[refs.next[c]] = c

(* The destructor of a container ends, although each step changes the list *)
(* that it walks through.                                                  *)
DestroyEnds == life.state = "detaching" ~> life.state = "dead"

(* Loops over a container that changes or dies use nothing that is gone,   *)
(* visit what they should and stay registered with it.                     *)
LoopsExact == NoFault /\ VisitsOnce /\ AttachedExact
=============================================================================
