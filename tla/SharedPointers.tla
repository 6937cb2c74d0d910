--------------------------- MODULE SharedPointers ---------------------------
(***************************************************************************)
(* The share manager of the virtual machine (vm/vm_share_manager.cpp) down *)
(* to its nodes.  Every managed object owns one InfoSharedPointerNode.  A   *)
(* node with n_shares = 0 is linked in the circular, doubly linked list     *)
(* unreferenced_objects of one scope block; a node with shares is in none.  *)
(*                                                                         *)
(* The functions trust their callers.  The guards marked "protocol" say     *)
(* what a caller must respect; the checks the code makes itself throw.      *)
(***************************************************************************)
EXTENDS Naturals

CONSTANTS Object,       \* script objects, with their node
          Block,        \* scope blocks of the active functions
          Null,         \* the NULL pointer
          ShareRange,   \* values n_shares can hold: 2^16 for unsigned short
          MaxRefs       \* bound: references the callers hold on one object

ASSUME NullAssumption == Null \notin Object /\ Null \notin Block
ASSUME RangeAssumption == ShareRange \in Nat \ {0} /\ MaxRefs \in Nat

VARIABLES
  status,     \* "free", "loose" (shared_pointer = NULL) or "managed"
  n_shares,   \* node->data.n_shares
  created,    \* node->data.vm_scope_block_where_created
  next,       \* node->next
  previous,   \* node->previous
  first,      \* unreferenced_objects.first of each block
  last,       \* unreferenced_objects.last of each block
  sweep,      \* block being swept by vm_remove_empty_shared_pointers, or Null
  current,    \* its loop variable
  thrown,     \* an internal error has been thrown
  refs,       \* history: references really held, whatever n_shares says
  parked      \* history: the block whose list the node was last put in, or Null

links == <<next, previous, first, last, parked>>
loop == <<sweep, current>>
vars == <<status, n_shares, created, links, loop, thrown, refs>>

Status == {"free", "loose", "managed"}

Init == /\ status = [o \in Object |-> "free"]
        /\ n_shares = [o \in Object |-> 0]
        /\ created = [o \in Object |-> Null]
        /\ next = [o \in Object |-> Null]
        /\ previous = [o \in Object |-> Null]
        /\ first = [b \in Block |-> Null]
        /\ last = [b \in Block |-> Null]
        /\ sweep = Null
        /\ current = Null
        /\ thrown = FALSE
        /\ refs = [o \in Object |-> 0]
        /\ parked = [o \in Object |-> Null]

-----------------------------------------------------------------------------
(* vm_insert_shared_node: append to the ring of b. *)

BadInsert(o) == next[o] # Null \/ previous[o] # Null

InsertNoWrap(b, o) ==   \* mutant: forgets first->previous
  /\ parked' = [parked EXCEPT ![o] = b]
  /\ IF first[b] = Null
     THEN /\ first' = [first EXCEPT ![b] = o]
          /\ last' = [last EXCEPT ![b] = o]
          /\ next' = [next EXCEPT ![o] = o]
          /\ previous' = [previous EXCEPT ![o] = o]
     ELSE /\ previous' = [previous EXCEPT ![o] = last[b]]
          /\ next' = [next EXCEPT ![last[b]] = o, ![o] = first[b]]
          /\ last' = [last EXCEPT ![b] = o]
          /\ UNCHANGED first

Insert(b, o) ==
  /\ parked' = [parked EXCEPT ![o] = b]
  /\ IF first[b] = Null
     THEN /\ first' = [first EXCEPT ![b] = o]
          /\ last' = [last EXCEPT ![b] = o]
          /\ next' = [next EXCEPT ![o] = o]
          /\ previous' = [previous EXCEPT ![o] = o]
     ELSE /\ previous' = [previous EXCEPT ![o] = last[b], ![first[b]] = o]
          /\ next' = [next EXCEPT ![last[b]] = o, ![o] = first[b]]
          /\ last' = [last EXCEPT ![b] = o]
          /\ UNCHANGED first

(* vm_deattach_shared_node: unlink from the list the caller names, which   *)
(* the function does not compare with the list the node is linked in.      *)

BadDetach(o) == next[o] = Null \/ previous[o] = Null

Detach(b, o) ==
  /\ parked' = [parked EXCEPT ![o] = Null]
  /\ IF previous[o] = o /\ next[o] = o
     THEN /\ first' = [first EXCEPT ![b] = Null]
          /\ last' = [last EXCEPT ![b] = Null]
          /\ next' = [next EXCEPT ![o] = Null]
          /\ previous' = [previous EXCEPT ![o] = Null]
     ELSE /\ first' = IF o = first[b] THEN [first EXCEPT ![b] = next[o]] ELSE first
          /\ last' = IF o # first[b] /\ o = last[b]
                     THEN [last EXCEPT ![b] = previous[o]] ELSE last
          /\ next' = [next EXCEPT ![previous[o]] = next[o], ![o] = Null]
          /\ previous' = [previous EXCEPT ![next[o]] = previous[o], ![o] = Null]

(* An internal error: the exception leaves the function before it changes  *)
(* anything else, and this specification stops there.                      *)
Throw == /\ thrown' = TRUE
         /\ UNCHANGED <<status, n_shares, created, links, loop, refs>>

Idle == thrown = FALSE /\ sweep = Null
-----------------------------------------------------------------------------
(* The operator new behind every ZS_NEW_..., and the delete of a value     *)
(* that has no shared pointer (vm_unref_lifetime_object).                  *)

New(o) == /\ Idle
          /\ status[o] = "free"
          /\ status' = [status EXCEPT ![o] = "loose"]
          /\ UNCHANGED <<n_shares, created, links, loop, thrown, refs>>

Delete(o) == /\ Idle
             /\ status[o] = "loose"
             /\ status' = [status EXCEPT ![o] = "free"]
             /\ UNCHANGED <<n_shares, created, links, loop, thrown, refs>>

(* vm_create_shared_object.  Protocol: the object has no shared pointer.   *)
Create(o, b) ==
  /\ Idle
  /\ status[o] = "loose"
  /\ IF BadInsert(o) THEN Throw
     ELSE /\ status' = [status EXCEPT ![o] = "managed"]
          /\ n_shares' = [n_shares EXCEPT ![o] = 0]
          /\ created' = [created EXCEPT ![o] = b]
          /\ Insert(b, o)
          /\ UNCHANGED <<loop, thrown, refs>>

(* vm_share_object.  The check against the greatest count is commented out *)
(* in the code, so n_shares wraps.  Protocol: a temporary that is shared   *)
(* again is still in the list of the block that created it, and at most    *)
(* MaxRefs references are held.                                            *)
ShareNoDetach(o) ==   \* mutant: leaves a temporary linked
  /\ Idle
  /\ status[o] = "managed"
  /\ refs[o] < MaxRefs
  /\ refs' = [refs EXCEPT ![o] = @ + 1]
  /\ n_shares' = [n_shares EXCEPT ![o] = (@ + 1) % ShareRange]
  /\ UNCHANGED <<status, created, links, loop, thrown>>

ShareFirstOnly(o) ==   \* mutant: counts the first reference only
  /\ Idle
  /\ status[o] = "managed"
  /\ refs[o] < MaxRefs
  /\ refs[o] = 0 => parked[o] = created[o]
  /\ refs' = [refs EXCEPT ![o] = @ + 1]
  /\ IF n_shares[o] = 0
     THEN Detach(created[o], o) /\ n_shares' = [n_shares EXCEPT ![o] = 1]
     ELSE UNCHANGED <<links, n_shares>>
  /\ UNCHANGED <<status, created, loop, thrown>>

Share(o) ==
  /\ Idle
  /\ status[o] = "managed"
  /\ refs[o] < MaxRefs
  /\ refs[o] = 0 => parked[o] = created[o]
  /\ IF n_shares[o] = 0
     THEN IF BadDetach(o) THEN Throw
          ELSE /\ Detach(created[o], o)
               /\ refs' = [refs EXCEPT ![o] = @ + 1]
               /\ n_shares' = [n_shares EXCEPT ![o] = (@ + 1) % ShareRange]
               /\ UNCHANGED <<status, created, loop, thrown>>
     ELSE /\ refs' = [refs EXCEPT ![o] = @ + 1]
          /\ n_shares' = [n_shares EXCEPT ![o] = (@ + 1) % ShareRange]
          /\ UNCHANGED <<status, created, links, loop, thrown>>

(* vm_unref_shared_object with a scope block: the object becomes a         *)
(* temporary of that block when its count falls to zero.  Protocol: the    *)
(* caller gives up a reference it holds.                                   *)
UnrefTo(o, b) ==
  /\ Idle
  /\ status[o] = "managed"
  /\ refs[o] > 0
  /\ IF n_shares[o] = 0 THEN Throw
     ELSE /\ n_shares' = [n_shares EXCEPT ![o] = @ - 1]
          /\ refs' = [refs EXCEPT ![o] = @ - 1]
          /\ UNCHANGED <<status, created, loop, thrown>>
          /\ IF n_shares[o] = 1 THEN Insert(b, o) ELSE UNCHANGED links

(* vm_unref_shared_object with no block: the object and its node are freed *)
(* when the count falls to zero.  Destructors call it too, so it also runs *)
(* in the middle of a sweep.                                               *)
Unref(o) ==
  /\ thrown = FALSE
  /\ status[o] = "managed"
  /\ refs[o] > 0
  /\ IF n_shares[o] = 0 THEN Throw
     ELSE /\ n_shares' = [n_shares EXCEPT ![o] = @ - 1]
          /\ refs' = IF n_shares[o] = 1 THEN [refs EXCEPT ![o] = 0]
                                        ELSE [refs EXCEPT ![o] = @ - 1]
          /\ status' = IF n_shares[o] = 1 THEN [status EXCEPT ![o] = "free"]
                                          ELSE status
          /\ created' = IF n_shares[o] = 1 THEN [created EXCEPT ![o] = Null]
                                           ELSE created
          /\ UNCHANGED <<links, loop, thrown>>

(* vm_pop_scope, for a local variable whose object is being returned and   *)
(* is not shared by anything else: the node goes away, the object stays.   *)
HandOver(o) ==
  /\ Idle
  /\ status[o] = "managed"
  /\ n_shares[o] <= 1
  /\ refs[o] <= 1
  /\ n_shares[o] = 0 => parked[o] = created[o]      \* protocol
  /\ IF n_shares[o] = 0 /\ BadDetach(o) THEN Throw
     ELSE /\ IF n_shares[o] = 0 THEN Detach(created[o], o) ELSE UNCHANGED links
          /\ status' = [status EXCEPT ![o] = "loose"]
          /\ n_shares' = [n_shares EXCEPT ![o] = 0]
          /\ refs' = [refs EXCEPT ![o] = 0]
          /\ created' = [created EXCEPT ![o] = Null]
          /\ UNCHANGED <<loop, thrown>>

(* vm_remove_empty_shared_pointers: one step of the loop per node.  The    *)
(* choice of s is vm_object_in_objects_to_return: a value being returned   *)
(* only loses its node.                                                    *)
SweepBegin(b) ==
  /\ Idle
  /\ first[b] # Null
  /\ sweep' = b
  /\ current' = first[b]
  /\ UNCHANGED <<status, n_shares, created, links, thrown, refs>>

SweepPastEnd ==   \* mutant: never notices that the ring is exhausted
  /\ thrown = FALSE
  /\ sweep # Null
  /\ IF BadDetach(current) THEN Throw
     ELSE /\ Detach(sweep, current)
          /\ \E s \in {"free", "loose"} : status' = [status EXCEPT ![current] = s]
          /\ created' = [created EXCEPT ![current] = Null]
          /\ current' = next[current]
          /\ UNCHANGED <<n_shares, sweep, thrown, refs>>

SweepPutsBack ==   \* mutant: a node it took out is put back at the end
  /\ thrown = FALSE
  /\ sweep # Null
  /\ IF next[current] = first[sweep]
     THEN sweep' = Null /\ current' = Null /\ UNCHANGED links
     ELSE /\ first' = [first EXCEPT ![sweep] = next[current]]
          /\ last' = [last EXCEPT ![sweep] = current]
          /\ current' = next[current]
          /\ UNCHANGED <<next, previous, parked, sweep>>
  /\ UNCHANGED <<status, created, n_shares, thrown, refs>>

SweepStep ==
  /\ thrown = FALSE
  /\ sweep # Null
  /\ IF BadDetach(current) THEN Throw
     ELSE /\ Detach(sweep, current)
          /\ \E s \in {"free", "loose"} : status' = [status EXCEPT ![current] = s]
          /\ created' = [created EXCEPT ![current] = Null]
          /\ IF next[current] = first[sweep]
             THEN sweep' = Null /\ current' = Null
             ELSE current' = next[current] /\ UNCHANGED sweep
          /\ UNCHANGED <<n_shares, thrown, refs>>

Next == \/ \E o \in Object : \/ New(o)
                             \/ Delete(o)
                             \/ Share(o)
                             \/ Unref(o)
                             \/ HandOver(o)
        \/ \E o \in Object, b \in Block : Create(o, b) \/ UnrefTo(o, b)
        \/ \E b \in Block : SweepBegin(b)
        \/ SweepStep

Spec == Init /\ [][Next]_vars

(* The loop of a sweep runs to its end: nothing else of the interpreter's  *)
(* single thread runs meanwhile but the destructors the loop itself calls. *)
FairSpec == Spec /\ WF_vars(SweepStep)
-----------------------------------------------------------------------------
(* Properties.                                                             *)

Temporary(o) == status[o] = "managed" /\ n_shares[o] = 0

(* The nodes a walk along next reaches from first: the least set that      *)
(* contains the first node and is closed under next.                       *)
Closed(b, S) == first[b] \in S /\ \A o \in S : next[o] \in S

OnRing(b) == {o \in Object : /\ first[b] # Null
                             /\ \A S \in SUBSET Object : Closed(b, S) => o \in S}

(* Type invariant.                                                         *)
TypeOK == /\ status \in [Object -> Status]
          /\ n_shares \in [Object -> 0 .. ShareRange - 1]
          /\ created \in [Object -> Block \union {Null}]
          /\ next \in [Object -> Object \union {Null}]
          /\ previous \in [Object -> Object \union {Null}]
          /\ first \in [Block -> Object \union {Null}]
          /\ last \in [Block -> Object \union {Null}]
          /\ sweep \in Block \union {Null}
          /\ current \in Object \union {Null}
          /\ thrown \in BOOLEAN
          /\ refs \in [Object -> 0 .. MaxRefs]
          /\ parked \in [Object -> Block \union {Null}]

(* n_shares is the number of references that are really held, so nothing   *)
(* is freed while referred to (vm_unref_shared_object frees at zero).      *)
CountsReferences == \A o \in Object : status[o] = "managed" => n_shares[o] = refs[o]

(* The links of unreferenced_objects form consistent rings: next and       *)
(* previous are inverse, a ring stays in one block, last closes it.        *)
RingsConsistent ==
  /\ \A o \in Object : parked[o] # Null =>
        /\ next[o] # Null /\ previous[o] # Null
        /\ previous[next[o]] = o /\ next[previous[o]] = o
        /\ parked[next[o]] = parked[o] /\ parked[previous[o]] = parked[o]
  /\ \A o \in Object : parked[o] = Null => next[o] = Null /\ previous[o] = Null
  /\ \A b \in Block :
        /\ first[b] = Null <=> last[b] = Null
        /\ first[b] # Null => /\ parked[first[b]] = b
                              /\ parked[last[b]] = b
                              /\ next[last[b]] = first[b]
                              /\ previous[first[b]] = last[b]

(* No temporary is lost: the walk of vm_remove_empty_shared_pointers from  *)
(* some block's first reaches every object that has no references left     *)
(* but the one the sweep is about to take.                                 *)
NoTemporaryLost == \A o \in Object : Temporary(o) => \E b \in Block : o \in OnRing(b)

(* The walk reaches nothing else: a sweep never destroys an object that is *)
(* referred to, nor one that is already gone.                              *)
OnlyTemporariesSwept == \A b \in Block : \A o \in OnRing(b) : Temporary(o)

(* None of the internal errors of vm_share_manager.cpp is thrown.          *)
NothingThrown == thrown = FALSE

(* A sweep leaves its block without temporaries.                           *)
SweepEmpties ==
  [][\A b \in Block : sweep = b /\ sweep' = Null => OnRing(b)' = {}]_vars

(* Every sweep ends, whatever the destructors it runs give up.             *)
SweepEnds == sweep # Null ~> sweep = Null

(* The node lists implement the pools of SharedPool.                       *)
Pool == INSTANCE SharedPool WITH count <- refs,
                                 pool <- [b \in Block |-> OnRing(b)]

ImplementsPool == Pool!Spec
=============================================================================
