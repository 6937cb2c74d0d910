----------------------------- MODULE SharedPool -----------------------------
(***************************************************************************)
(* What the share manager of the virtual machine promises to its callers,  *)
(* without the list nodes that implement it (see SharedPointers).          *)
(*                                                                         *)
(* An object is free (not allocated), loose (allocated, nobody counts its  *)
(* references: the value a function has just returned) or managed.  A      *)
(* managed object that nothing refers to is a temporary: it waits in the   *)
(* pool of one scope block and is collected when that block is swept.      *)
(***************************************************************************)
EXTENDS Naturals

CONSTANTS Object,   \* script objects
          Block     \* scope blocks of the active functions

VARIABLES status,   \* [Object -> {"free", "loose", "managed"}]
          count,    \* references its holders have taken on each object
          pool      \* [Block -> SUBSET Object], the temporaries of a block

vars == <<status, count, pool>>

Init == /\ status = [o \in Object |-> "free"]
        /\ count = [o \in Object |-> 0]
        /\ pool = [b \in Block |-> {}]

Allocate(o) == /\ status[o] = "free"
               /\ status' = [status EXCEPT ![o] = "loose"]
               /\ UNCHANGED <<count, pool>>

Discard(o) == /\ status[o] = "loose"
              /\ status' = [status EXCEPT ![o] = "free"]
              /\ UNCHANGED <<count, pool>>

Manage(o, b) == /\ status[o] = "loose"
                /\ status' = [status EXCEPT ![o] = "managed"]
                /\ pool' = [pool EXCEPT ![b] = @ \union {o}]
                /\ UNCHANGED count

Acquire(o) == /\ status[o] = "managed"
              /\ count' = [count EXCEPT ![o] = @ + 1]
              /\ pool' = [b \in Block |-> pool[b] \ {o}]
              /\ UNCHANGED status

(* Giving up a reference that is not the last one. *)
Release(o) == /\ status[o] = "managed"
              /\ count[o] > 1
              /\ count' = [count EXCEPT ![o] = @ - 1]
              /\ UNCHANGED <<status, pool>>

(* Giving up the last reference: the object becomes a temporary of b ...   *)
ReleaseTo(o, b) == /\ status[o] = "managed"
                   /\ count[o] = 1
                   /\ count' = [count EXCEPT ![o] = 0]
                   /\ pool' = [pool EXCEPT ![b] = @ \union {o}]
                   /\ UNCHANGED status

(* ... or is destroyed at once ...                                         *)
ReleaseAndFree(o) == /\ status[o] = "managed"
                     /\ count[o] = 1
                     /\ count' = [count EXCEPT ![o] = 0]
                     /\ status' = [status EXCEPT ![o] = "free"]
                     /\ UNCHANGED pool

(* ... or leaves the function as its result, no longer managed.            *)
HandOver(o) == /\ status[o] = "managed"
               /\ count[o] <= 1
               /\ count' = [count EXCEPT ![o] = 0]
               /\ status' = [status EXCEPT ![o] = "loose"]
               /\ pool' = [b \in Block |-> pool[b] \ {o}]

(* A sweep takes one temporary out of the pool of b: destroyed, or handed  *)
(* over when it is among the values being returned.                        *)
Collect(o, b) == /\ o \in pool[b]
                 /\ pool' = [pool EXCEPT ![b] = @ \ {o}]
                 /\ \E s \in {"free", "loose"} :
                       status' = [status EXCEPT ![o] = s]
                 /\ UNCHANGED count

Next == \E o \in Object :
           \/ Allocate(o)
           \/ Discard(o)
           \/ Acquire(o)
           \/ Release(o)
           \/ ReleaseAndFree(o)
           \/ HandOver(o)
           \/ \E b \in Block : Manage(o, b) \/ ReleaseTo(o, b) \/ Collect(o, b)

Spec == Init /\ [][Next]_vars
=============================================================================
