----------------------------- MODULE ObjectHeap -----------------------------
(***************************************************************************)
(* Script objects in memory while a script runs: variables in the scope    *)
(* blocks of the active functions, container fields (each holding a        *)
(* ContainerSlot that knows its source object), the temporaries the share  *)
(* manager keeps per block, and the map of container instances that are    *)
(* referred to by slots.                                                   *)
(*                                                                         *)
(* A statement of the script is one action.  What it makes the virtual     *)
(* machine do is listed, in the order of the code, on the stack work; the  *)
(* steps run it, destructors nesting on top of what was interrupted, and   *)
(* no other statement starts before it is empty.                           *)
(***************************************************************************)
EXTENDS Naturals, Sequences, FiniteSets

CONSTANTS Object,     \* script objects that can hold fields
          Field,      \* names of fields
          Variable,   \* names of local variables, the same in every block
          Saved,      \* global variables kept by ScriptEngine::saveState
          MaxDepth,   \* bound: nested scope blocks of all active functions
          MaxStray,   \* bound: shares an object loses before calls stop failing to start
          Null,       \* undefined
          Rules       \* the rules below that scripts keep to

ASSUME DepthAssumption == MaxDepth \in Nat \ {0}
ASSUME StrayAssumption == MaxStray \in Nat
ASSUME SavedAssumption == Saved \subseteq Variable
ASSUME NullAssumption == Null \notin Object
ASSUME FiniteAssumption == \A S \in {Object, Field, Variable} : IsFiniteSet(S)   \* memory and programs
ASSUME RulesAssumption == Rules \subseteq {"swap", "advance", "return", "item", "saved"}

VARIABLES
  live,       \* objects allocated and not deleted
  n_shares,   \* count of the share manager
  created,    \* vm_scope_block_where_created; 0: no shared pointer
  home,       \* block whose unreferenced_objects holds the object; 0: none
  stray,      \* shares of the count that are no variable's and no slot's
  var,        \* what the variables of every block hold
  field,      \* source object of the slot a field holds
  cyclic,     \* cyclic_container_instances
  depth,      \* innermost scope block; block 1 is the main block
  frames,     \* active functions above main, innermost last
  work,       \* what is left of the statement being executed
  fault       \* an internal error was thrown or freed memory touched

share == <<n_shares, created, home, stray>>
vars == <<live, share, var, field, cyclic, depth, frames, work, fault>>

Block == 1 .. MaxDepth
Place == Block \X Variable

(* Blocks whose variables the running function can name.                   *)
base == IF frames = <<>> THEN 1 ELSE frames[Len(frames)].base
Visible == {p \in Place : p[1] \in base .. depth \/ p[1] = 1}

Slots(o) == {s \in Object \X Field : field[s[1]][s[2]] = o}
Pool(b) == {o \in Object : home[o] = b}

Init == /\ live = {}
        /\ n_shares = [o \in Object |-> 0]
        /\ created = [o \in Object |-> 0]
        /\ home = [o \in Object |-> 0]
        /\ stray = [o \in Object |-> 0]
        /\ var = [p \in Place |-> Null]
        /\ field = [o \in Object |-> [f \in Field |-> Null]]
        /\ cyclic = {}
        /\ depth = 1
        /\ frames = <<>>
        /\ work = <<>>
        /\ fault = FALSE

-----------------------------------------------------------------------------
(* The operations of work.                                                 *)

Create(o) == [op |-> "create", obj |-> o]
Store(p, o) == [op |-> "store", at |-> p, obj |-> o]
Assign(x, f, o) == [op |-> "assign", slot |-> <<x, f>>, obj |-> o]
Link(x, f, o) == [op |-> "link", slot |-> <<x, f>>, obj |-> o]
Unref(o, b) == [op |-> "unref", obj |-> o, block |-> b]
Destroy(o) == [op |-> "destroy", obj |-> o]
Sweep(b, ret) == [op |-> "sweep", block |-> b, ret |-> ret]
PopScope(ret) == [op |-> "pop", ret |-> ret]
Return(ret, value) == [op |-> "return", ret |-> ret, value |-> value]
Unwind(o) == [op |-> "unwind", arg |-> o]
Deref == [op |-> "deref"]
Unlink(o) == [op |-> "unlink", obj |-> o]
Globals == [op |-> "globals"]

Current == Head(work)
Does(op) == fault = FALSE /\ work # <<>> /\ Current.op = op
Then(ops) == work' = ops \o Tail(work)

(* vm_share_object takes a temporary out of the list of the block that     *)
(* created it; anything else breaks the lists (see SharedPointers).        *)
CanShare(o) == /\ o \in live
               /\ created[o] # 0
               /\ n_shares[o] = 0 => home[o] = created[o]

ShareKeepHome(o) ==   \* mutant: a temporary that is shared stays one
  /\ n_shares' = [n_shares EXCEPT ![o] = @ + 1]
  /\ UNCHANGED <<created, home, stray>>

TakeShare(o) == /\ n_shares' = [n_shares EXCEPT ![o] = @ + 1]
                /\ home' = [home EXCEPT ![o] = 0]
                /\ UNCHANGED created

Share(o) == TakeShare(o) /\ UNCHANGED stray

(* vm_create_shared_object, in the current block.                          *)
DoCreate ==
  /\ Does("create")
  /\ LET o == Current.obj IN
       /\ created' = [created EXCEPT ![o] = depth]
       /\ home' = [home EXCEPT ![o] = depth]
       /\ UNCHANGED <<n_shares, stray>>
  /\ Then(<<>>)
  /\ UNCHANGED <<live, var, field, cyclic, depth, frames, fault>>

KeepOld(old) == <<>>   \* mutant: the old object is never given up

GiveUpOld(old) == IF old = Null THEN <<>> ELSE <<Unref(old, depth)>>

(* vm_store to a variable: the new object is shared, then the old one      *)
(* given up to the current block.                                          *)
DoStore ==
  /\ Does("store")
  /\ LET p == Current.at
         o == Current.obj
         old == var[p]
     IN IF old = o
        THEN Then(<<>>) /\ UNCHANGED <<share, var, fault>>
        ELSE IF o # Null /\ ~CanShare(o)
        THEN fault' = TRUE /\ UNCHANGED <<share, var, work>>
        ELSE /\ var' = [var EXCEPT ![p] = o]
             /\ IF o = Null THEN UNCHANGED share ELSE Share(o)
             /\ Then(GiveUpOld(old))
             /\ UNCHANGED fault
  /\ UNCHANGED <<live, field, cyclic, depth, frames>>

(* vm_store to a field, vm_assign_container_slot: the slot leaves its      *)
(* previous source, which is given up, before it takes the new one.        *)
(* removeContainerSlot: a source without any slot left leaves the map of   *)
(* container instances.                                                    *)
RemoveSlotOnly(x, f) ==   \* mutant: the map keeps the source
  /\ field' = [field EXCEPT ![x][f] = Null]
  /\ UNCHANGED cyclic

RemoveSlot(x, f) ==
  /\ field' = [field EXCEPT ![x][f] = Null]
  /\ cyclic' = IF Slots(field[x][f]) = {<<x, f>>}
               THEN cyclic \ {field[x][f]} ELSE cyclic

DoAssign ==
  /\ Does("assign")
  /\ LET x == Current.slot[1]
         f == Current.slot[2]
         o == Current.obj
         old == field[x][f]
     IN IF x \notin live
        THEN fault' = TRUE /\ UNCHANGED <<field, cyclic, work>>
        ELSE /\ Then(IF old = o THEN <<>>
                     ELSE IF old = Null THEN <<Link(x, f, o)>>
                     ELSE <<Unref(old, 0), Link(x, f, o)>>)
             /\ IF old \in {o, Null} THEN UNCHANGED <<field, cyclic>>
                ELSE RemoveSlot(x, f)
             /\ UNCHANGED fault
  /\ UNCHANGED <<live, share, var, depth, frames>>

(* Then the slot is assigned, and the new source shared.                   *)
DoLink ==
  /\ Does("link")
  /\ LET x == Current.slot[1]
         f == Current.slot[2]
         o == Current.obj
     IN IF x \notin live \/ ~CanShare(o)
        THEN fault' = TRUE /\ UNCHANGED <<share, field, cyclic, work>>
        ELSE /\ field' = [field EXCEPT ![x][f] = o]
             /\ cyclic' = cyclic \union {o}
             /\ Share(o)
             /\ Then(<<>>)
             /\ UNCHANGED fault
  /\ UNCHANGED <<live, var, depth, frames>>

(* vm_unref_shared_object: at zero the object is deleted when no block is  *)
(* given, otherwise it waits there for the next sweep.                     *)
DoUnref ==
  /\ Does("unref")
  /\ LET o == Current.obj
         b == Current.block
         lastOne == n_shares[o] = 1
     IN IF o \notin live \/ created[o] = 0 \/ n_shares[o] = 0
        THEN fault' = TRUE /\ UNCHANGED <<share, work>>
        ELSE /\ n_shares' = [n_shares EXCEPT ![o] = @ - 1]
             /\ home' = IF lastOne THEN [home EXCEPT ![o] = b] ELSE home
             /\ Then(IF lastOne /\ b = 0 THEN <<Destroy(o)>> ELSE <<>>)
             /\ UNCHANGED <<created, stray, fault>>
  /\ UNCHANGED <<live, var, field, cyclic, depth, frames>>

(* The destructors of an object: each field's slot leaves its source,      *)
(* which is given up; no slot may refer to the object itself any more.     *)
DoDestroy ==
  /\ Does("destroy")
  /\ LET o == Current.obj
         full == {f \in Field : field[o][f] # Null}
     IN IF full # {}
        THEN \E f \in full :
               /\ RemoveSlot(o, f)
               /\ work' = <<Unref(field[o][f], 0)>> \o work
               /\ UNCHANGED <<live, created, fault>>
        ELSE IF Slots(o) # {}
        THEN fault' = TRUE /\ UNCHANGED <<live, created, field, cyclic, work>>
        ELSE /\ live' = live \ {o}
             /\ created' = [created EXCEPT ![o] = 0]
             /\ Then(<<>>)
             /\ UNCHANGED <<field, cyclic, fault>>
  /\ UNCHANGED <<n_shares, home, stray, var, depth, frames>>

Take(o) == home' = [home EXCEPT ![o] = 0]

(* vm_remove_empty_shared_pointers: what is being returned only loses its  *)
(* shared pointer.                                                         *)
DoSweep ==
  /\ Does("sweep")
  /\ IF Pool(Current.block) = {}
     THEN Then(<<>>) /\ UNCHANGED share
     ELSE \E o \in Pool(Current.block) :
            /\ Take(o)
            /\ IF o \in Current.ret
               THEN created' = [created EXCEPT ![o] = 0] /\ UNCHANGED work
               ELSE work' = <<Destroy(o)>> \o work /\ UNCHANGED created
            /\ UNCHANGED <<n_shares, stray>>
  /\ UNCHANGED <<live, var, field, cyclic, depth, frames, fault>>

HandsOverShared(o, ret) == o \in ret   \* mutant: whoever else holds it

HandsOver(o, ret) == o \in ret /\ n_shares[o] <= 1

(* vm_pop_scope: the variables of the block, one by one, then its sweep.   *)
DoPop ==
  /\ Does("pop")
  /\ LET ret == Current.ret
         held == {v \in Variable : var[<<depth, v>>] # Null}
     IN IF held = {}
        THEN /\ depth' = depth - 1
             /\ Then(<<Sweep(depth, ret)>>)
             /\ UNCHANGED <<share, var>>
        ELSE \E v \in held :
               LET o == var[<<depth, v>>] IN
               /\ var' = [var EXCEPT ![<<depth, v>>] = Null]
               /\ IF ~HandsOver(o, ret)
                  THEN work' = <<Unref(o, 0)>> \o work /\ UNCHANGED share
                  ELSE /\ n_shares' = [n_shares EXCEPT ![o] = 0]
                       /\ created' = [created EXCEPT ![o] = 0]
                       /\ home' = [home EXCEPT ![o] = 0]
                       /\ UNCHANGED <<stray, work>>
               /\ UNCHANGED depth
  /\ UNCHANGED <<live, field, cyclic, frames, fault>>

(* The end of a script function and of the vm_call that ran it: all its    *)
(* blocks are popped; a returned object that lost its shared pointer gets  *)
(* a new one, owned by the caller's block; the caller's statement goes on  *)
(* with the value.  value is <<"object", o>>, <<"slot", x, f>> (an element *)
(* is returned as its slot), <<"variable", v>> (a global variable is       *)
(* returned as a pointer to it) or <<"nothing">>.                          *)
FinishSwept(to, o) ==   \* mutant: sweeps before the value is stored
  <<Sweep(depth, {})>> \o (IF to = Null THEN <<>> ELSE <<Store(to, o)>>)

Finish(to, o) == (IF to = Null THEN <<>> ELSE <<Store(to, o)>>)
                 \o <<Sweep(depth, {})>>

Gone(value) == \/ value[1] = "object" /\ value[2] \notin live
               \/ value[1] = "slot" /\ \/ value[2] \notin live
                                       \/ field[value[2]][value[3]] = Null

InFunction == depth >= base

DoReturn ==
  /\ Does("return")
  /\ LET value == Current.value
         to == frames[Len(frames)].to
     IN IF InFunction
        THEN /\ work' = <<PopScope(Current.ret)>> \o work
             /\ UNCHANGED <<frames, fault>>
        ELSE IF Gone(value) /\ (value[1] = "slot" => to # Null)
        THEN fault' = TRUE /\ UNCHANGED <<frames, work>>
        ELSE /\ frames' = SubSeq(frames, 1, Len(frames) - 1)
             /\ Then((IF value[1] = "object" /\ created[value[2]] = 0
                      THEN <<Create(value[2])>> ELSE <<>>)
                     \o CASE value[1] = "object" -> Finish(to, value[2])
                          [] value[1] = "slot" /\ to # Null
                                 -> Finish(to, field[value[2]][value[3]])
                          [] value[1] = "variable" -> Finish(to, var[<<1, value[2]>>])
                          [] OTHER -> Finish(to, Null))
             /\ UNCHANGED fault
  /\ UNCHANGED <<live, share, var, field, cyclic, depth>>

(* vm_call shares an object argument before the function has a block.  A   *)
(* call that fails in between leaves that share to nobody.                 *)
DoStrand ==
  /\ Does("unwind")
  /\ Current.arg # Null
  /\ LET o == Current.arg
     IN IF ~CanShare(o)
        THEN fault' = TRUE /\ UNCHANGED <<share, work>>
        ELSE /\ TakeShare(o)
             /\ stray' = [stray EXCEPT ![o] = @ + 1]
             /\ Then(<<Unwind(Null)>>)
             /\ UNCHANGED fault
  /\ UNCHANGED <<live, var, field, cyclic, depth, frames>>

(* vm_do_stack_dump after an error: every block but the main one is popped. *)
DoUnwind ==
  /\ Does("unwind")
  /\ Current.arg = Null
  /\ IF depth > 1
     THEN work' = <<PopScope({})>> \o work /\ UNCHANGED frames
     ELSE frames' = <<>> /\ Then(<<Sweep(1, {})>>)
  /\ UNCHANGED <<live, share, var, field, cyclic, depth, fault>>

LonelySelf(o) ==   \* mutant: counts the slots of the object itself only
  /\ Slots(o) # {}
  /\ Cardinality({s \in Slots(o) : s[1] = o}) = n_shares[o]

Lonely(o) == Slots(o) # {} /\ Cardinality(Slots(o)) = n_shares[o]

(* vm_deref_cyclic_references: an instance of the map that only slots hold *)
(* is taken out of all of them and given up to the main block.             *)
DoDeref ==
  /\ Does("deref")
  /\ LET lonely == {o \in cyclic : Lonely(o)} IN
     IF lonely = {} THEN Then(<<>>)
     ELSE \E o \in lonely : work' = <<Unlink(o)>> \o work
  /\ UNCHANGED <<live, share, var, field, cyclic, depth, frames, fault>>

DoUnlink ==
  /\ Does("unlink")
  /\ LET o == Current.obj IN
     IF Slots(o) = {}
     THEN cyclic' = cyclic \ {o} /\ Then(<<>>) /\ UNCHANGED field
     ELSE \E s \in Slots(o) :
            /\ field' = [field EXCEPT ![s[1]][s[2]] = Null]
            /\ work' = <<Unref(o, 1)>> \o work
            /\ UNCHANGED cyclic
  /\ UNCHANGED <<live, share, var, depth, frames, fault>>

(* The variables clearGlobalVariables gives up.                            *)
DoGlobals ==
  /\ Does("globals")
  /\ LET held == {v \in Variable : /\ var[<<1, v>>] # Null
                                   /\ v \notin Saved}
     IN IF held = {}
        THEN Then(<<>>) /\ UNCHANGED var
        ELSE \E v \in held :
               /\ var' = [var EXCEPT ![<<1, v>>] = Null]
               /\ work' = <<Unref(var[<<1, v>>], 0)>> \o work
  /\ UNCHANGED <<live, share, field, cyclic, depth, frames, fault>>

Step == \/ DoCreate \/ DoStore \/ DoAssign \/ DoLink \/ DoUnref \/ DoDestroy \/ DoSweep
        \/ DoPop \/ DoReturn \/ DoStrand \/ DoUnwind
        \/ DoDeref \/ DoUnlink \/ DoGlobals
-----------------------------------------------------------------------------
(* The statements.  All of them end with a sweep of the current block      *)
(* (vm_reset_stack).                                                       *)

Ready == fault = FALSE /\ work = <<>>

Run(ops) == work' = ops \o <<Sweep(depth, {})>>

Allocate(o) == /\ o \notin live
               /\ live' = live \union {o}

(* What the variables of the blocks below d hold, directly or not.         *)
Closed(R) == \A x \in R : \A f \in Field : field[x][f] \in R \union {Null}
Reach(S) == {o \in Object : \A R \in SUBSET Object : S \subseteq R /\ Closed(R) => o \in R}
HeldBelow(d) == Reach({var[p] : p \in {q \in Place : q[1] < d}} \ {Null})

(* p = {}                                                                  *)
New(p, o) == /\ Ready
             /\ Allocate(o)
             /\ Run(<<Create(o), Store(p, o)>>)
             /\ UNCHANGED <<share, var, field, cyclic, depth, frames, fault>>

(* p = q                                                                   *)
Copy(p, q) == /\ Ready
              /\ var[q] # Null
              /\ Run(<<Store(p, var[q])>>)
              /\ UNCHANGED <<live, share, var, field, cyclic, depth, frames, fault>>

(* p = q.f                                                                 *)
Load(p, q, f) ==
  /\ Ready
  /\ var[q] # Null
  /\ field[var[q]][f] # Null
  /\ Run(<<Store(p, field[var[q]][f])>>)
  /\ UNCHANGED <<live, share, var, field, cyclic, depth, frames, fault>>

(* p = null                                                                *)
Forget(p) == /\ Ready
             /\ var[p] # Null
             /\ Run(<<Store(p, Null)>>)
             /\ UNCHANGED <<live, share, var, field, cyclic, depth, frames, fault>>

(* p, q = q, p.  Rule: neither object is a temporary of a block other than *)
(* the one that created it in between.                                     *)
Swap(p, q) ==
  /\ Ready
  /\ p # q /\ var[p] # Null /\ var[q] # Null
  /\ "swap" \in Rules => n_shares[var[p]] > 1 \/ created[var[p]] = depth
  /\ Run(<<Store(p, var[q]), Store(q, var[p])>>)
  /\ UNCHANGED <<live, share, var, field, cyclic, depth, frames, fault>>

(* p.f = {}                                                                *)
SetNew(p, f, o) ==
  /\ Ready
  /\ var[p] # Null
  /\ Allocate(o)
  /\ Run(<<Create(o), Assign(var[p], f, o)>>)
  /\ UNCHANGED <<share, var, field, cyclic, depth, frames, fault>>

(* p.f = q                                                                 *)
Set(p, f, q) ==
  /\ Ready
  /\ var[p] # Null /\ var[q] # Null
  /\ Run(<<Assign(var[p], f, var[q])>>)
  /\ UNCHANGED <<live, share, var, field, cyclic, depth, frames, fault>>

(* p.f = p.f.g.  Rule: a variable holds the new source too.                *)
Advance(p, f, g) ==
  /\ Ready
  /\ var[p] # Null
  /\ field[var[p]][f] # Null
  /\ LET o == field[field[var[p]][f]][g] IN
       /\ o # Null
       /\ "advance" \in Rules => \E q \in Place : var[q] = o
       /\ Run(<<Assign(var[p], f, o)>>)
  /\ UNCHANGED <<live, share, var, field, cyclic, depth, frames, fault>>

(* p.f = null                                                              *)
SetNull(p, f) ==
  /\ Ready
  /\ var[p] # Null
  /\ field[var[p]][f] # Null
  /\ RemoveSlot(var[p], f)
  /\ Run(<<Unref(field[var[p]][f], 0)>>)
  /\ UNCHANGED <<live, share, var, depth, frames, fault>>

(* { and }                                                                 *)
Enter == /\ Ready
         /\ depth < MaxDepth
         /\ depth' = depth + 1
         /\ UNCHANGED <<live, share, var, field, cyclic, frames, work, fault>>

Exit == /\ Ready
        /\ depth > base
        /\ work' = <<PopScope({})>>
        /\ UNCHANGED <<live, share, var, field, cyclic, depth, frames, fault>>

(* to = fn(q), with a parameter that takes the object of q.                *)
Call(to, q, v) ==
  /\ Ready
  /\ depth < MaxDepth
  /\ var[q] # Null
  /\ frames' = Append(frames, [base |-> depth + 1, to |-> to])
  /\ depth' = depth + 1
  /\ var' = [var EXCEPT ![<<depth + 1, v>>] = var[q]]
  /\ Share(var[q])
  /\ UNCHANGED <<live, field, cyclic, work, fault>>

Returning == Ready /\ frames # <<>>

(* return p.  Rule: only variables hold the object, or what else holds it   *)
(* outlives the function.                                                  *)
ReturnVar(p) ==
  /\ Returning
  /\ var[p] # Null
  /\ "return" \in Rules => Slots(var[p]) = {} \/ var[p] \in HeldBelow(base)
  /\ work' = IF p[1] = 1 THEN <<Return({}, <<"variable", p[2]>>)>>
             ELSE <<Return({var[p]}, <<"object", var[p]>>)>>
  /\ UNCHANGED <<live, share, var, field, cyclic, depth, frames, fault>>

(* return p.f.  Rule: the container outlives the function.                 *)
ReturnItem(p, f) ==
  /\ Returning
  /\ var[p] # Null
  /\ field[var[p]][f] # Null
  /\ "item" \in Rules => var[p] \in HeldBelow(base)
  /\ work' = <<Return({}, <<"slot", var[p], f>>)>>
  /\ UNCHANGED <<live, share, var, field, cyclic, depth, frames, fault>>

(* return {}                                                               *)
ReturnNew(o) ==
  /\ Returning
  /\ Allocate(o)
  /\ work' = <<Create(o), Return({o}, <<"object", o>>)>>
  /\ UNCHANGED <<share, var, field, cyclic, depth, frames, fault>>

ReturnNothing ==
  /\ Returning
  /\ work' = <<Return({}, <<"nothing">>)>>
  /\ UNCHANGED <<live, share, var, field, cyclic, depth, frames, fault>>

(* A run-time error, between statements or with a temporary just made:     *)
(* vm_execute cleans up and throws to the host.                            *)
Fail == /\ Ready
        /\ \/ work' = <<Unwind(Null)>> /\ UNCHANGED live
           \/ \E o \in Object : Allocate(o) /\ work' = <<Create(o), Unwind(Null)>>
        /\ UNCHANGED <<share, var, field, cyclic, depth, frames, fault>>

(* The error of a call that has shared its argument, a variable's object   *)
(* or a new one, and does not start: the function of a default value       *)
(* fails, a later by-reference argument is refused, too many calls, or no  *)
(* room for the locals.  A constructor that fails at once leaves the share *)
(* of the new object in the same way.                                      *)
CallFails == /\ Ready
             /\ \A x \in Object : stray[x] < MaxStray
             /\ \/ \E p \in Visible : /\ var[p] # Null
                                      /\ work' = <<Unwind(var[p])>>
                                      /\ UNCHANGED live
                \/ \E o \in Object : Allocate(o) /\ work' = <<Create(o), Unwind(o)>>
             /\ UNCHANGED <<share, var, field, cyclic, depth, frames, fault>>

(* ScriptEngine::clearGlobalVariables, called by the host between scripts. *)
(* Rule: what a saved variable reaches is held by variables too.           *)
ClearGlobalVariables ==
  /\ Ready
  /\ depth = 1 /\ frames = <<>>
  /\ "saved" \in Rules =>
       \A o \in Reach({var[<<1, v>>] : v \in Saved} \ {Null}) : ~Lonely(o)
  /\ work' = <<Deref, Globals, Sweep(1, {})>>
  /\ UNCHANGED <<live, share, var, field, cyclic, depth, frames, fault>>

Statement ==
  \/ \E p \in Visible :
       \/ \E o \in Object : New(p, o) \/ \E f \in Field : SetNew(p, f, o)
       \/ \E q \in Visible :
            \/ Copy(p, q)
            \/ Swap(p, q)
            \/ \E f \in Field : Load(p, q, f) \/ Set(p, f, q)
       \/ \E f, g \in Field : Advance(p, f, g)
       \/ \E f \in Field : SetNull(p, f) \/ ReturnItem(p, f)
       \/ Forget(p)
       \/ ReturnVar(p)
       \/ \E to \in Visible \union {Null}, v \in Variable : Call(to, p, v)
  \/ \E o \in Object : ReturnNew(o)
  \/ Enter \/ Exit \/ ReturnNothing \/ Fail \/ CallFails
  \/ ClearGlobalVariables

Next == Step \/ Statement

Spec == Init /\ [][Next]_vars

(* The interpreter's thread runs a statement to its end.                   *)
FairSpec == Spec /\ WF_vars(Step)
-----------------------------------------------------------------------------
(* Properties.                                                             *)

Pending(op) == {i \in DOMAIN work : work[i].op = op}
Dying == {work[i].obj : i \in Pending("destroy")}
Clearing == Pending("deref") \union Pending("globals") # {}

(* What the script, or after a clear the next script, can still name.      *)
Roots == IF Clearing THEN {var[<<1, v>>] : v \in Saved} \ {Null}
         ELSE {var[p] : p \in Place} \ {Null}
Reachable == Reach(Roots)

(* Type invariant.                                                         *)
TypeOK ==
  /\ live \subseteq Object
  /\ n_shares \in [Object -> Nat]
  /\ created \in [Object -> Block \union {0}]
  /\ home \in [Object -> Block \union {0}]
  /\ stray \in [Object -> Nat]
  /\ var \in [Place -> Object \union {Null}]
  /\ field \in [Object -> [Field -> Object \union {Null}]]
  /\ cyclic \subseteq Object
  /\ depth \in Block
  /\ frames \in Seq([base : Block, to : Place \union {Null}])
  /\ fault \in BOOLEAN

(* Neither an internal error of the share manager nor an access to a       *)
(* deleted object, in any nesting of stores, destructors, scope ends and   *)
(* returns (vm_store, vm_pop_scope, ~ObjectScriptObject).                  *)
NoFault == fault = FALSE

(* Between statements the count of an object is the number of variables    *)
(* and fields that hold it and of the calls that took it and did not       *)
(* start: a count too low frees it under its holders, one too high keeps   *)
(* it for ever.                                                            *)
CountsExact ==
  work = <<>> /\ fault = FALSE =>
    \A o \in live : n_shares[o] = Cardinality({p \in Place : var[p] = o})
                                 + Cardinality(Slots(o)) + stray[o]

(* At every moment, destructors included, what a variable or a field of a  *)
(* living object holds is allocated, and no variable holds an object whose *)
(* destructor has started.                                                 *)
NothingDangles ==
  /\ \A p \in Place : var[p] # Null => var[p] \in live \ Dying
  /\ \A x \in live, f \in Field : field[x][f] # Null => field[x][f] \in live

(* Between statements the map of container instances, whose keys are raw   *)
(* pointers, holds exactly the objects that some slot refers to, so that   *)
(* vm_deref_cyclic_references misses none and visits no deleted one.       *)
CyclicMapExact ==
  work = <<>> /\ fault = FALSE => cyclic = {o \in live : Slots(o) # {}}

(* Both books are right between statements: shares and container slots.    *)
BookkeepingExact == TypeOK /\ CountsExact /\ CyclicMapExact

Below(x) == Reach({field[x][f] : f \in Field} \ {Null})
Stranded == {o \in Object : stray[o] > 0}

(* Between statements nothing leaks but cycles and what calls that did not *)
(* start had taken: an object no variable reaches is reached from a cycle  *)
(* of fields or from such an argument.                                     *)
OnlyCyclesLeak ==
  work = <<>> /\ fault = FALSE =>
    \A o \in live \ Reachable :
      \E x \in live \ Reachable :
        \/ x \in Below(x) /\ o \in Below(x)
        \/ x \in Stranded /\ o \in Below(x) \union {x}

(* "ZetScript is in charge to deallocate automatically when it has no more *)
(* references to it" (api_call_cpp_from_zetscript.adoc:209): back in the   *)
(* host, an object that no variable and no slot holds is gone.             *)
UnreferencedGoes ==
  Ready /\ frames = <<>> =>
    \A o \in live : Slots(o) # {} \/ \E p \in Place : var[p] = o

(* Collection is invisible: the fields of an object the script can still   *)
(* name change by its own assignments only, never in a sweep, in the end   *)
(* of a scope or in a clear of the globals.                                *)
CollectionInvisible ==
  [][\A x \in Reachable : field'[x] # field[x] =>
        Ready \/ Does("assign") \/ Does("link")]_vars

(* A call gives back every block it pushed: when no function is active the *)
(* blocks above the innermost one hold no variable and no temporary, and a *)
(* statement leaves no temporary behind in any block.                      *)
BlocksClean ==
  /\ \A p \in Place : p[1] > depth => var[p] = Null
  /\ work = <<>> /\ fault = FALSE => \A b \in Block : Pool(b) = {}

(* Nothing stays that should go: neither objects, but for cycles and what  *)
(* calls that did not start left, nor temporaries or variables of blocks   *)
(* that were left.                                                         *)
NothingStays == OnlyCyclesLeak /\ BlocksClean

(* Clearing the globals of a heap in which the script holds nothing any    *)
(* more frees everything, whatever cycles there are, but for the objects   *)
(* themselves that calls which did not start had taken.                    *)
GarbageCleared ==
  (work # <<>> /\ Current.op = "deref" /\ Roots = {} /\ \A p \in Place : var[p] = Null)
    ~> (live = Stranded /\ cyclic \subseteq Stranded)

(* Seen from the share manager the interpreter is a client that respects   *)
(* its protocol.                                                           *)
Pool1 == INSTANCE SharedPool WITH
  status <- [o \in Object |-> IF o \notin live \/ o \in Dying THEN "free"
                             ELSE IF created[o] = 0 THEN "loose" ELSE "managed"],
  count <- n_shares,
  pool <- [b \in Block |-> Pool(b)]

UsesSharedPool == Pool1!Spec
=============================================================================
