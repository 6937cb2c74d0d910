------------------------------- MODULE HostCalls -------------------------------
(***************************************************************************)
(* Script objects between the script and the host program (vm.cpp).  The   *)
(* host calls a script function with vm_execute and may pass an object it  *)
(* holds; an object that the function returns becomes the host's, with an  *)
(* entry in the table of lifetime objects, until it gives it back.  Script *)
(* code calls native functions, and these call script functions again.     *)
(*                                                                         *)
(* An object that was in the hands of the virtual machine has a node with  *)
(* the number of its shares; without shares it waits in the list of a      *)
(* block, to be deleted with the block.  A returned object whose shares    *)
(* are gone loses its node and is the host's alone: it is loose.           *)
(*                                                                         *)
(* A function has one parameter and one block.                             *)
(***************************************************************************)
EXTENDS Naturals, Sequences, FiniteSets

CONSTANTS Object,       \* the objects that can be created
          Var,          \* the global variables
          None,         \* undefined
          MaxFrames,    \* bound on nested calls of script and native functions
          MaxOperands,  \* bound on the operands of one function
          MaxEntries,   \* bound on the lifetime objects
          MaxStray,     \* bound: shares an object loses before calls stop failing to start
          Keeps         \* the rules the host and the scripts follow

Rules == {"loose", "operand"}

ASSUME ObjectAssumption == None \notin Object
ASSUME NodeAssumption == None \notin [shares : Nat, home : Nat, list : Nat]
ASSUME VarAssumption == IsFiniteSet(Var)
ASSUME BoundsAssumption == {MaxFrames, MaxOperands, MaxEntries} \subseteq Nat \ {0}
ASSUME StrayAssumption == MaxStray \in Nat
ASSUME RulesAssumption == Keeps \subseteq Rules

VARIABLES state,    \* of each object: "new", "live" or "deleted"
          node,     \* of each object: None, or its node [shares, home, list]
          global,   \* of each variable: its object
          frames,   \* the calls in progress; the last is the one that runs
          entries,  \* the lifetime objects with what the host was told: a
                    \* sequence of [object, counted]
          stray,    \* of each object: the shares that errors left to nobody
          failed    \* the virtual machine met a node it did not expect

vars == <<state, node, global, frames, entries, stray, failed>>

Live == {o \in Object : state[o] = "live"}
Depth == Len(frames)
Frame == frames[Depth]
HostRuns == ~failed /\ (Depth > 0 => Frame.kind = "native")
ScriptRuns == ~failed /\ Depth > 0 /\ Frame.kind = "script"

(* The blocks are those of the frames, and 0 is the main program's.  A     *)
(* native function works in the block of its caller.                       *)
Blocks == {i \in 1 .. Depth : frames[i].kind = "script"}
Block == IF Blocks = {} THEN 0 ELSE CHOOSE b \in Blocks : \A c \in Blocks : c <= b

NoList == MaxFrames + 1

Init ==
  /\ state = [o \in Object |-> "new"]
  /\ node = [o \in Object |-> None]
  /\ global = [v \in Var |-> None]
  /\ frames = <<>>
  /\ entries = <<>>
  /\ stray = [o \in Object |-> 0]
  /\ failed = FALSE

-----------------------------------------------------------------------------
(* The share manager, on a heap [state, node].                             *)

Heap == [state |-> state, node |-> node]

Created(h, o, block) == [h EXCEPT !.node[o] = [shares |-> 0, home |-> block, list |-> block]]

Shared(h, o) ==
  IF o = None THEN h ELSE [h EXCEPT !.node[o].shares = @ + 1, !.node[o].list = NoList]

Deleted(h, o) == [h EXCEPT !.state[o] = "deleted", !.node[o] = None]

(* What UnrefAtOnce gets wrong: nothing waits for the end of a block.       *)
UnrefAtOnce(h, o, block) ==
  IF o = None THEN h
  ELSE IF h.node[o].shares > 1 THEN [h EXCEPT !.node[o].shares = @ - 1]
  ELSE Deleted(h, o)

(* A share less; without a block the object is deleted with the last one.  *)
Unref(h, o, block) ==
  IF o = None THEN h
  ELSE IF h.node[o].shares > 1 THEN [h EXCEPT !.node[o].shares = @ - 1]
  ELSE IF block = NoList THEN Deleted(h, o)
  ELSE [h EXCEPT !.node[o].shares = 0, !.node[o].list = block]

(* The end of a block: its parameter's share goes, and what waits in the   *)
(* block is deleted; what is returned is let loose in both cases.          *)
Swept(h, block, kept) ==
  LET waits == {o \in Object : h.node[o] # None /\ h.node[o].list = block}
  IN [state |-> [o \in Object |-> IF o \in waits \ {kept} THEN "deleted" ELSE h.state[o]],
      node |-> [o \in Object |-> IF o \in waits THEN None ELSE h.node[o]]]

(* What PoppedLoose gets wrong: it lets loose what is not returned, too.    *)
PoppedLoose(h, param, block, kept) ==
  LET loose == param # None /\ h.node[param] # None /\ h.node[param].shares <= 1
      left == IF param = None \/ h.node[param] = None THEN h
              ELSE IF loose THEN [h EXCEPT !.node[param] = None]
              ELSE Unref(h, param, NoList)
  IN Swept(left, block, kept)

Popped(h, param, block, kept) ==
  LET loose == param # None /\ param = kept /\ h.node[param] # None /\ h.node[param].shares <= 1
      left == IF param = None \/ h.node[param] = None THEN h
              ELSE IF loose THEN [h EXCEPT !.node[param] = None]
              ELSE Unref(h, param, NoList)
  IN Swept(left, block, kept)

Now(h) == state' = h.state /\ node' = h.node

-----------------------------------------------------------------------------
(* Script code.                                                            *)

Operands(s) == [frames EXCEPT ![Depth].operands = s]
Pushed(o) == Operands(Append(Frame.operands, o))
Dropped(n) == SubSeq(Frame.operands, 1, Len(Frame.operands) - n)
Operand == Frame.operands[Len(Frame.operands)]
Room == Len(Frame.operands) < MaxOperands

New(o) ==
  /\ ScriptRuns /\ Room /\ state[o] = "new"
  /\ Now(Created([Heap EXCEPT !.state[o] = "live"], o, Block))
  /\ frames' = Pushed(o)
  /\ UNCHANGED <<global, entries, stray, failed>>

(* What a variable holds is pushed as it is, and not shared.               *)
Push(o) ==
  /\ ScriptRuns /\ Room /\ o # None
  /\ o \in {Frame.param} \cup {global[v] : v \in Var}
  /\ frames' = Pushed(o)
  /\ UNCHANGED <<state, node, global, entries, stray, failed>>

(* "operand": a variable's object is not taken away, and an object is not  *)
(* given back, while it still is an operand of a function or the argument  *)
(* of a native function.                                                   *)
Waiting == UNION {{frames[i].operands[j] : j \in 1 .. Len(frames[i].operands)} : i \in 1 .. Depth}
NativeArguments == {frames[i].param : i \in {j \in 1 .. Depth : frames[j].kind = "native"}}
KeepsOperands(o) == ("operand" \in Keeps /\ o # None) => o \notin Waiting \cup NativeArguments

(* An object without shares that waits in another block than its own is    *)
(* not shared again: what this does to the lists is in SharedPointers.     *)
AtHome(o) == node[o] # None => (node[o].shares > 0 \/ node[o].list = node[o].home)

Store(v) ==
  /\ ScriptRuns /\ Frame.operands # <<>> /\ AtHome(Operand)
  /\ global[v] # Operand => KeepsOperands(global[v])
  /\ global' = [global EXCEPT ![v] = Operand]
  /\ IF global[v] = Operand THEN UNCHANGED <<state, node>>
     ELSE Now(Unref(Shared(Heap, Operand), global[v], Block))
  /\ frames' = Operands(<<>>)
  /\ UNCHANGED <<entries, stray, failed>>

Clear(v) ==
  /\ ScriptRuns /\ global[v] # None /\ KeepsOperands(global[v])
  /\ global' = [global EXCEPT ![v] = None]
  /\ Now(Unref(Heap, global[v], Block))
  /\ UNCHANGED <<frames, entries, stray, failed>>

Entered(caller, kind, param, from, extra) ==
  Append(caller, [kind |-> kind, param |-> param, operands |-> <<>>, from |-> from, extra |-> extra])

(* A script function calls another with its last operand or with nothing,  *)
(* which a native function gets as it is.                                  *)
Arguments == {None} \cup (IF Frame.operands = <<>> THEN {} ELSE {Operand})

Call(o) ==
  /\ ScriptRuns /\ Depth < MaxFrames
  /\ o \in Arguments /\ (o # None => AtHome(o))
  /\ Now(Shared(Heap, o))
  /\ frames' = Entered(Operands(Dropped(IF o = None THEN 0 ELSE 1)), "script", o, "script", None)
  /\ UNCHANGED <<global, entries, stray, failed>>

CallNative(o) ==
  /\ ScriptRuns /\ Depth < MaxFrames
  /\ o \in Arguments
  /\ frames' = Entered(Operands(Dropped(IF o = None THEN 0 ELSE 1)), "native", o, "script", None)
  /\ UNCHANGED <<state, node, global, entries, stray, failed>>

-----------------------------------------------------------------------------
(* vm_execute, called by the host or by a native function.                 *)

(* An argument without a node gets one.  What has a node and no share is a *)
(* temporary of a script that waits: it is shared once more, until the     *)
(* call is over.                                                           *)
IsTemporary(o) == o # None /\ node[o] # None /\ node[o].shares = 0

Argument(o) ==
  IF o = None THEN Heap
  ELSE IF node[o] = None THEN Shared(Created(Heap, o, Block), o)
  ELSE IF IsTemporary(o) THEN Shared(Shared(Heap, o), o)
  ELSE Shared(Heap, o)

(* What the host can pass: what it was given and, in a native function,    *)
(* its argument.  "loose": it does not pass an object that is loose.       *)
Given == {entries[i].object : i \in 1 .. Len(entries)} \cup (IF Depth = 0 THEN {} ELSE {Frame.param})
Passable(o) == o \in Given \cup {None} /\ (("loose" \in Keeps /\ o # None) => node[o] # None)

HostCall(o) ==
  /\ HostRuns /\ Depth < MaxFrames /\ Passable(o)
  /\ o # None => AtHome(o)
  /\ Now(Argument(o))
  /\ frames' = Entered(frames, "script", o, "host", IF IsTemporary(o) THEN o ELSE None)
  /\ UNCHANGED <<global, entries, stray, failed>>

(* What EntryUncounted gets wrong: the host has no share of its own.       *)
EntryUncounted(h, o) ==
  LET counts == h.node[o] # None /\ h.node[o].shares > 0
  IN [heap |-> h, entries |-> Append(entries, [object |-> o, counted |-> counts])]

(* The entry of what is returned counts as a share when there are others.  *)
Entry(h, o) ==
  LET counts == h.node[o] # None /\ h.node[o].shares > 0
  IN [heap |-> IF counts THEN [h EXCEPT !.node[o].shares = @ + 1] ELSE h,
      entries |-> Append(entries, [object |-> o, counted |-> counts])]

EntriesOf(o) == {i \in 1 .. Len(entries) : entries[i].object = o}

(* The calls of script functions an object is the parameter of.            *)
ParamsOf(o) == {i \in 1 .. Depth : frames[i].kind = "script" /\ frames[i].param = o}
ExtrasOf(o) == {i \in 1 .. Depth : frames[i].extra = o}

(* The end of a call's extra share puts a temporary back where it waited.  *)
Over(h, o) == IF o = None THEN h ELSE Unref(h, o, h.node[o].home)

(* A function returns its only operand or nothing.  To a script function   *)
(* it comes as a temporary of the caller's block.                          *)
ReturnToScript(o) ==
  LET h == Popped(Heap, Frame.param, Depth, o)
      caller == frames[Depth - 1]
  IN /\ Now(IF o # None /\ h.node[o] = None THEN Created(h, o, Depth - 1) ELSE h)
     /\ frames' = [SubSeq(frames, 1, Depth - 1) EXCEPT ![Depth - 1].operands =
                     IF o = None \/ Len(@) = MaxOperands THEN @ ELSE Append(@, o)]
     /\ UNCHANGED <<global, entries, stray, failed>>

ReturnToHost(o) ==
  LET h == Popped(Heap, Frame.param, Depth, o)
      told == Entry(h, o)
  IN /\ o # None => Len(entries) < MaxEntries
     /\ frames' = SubSeq(frames, 1, Depth - 1)
     /\ IF o = None THEN Now(Over(h, Frame.extra)) /\ UNCHANGED entries
        ELSE Now(Over(told.heap, Frame.extra)) /\ entries' = told.entries
     /\ UNCHANGED <<global, stray, failed>>

Return(o) ==
  /\ ScriptRuns /\ Len(Frame.operands) <= 1 /\ o \in Arguments
  /\ o = None => Frame.operands = <<>>
  /\ IF Frame.from = "script" THEN ReturnToScript(o) ELSE ReturnToHost(o)

NativeReturn ==
  /\ HostRuns /\ Depth > 0
  /\ frames' = SubSeq(frames, 1, Depth - 1)
  /\ UNCHANGED <<state, node, global, entries, stray, failed>>

(* An error ends all calls: their blocks are left from the last to the     *)
(* first, with what waits in each.  So of a heap h what is lost is what    *)
(* has no more shares than it is a parameter.  The extra shares of         *)
(* arguments, and those that a call took before it failed to start, stay.  *)
Unwound(h, taken) ==
  LET left(o) == Cardinality(ParamsOf(o))
      lost == {o \in Object : h.node[o] # None /\ h.node[o].shares <= left(o)}
  IN /\ state' = [o \in Object |-> IF o \in lost THEN "deleted" ELSE h.state[o]]
     /\ node' = [o \in Object |-> IF h.node[o] = None \/ o \in lost THEN None
                                  ELSE [h.node[o] EXCEPT !.shares = @ - left(o)]]
     /\ stray' = [o \in Object |-> stray[o] + Cardinality(ExtrasOf(o)) + taken[o]]
     /\ frames' = <<>>
     /\ UNCHANGED <<global, entries, failed>>

Taken(o, n) == [x \in Object |-> IF x = o THEN n ELSE 0]

Throw == ScriptRuns /\ Unwound(Heap, Taken(None, 0))

(* The arguments have been shared and the function does not start: too     *)
(* many calls, no room for its locals, a default value's function fails or *)
(* a by-reference argument is refused.                                     *)
MayFail == \A o \in Object : stray[o] < MaxStray

CallFails(o) ==
  /\ ScriptRuns /\ MayFail
  /\ o \in Arguments \ {None} /\ AtHome(o)
  /\ Unwound(Shared(Heap, o), Taken(o, 1))

HostCallFails(o) ==
  /\ HostRuns /\ MayFail /\ Passable(o)
  /\ o # None => AtHome(o)
  /\ Unwound(Argument(o), Taken(o, IF IsTemporary(o) THEN 2 ELSE 1))

(* The host gives back what it was given.                                  *)
UnrefLifetime(o) ==
  /\ HostRuns /\ EntriesOf(o) # {} /\ KeepsOperands(o)
  /\ LET i == CHOOSE j \in EntriesOf(o) : \A k \in EntriesOf(o) : j <= k
     IN entries' = SubSeq(entries, 1, i - 1) \o SubSeq(entries, i + 1, Len(entries))
  /\ IF node[o] = None THEN Now(Deleted(Heap, o)) /\ UNCHANGED failed
     ELSE IF node[o].shares = 0 THEN failed' = TRUE /\ UNCHANGED <<state, node>>
     ELSE Now(Unref(Heap, o, NoList)) /\ UNCHANGED failed
  /\ UNCHANGED <<global, frames, stray>>

Next ==
  \/ \E o \in Object : New(o) \/ Push(o) \/ UnrefLifetime(o)
  \/ \E v \in Var : Store(v) \/ Clear(v)
  \/ \E o \in Object \cup {None} : Call(o) \/ CallNative(o) \/ HostCall(o) \/ Return(o)
  \/ \E o \in Object \cup {None} : CallFails(o) \/ HostCallFails(o)
  \/ NativeReturn \/ Throw

Spec == Init /\ [][Next]_vars

-----------------------------------------------------------------------------
(* Properties.                                                             *)

Parameters == {frames[i].param : i \in 1 .. Depth} \ {None}
Globals == {global[v] : v \in Var} \ {None}
HeldByHost == {entries[i].object : i \in 1 .. Len(entries)}

(* Whatever a variable, a parameter, an operand of a script that waits for *)
(* a call, an argument of a native function or an entry of the host stands *)
(* for has not been deleted, whoever called whom and whatever was given    *)
(* back in between (vm_execute, vm_unref_lifetime_object).                 *)
NothingDangles ==
  /\ Parameters \cup Globals \cup Waiting \cup HeldByHost \subseteq Live
  /\ ~failed

(* The shares of an object are its variables, its parameters in script     *)
(* functions, the extra shares of calls, the entries that count and what   *)
(* errors left; an object that is loose has one entry and nothing else.    *)
GlobalsOf(o) == {v \in Var : global[v] = o}
CountedOf(o) == {i \in EntriesOf(o) : entries[i].counted}

Shares(o) == Cardinality(GlobalsOf(o)) + Cardinality(ParamsOf(o))
             + Cardinality(ExtrasOf(o)) + Cardinality(CountedOf(o)) + stray[o]

SharesExact ==
  \A o \in Live :
    IF node[o] = None THEN Shares(o) = 0 /\ Cardinality(EntriesOf(o)) = 1
    ELSE node[o].shares = Shares(o) /\ \A i \in EntriesOf(o) : entries[i].counted

(* Between calls every object is in a variable or the host's, but for the  *)
(* arguments of calls that errors ended before they started, or that came  *)
(* from native functions as temporaries: when the host has given back what *)
(* it got and the variables are empty, all others are deleted.             *)
NothingLeaks ==
  Depth = 0 => Live = Globals \cup HeldByHost \cup {o \in Object : stray[o] > 0}
=============================================================================
