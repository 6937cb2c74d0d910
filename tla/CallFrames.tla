----------------------------- MODULE CallFrames -----------------------------
(***************************************************************************)
(* The call frames of the virtual machine.  A script function takes the    *)
(* next slot of vm_scope_function and counts its open scope blocks there;  *)
(* what is being executed is on the C++ stack: vm_execute, called by the   *)
(* host or by a native function, the interpreter loop of each script       *)
(* function, and native functions.  Errors travel in vm_error up to the    *)
(* nearest vm_execute, which unwinds the slots and throws a C++ exception; *)
(* exceptions travel up to the nearest vm_call or native that catches.     *)
(***************************************************************************)
EXTENDS Naturals, Sequences

CONSTANTS MaxCalls,    \* ZS_VM_FUNCTION_CALL_MAX
          MaxBlocks,   \* bound: scope blocks a function has open
          MaxNest,     \* bound: C++ activations
          Rules        \* the rules below that scripts and natives keep to

ASSUME MaxCallsAssumption == MaxCalls \in Nat \ {0, 1}
ASSUME MaxBlocksAssumption == MaxBlocks \in Nat \ {0}
ASSUME MaxNestAssumption == MaxNest \in Nat
ASSUME RulesAssumption == Rules \subseteq {"setter", "operator", "throw", "retry"}

VARIABLES current,    \* vm_current_scope_function, as an index
          open,       \* current_scope_block - first_scope_block of each slot
          error,      \* vm_error
          acts,       \* the C++ stack, innermost activation last
          throwing,   \* a C++ exception is looking for its handler
          raised,     \* something failed since the host's call began
          told,       \* what the host's last call ended with
          fault       \* a slot or block before the first was touched

vars == <<current, open, error, acts, throwing, raised, told, fault>>

Slot == 0 .. MaxCalls - 1
Via == {"call", "operator", "setter"}   \* vm_call, metamethods, vm_store
Execute(first) == [kind |-> "execute", first |-> first]
Script(slot, own) == [kind |-> "script", slot |-> slot, own |-> own, calls |-> "none"]
Native(via) == [kind |-> "native", via |-> via, failed |-> FALSE]
Eval(saved) == [kind |-> "eval", saved |-> saved]

Init == /\ current = 0
        /\ open = [s \in Slot |-> 0]
        /\ error = FALSE
        /\ acts = <<>>
        /\ throwing = FALSE
        /\ raised = FALSE
        /\ told = "nothing"
        /\ fault = FALSE

Top == acts[Len(acts)]
Below == SubSeq(acts, 1, Len(acts) - 1)
TopIs(kind) == acts # <<>> /\ ~throwing /\ Top.kind = kind
Running == TopIs("script") /\ Top.calls = "none"
Nests(n) == Len(acts) + n <= MaxNest
-----------------------------------------------------------------------------
(* Rules.  setter: nothing fails in what an assignment calls.  operator:   *)
(* nothing an operator calls handles the exception of a callback, and its  *)
(* function finds room on the stack.  throw: only natives that vm_call     *)
(* called throw.  retry: a native whose callback failed does not call      *)
(* scripts again.                                                          *)

Waits(stack, i, via) == stack[i].kind = "script" /\ stack[i].calls = via

MayFail(stack) ==
  /\ "setter" \in Rules => \A i \in DOMAIN stack : ~Waits(stack, i, "setter")
  /\ "operator" \in Rules =>
       ~\E i, j, k \in DOMAIN stack :
           /\ i < j /\ Waits(stack, i, "operator")
           /\ j < k /\ Waits(stack, j, "call")
           /\ stack[k].kind = "execute"
MayLackRoom(stack) ==
  "operator" \in Rules => ~Waits(stack, Len(stack), "operator")
MayThrow(native) == MayFail(acts) /\ ("throw" \in Rules => native.via = "call")
MayCatch == "operator" \in Rules => \A i \in DOMAIN acts : ~Waits(acts, i, "operator")
MayCall(native) == "retry" \in Rules => ~native.failed
-----------------------------------------------------------------------------
(* Slots.                                                                  *)

(* Pop every block of the innermost slot, and the slot.                    *)
LeaveKeepsBlocks ==   \* mutant: the blocks stay open
  /\ fault' = (fault \/ current = 0)
  /\ current' = IF current = 0 THEN 0 ELSE current - 1
  /\ open' = open

Leave ==
  /\ fault' = (fault \/ current = 0)
  /\ current' = IF current = 0 THEN 0 ELSE current - 1
  /\ open' = [s \in Slot |-> IF s + 1 = current THEN 0 ELSE open[s]]

(* Pop slots until n are left; none when there are fewer.                  *)
Unwind(n) ==
  /\ current' = IF current > n THEN n ELSE current
  /\ open' = [s \in Slot |-> IF s \in n .. current - 1 THEN 0 ELSE open[s]]

(* vm_execute_script_function up to its first instruction, called by the   *)
(* last of below: the call limit, the room on the stack, the slot.  The    *)
(* main function is taken to find room.                                    *)
TooMany(at) == at >= MaxCalls

Enter(below, at, main) ==
  /\ ~TooMany(at)
  /\ acts' = below \o <<Script(at, IF main THEN 0 ELSE 1)>>
  /\ current' = at + 1
  /\ open' = [open EXCEPT ![at] = IF main THEN 0 ELSE 1]
  /\ UNCHANGED fault

(* The two failures: the second pops the caller's slot in place of its own. *)
EnterFails(below, at) ==
  /\ acts' = below
  /\ \/ TooMany(at) /\ current' = at /\ UNCHANGED <<open, fault>>
     \/ /\ ~TooMany(at) /\ MayLackRoom(below)
        /\ fault' = (fault \/ at = 0)
        /\ current' = IF at = 0 THEN 0 ELSE at - 1
        /\ open' = [s \in Slot |-> IF s + 1 = at THEN 0 ELSE open[s]]
-----------------------------------------------------------------------------
(* vm_execute of a function other than main by below; at index 0 the error *)
(* is reset and slot 0 is left to the main function.                       *)
ExecuteFunction(below) ==
  LET first == current = 0
      at == IF first THEN 1 ELSE current
      into == below \o <<Execute(first)>>
  IN /\ \/ /\ Enter(into, at, FALSE)
           /\ error' = (error /\ ~first)
           /\ raised' = (raised /\ below # <<>>)
        \/ /\ MayFail(into)
           /\ EnterFails(into, at)
           /\ error' = TRUE
           /\ raised' = TRUE
     /\ UNCHANGED <<throwing, told>>

HostCalls == acts = <<>> /\ Nests(2) /\ ExecuteFunction(<<>>)

(* ScriptEngine::run: the main function insists on slot 0.                 *)
HostRuns ==
  /\ acts = <<>>
  /\ Nests(2)
  /\ IF current = 0
     THEN /\ Enter(<<Execute(FALSE)>>, 0, TRUE)
          /\ error' = FALSE
          /\ raised' = FALSE
          /\ UNCHANGED told
     ELSE /\ raised' = TRUE
          /\ told' = "internal error"
          /\ UNCHANGED <<current, open, error, acts, fault>>
  /\ UNCHANGED throwing

(* The rest of vm_execute, once the function is done.                      *)
Ends(answer) == told' = IF Len(acts) = 1 THEN answer ELSE told

ExecuteKeepsFirst ==   \* mutant: index 1 stays taken
  /\ TopIs("execute")
  /\ acts' = Below
  /\ IF error
     THEN Unwind(0) /\ throwing' = (Below # <<>>) /\ Ends("error")
     ELSE UNCHANGED <<current, open, throwing>> /\ Ends("value")
  /\ UNCHANGED <<error, raised, fault>>

ExecuteEnds ==
  /\ TopIs("execute")
  /\ acts' = Below
  /\ IF error
     THEN Unwind(0) /\ throwing' = (Below # <<>>) /\ Ends("error")
     ELSE /\ current' = IF Top.first THEN 0 ELSE current
          /\ UNCHANGED <<open, throwing>>
          /\ Ends("value")
  /\ UNCHANGED <<error, raised, fault>>
-----------------------------------------------------------------------------
(* A script function runs.                                                 *)

PushScope ==
  /\ Running /\ Top.own < MaxBlocks
  /\ IF current = 0
     THEN fault' = TRUE /\ UNCHANGED open
     ELSE /\ open[current - 1] < MaxBlocks
          /\ open' = [open EXCEPT ![current - 1] = @ + 1]
          /\ UNCHANGED fault
  /\ acts' = [acts EXCEPT ![Len(acts)].own = @ + 1]
  /\ UNCHANGED <<current, error, throwing, raised, told>>

PopScope ==
  /\ Running /\ Top.own > (IF Top.slot = 0 THEN 0 ELSE 1)
  /\ IF current = 0 \/ (current > 0 /\ open[current - 1] = 0)
     THEN fault' = TRUE /\ UNCHANGED open
     ELSE open' = [open EXCEPT ![current - 1] = @ - 1] /\ UNCHANGED fault
  /\ acts' = [acts EXCEPT ![Len(acts)].own = @ - 1]
  /\ UNCHANGED <<current, error, throwing, raised, told>>

Returns ==
  /\ Running
  /\ Leave
  /\ acts' = Below
  /\ UNCHANGED <<error, throwing, raised, told>>

(* An instruction fails: a plain return keeps the slot, a jump to          *)
(* lbl_exit_function leaves it.                                            *)
Fails ==
  /\ Running /\ MayFail(acts)
  /\ Leave \/ UNCHANGED <<current, open, fault>>
  /\ acts' = Below
  /\ error' = TRUE
  /\ raised' = TRUE
  /\ UNCHANGED <<throwing, told>>

Caller(via) == [acts EXCEPT ![Len(acts)].calls = via]

CallsScript(via) ==
  /\ Running /\ Nests(1)
  /\ \/ Enter(Caller(via), current, FALSE) /\ UNCHANGED <<error, raised>>
     \/ /\ MayFail(Caller(via))
        /\ EnterFails(Caller(via), current)
        /\ error' = TRUE
        /\ raised' = TRUE
  /\ UNCHANGED <<throwing, told>>

CallsNative(via) ==
  /\ Running /\ Nests(1)
  /\ acts' = Caller(via) \o <<Native(via)>>
  /\ UNCHANGED <<current, open, error, throwing, raised, told, fault>>

CallsEval ==
  /\ Running /\ Nests(2)
  /\ LET into == Caller("call") \o <<Eval(current)>>
     IN \/ Enter(into, current, FALSE) /\ UNCHANGED <<error, raised>>
        \/ /\ MayFail(into)
           /\ EnterFails(into, current)
           /\ error' = TRUE
           /\ raised' = TRUE
  /\ UNCHANGED <<throwing, told>>

(* What was called is done.  vm_call and the metamethods look at vm_error, *)
(* vm_store does not.                                                      *)
HeedsCalls(via) == via = "call"   \* mutant: nor do the metamethods
Heeds(via) == via # "setter"

Resumes ==
  /\ TopIs("script") /\ ~Running
  /\ IF error /\ Heeds(Top.calls)
     THEN /\ acts' = Below
          /\ \/ UNCHANGED <<current, open, fault>>
             \/ Top.calls = "operator" /\ Leave
     ELSE acts' = Caller("none") /\ UNCHANGED <<current, open, fault>>
  /\ UNCHANGED <<error, throwing, raised, told>>
-----------------------------------------------------------------------------
(* Native functions.                                                       *)

NativeCalls ==
  /\ TopIs("native") /\ MayCall(Top) /\ Nests(2)
  /\ ExecuteFunction(acts)

(* It returns, having called vm_set_error or not.                          *)
NativeReturns ==
  /\ TopIs("native")
  /\ acts' = Below
  /\ \/ UNCHANGED <<error, raised>>
     \/ MayFail(acts) /\ error' = TRUE /\ raised' = TRUE
  /\ UNCHANGED <<current, open, throwing, told, fault>>

(* An exception leaves a native: vm_call turns it into an error.           *)
LeavesNativeUnseen(via) ==   \* mutant: the handler forgets to set vm_error
  /\ acts' = Below
  /\ throwing' = (via # "call")
  /\ raised' = TRUE
  /\ UNCHANGED error

LeavesNative(via) ==
  /\ acts' = Below
  /\ throwing' = (via # "call")
  /\ raised' = TRUE
  /\ error' = (error \/ via = "call")

NativeThrows ==
  /\ TopIs("native") /\ MayThrow(Top)
  /\ LeavesNative(Top.via)
  /\ UNCHANGED <<current, open, told, fault>>

EvalEnds ==
  /\ TopIs("eval")
  /\ Unwind(Top.saved)
  /\ acts' = Below
  /\ UNCHANGED <<error, throwing, raised, told, fault>>
-----------------------------------------------------------------------------
(* An exception passes an activation.                                      *)

PassesScript ==
  /\ throwing /\ Top.kind \in {"script", "execute"}
  /\ acts' = Below
  /\ throwing' = (Below # <<>>)
  /\ Ends("error")
  /\ UNCHANGED <<current, open, error, raised, fault>>

PassesNative ==
  /\ throwing /\ Top.kind \in {"native", "eval"}
  /\ LeavesNative(IF Top.kind = "native" THEN Top.via ELSE "call")
  /\ UNCHANGED <<current, open, told, fault>>

(* A native catches what its callback threw.                               *)
Catches ==
  /\ throwing /\ Top.kind = "native" /\ MayCatch
  /\ acts' = [acts EXCEPT ![Len(acts)].failed = TRUE]
  /\ throwing' = FALSE
  /\ UNCHANGED <<current, open, error, raised, told, fault>>
-----------------------------------------------------------------------------
ScriptRuns == \/ PushScope \/ PopScope \/ Returns \/ Fails \/ CallsEval
              \/ \E via \in Via : CallsScript(via) \/ CallsNative(via)

(* What the virtual machine and the natives do once a call is over.        *)
Unwinds == \/ ExecuteEnds \/ Resumes \/ EvalEnds \/ PassesScript
           \/ PassesNative \/ Catches

NativeEnds == NativeReturns \/ NativeThrows

Next == \/ HostCalls \/ HostRuns
        \/ ScriptRuns
        \/ NativeCalls \/ NativeEnds
        \/ Unwinds

Spec == Init /\ [][Next]_vars

(* The C++ program goes on, and natives return; scripts may run forever.   *)
FairSpec == Spec /\ WF_vars(Unwinds) /\ WF_vars(NativeEnds)
-----------------------------------------------------------------------------
(* Every variable has its type, and the slots in use exist: vm_execute_    *)
(* script_function refuses the call before vm_scope_function runs out.     *)
Activation ==
  [kind : {"execute"}, first : BOOLEAN]
  \cup [kind : {"script"}, slot : Slot, own : 0 .. MaxBlocks, calls : Via \cup {"none"}]
  \cup [kind : {"native"}, via : Via, failed : BOOLEAN]
  \cup [kind : {"eval"}, saved : 0 .. MaxCalls]

(* Types of the slots, the frames of the C++ stack and the error.          *)
TypeOK == /\ current \in 0 .. MaxCalls
          /\ open \in [Slot -> 0 .. MaxBlocks]
          /\ error \in BOOLEAN /\ throwing \in BOOLEAN
          /\ raised \in BOOLEAN /\ fault \in BOOLEAN
          /\ acts \in Seq(Activation)
          /\ told \in {"nothing", "value", "error", "internal error"}

(* Between calls of the host no slot is taken and no block is open,        *)
(* whatever failed in the last one: the next call finds the virtual        *)
(* machine as new (vm_execute, vm_do_stack_dump).                          *)
IdleIsClean == acts = <<>> => current = 0 /\ \A s \in Slot : open[s] = 0

(* Until something fails, the script functions on the C++ stack own the    *)
(* slots, in their order, up to the current one, and the blocks open in a  *)
(* slot are the ones its function opened: none pops the blocks of another. *)
Scripts == {i \in DOMAIN acts : acts[i].kind = "script"}
Lowest == IF acts[1].first THEN 1 ELSE 0   \* index 0 is left to main

SlotsMatchStack ==
  (~error /\ ~throwing /\ acts # <<>>) =>
    /\ Lowest <= current
    /\ {acts[i].slot : i \in Scripts} = Lowest .. current - 1
    /\ \A i, j \in Scripts : i < j => acts[i].slot < acts[j].slot
    /\ \A i \in Scripts : open[acts[i].slot] = acts[i].own
    /\ \A s \in Slot \ (Lowest .. current - 1) : open[s] = 0

(* A call of the host ends with an exception exactly if something failed   *)
(* in it, even if a native function caught what its callback threw.        *)
HostIsTold == acts = <<>> => (raised <=> told \in {"error", "internal error"})

(* Once there is an error no script function executes an instruction.      *)
StopsAtError == error => ~Running

(* An error stops every script function and is told to the host.           *)
ErrorsHeard == StopsAtError /\ HostIsTold

(* No step touches a slot before the first or pops a block that is not     *)
(* there.                                                                  *)
NoFault == ~fault

(* The slots are those of the script functions on the C++ stack, none when *)
(* there are none, and every step finds the slots and blocks it works on.  *)
FramesMatch == TypeOK /\ NoFault /\ SlotsMatchStack /\ IdleIsClean

(* After an error nothing in the scripts keeps the host waiting.           *)
ErrorEnds == (error /\ acts # <<>>) ~> (acts = <<>>)
=============================================================================
