-------------------------- MODULE CallFramesProofs --------------------------
(***************************************************************************)
(* Proofs about CallFrames, for any call limit, number of blocks and depth *)
(* of the C++ stack.  Types need no hypothesis; the other theorems hold of *)
(* programs that keep all four rules.                                      *)
(***************************************************************************)
EXTENDS CallFrames, TLAPS

KeepsRules == {"setter", "operator", "throw", "retry"} \subseteq Rules
-----------------------------------------------------------------------------
(* The C++ stack by itself: what can stand on what.  A script function     *)
(* that runs is the innermost activation; slots grow with the stack; eval  *)
(* remembers the slot behind its caller's.                                 *)

IsScript(st, i) == st[i].kind = "script"

OnBottom(st, i) == i = 1 => st[i].kind = "execute"

OnTop(st, i) ==
  i # 1 =>
    /\ st[i].kind = "execute" => st[i - 1].kind = "native" /\ ~st[i].first
    /\ st[i].kind # "execute" => st[i - 1].kind # "native"
    /\ IsScript(st, i - 1) => st[i - 1].calls # "none"
    /\ st[i].kind = "native" => IsScript(st, i - 1) /\ st[i - 1].calls = st[i].via
    /\ st[i].kind = "eval" =>
         /\ IsScript(st, i - 1) /\ st[i - 1].calls = "call"
         /\ st[i].saved = st[i - 1].slot + 1

Stacked(st) == \A i \in 1 .. Len(st) : OnBottom(st, i) /\ OnTop(st, i)

Increasing(st) ==
  \A i, j \in 1 .. Len(st) :
    i < j /\ IsScript(st, i) /\ IsScript(st, j) => st[i].slot < st[j].slot

Frames(st) == Stacked(st) /\ Increasing(st)
-----------------------------------------------------------------------------
(* What the rules leave on the stack after an error.                       *)

NoSetter(st) == \A i \in 1 .. Len(st) : ~Waits(st, i, "setter")

(* No operator waits for a function whose native would handle an exception. *)
NoHandler(st) ==
  ~\E i, j, k \in 1 .. Len(st) :
      /\ i < j /\ Waits(st, i, "operator")
      /\ j < k /\ Waits(st, j, "call")
      /\ st[k].kind = "execute"

NoCallAbove(st) ==
  ~\E i, j \in 1 .. Len(st) :
      i < j /\ Waits(st, i, "operator") /\ Waits(st, j, "call")

(* A script function that waits for an operator, and will leave its slot,  *)
(* still has it.                                                           *)
HasSlot(st, at) ==
  \A i \in 1 .. Len(st) :
    /\ Waits(st, i, "operator")
    /\ \A k \in 1 .. Len(st) : i < k => st[k].kind # "execute"
    => st[i].slot < at

AfterError ==
  error /\ acts # <<>> =>
    /\ NoSetter(acts)
    /\ ~throwing => NoHandler(acts) /\ HasSlot(acts, current)
    /\ TopIs("native") => Top.failed
    /\ ~Running

Thrown == throwing => acts # <<>> /\ error /\ current = 0 /\ NoCallAbove(acts)

AboveClosed == \A s \in Slot : s >= current => open[s] = 0

Answered ==
  IF acts = <<>> THEN raised <=> told \in {"error", "internal error"}
                 ELSE raised <=> error

IInv == /\ TypeOK
        /\ Frames(acts)
        /\ NoFault
        /\ SlotsMatchStack
        /\ AboveClosed
        /\ acts = <<>> => current = 0
        /\ AfterError
        /\ Thrown
        /\ Answered
-----------------------------------------------------------------------------
(* Sequences: the innermost activation is taken off, put on, or waits.     *)

LEMMA PopSeq ==
  ASSUME NEW T, NEW st \in Seq(T), st # <<>>
  PROVE  /\ SubSeq(st, 1, Len(st) - 1) \in Seq(T)
         /\ Len(SubSeq(st, 1, Len(st) - 1)) = Len(st) - 1
         /\ \A i \in 1 .. Len(st) - 1 : SubSeq(st, 1, Len(st) - 1)[i] = st[i]
OBVIOUS

LEMMA PushSeq ==
  ASSUME NEW T, NEW st \in Seq(T), NEW x \in T
  PROVE  /\ st \o <<x>> \in Seq(T)
         /\ Len(st \o <<x>>) = Len(st) + 1
         /\ \A i \in 1 .. Len(st) : (st \o <<x>>)[i] = st[i]
         /\ (st \o <<x>>)[Len(st) + 1] = x
OBVIOUS

LEMMA CallerSeq ==
  ASSUME acts \in Seq(Activation), acts # <<>>, Top.kind = "script",
         NEW via \in Via \cup {"none"}
  PROVE  /\ Caller(via) \in Seq(Activation)
         /\ Len(Caller(via)) = Len(acts)
         /\ \A i \in 1 .. Len(acts) - 1 : Caller(via)[i] = acts[i]
         /\ Caller(via)[Len(acts)] = [Top EXCEPT !.calls = via]
         /\ [Top EXCEPT !.calls = via] \in Activation
<1>1. Len(acts) \in 1 .. Len(acts) /\ Top \in Activation BY DEF Top
<1>2. [Top EXCEPT !.calls = via] \in Activation BY <1>1 DEF Activation
<1>3. Caller(via) = [acts EXCEPT ![Len(acts)] = [Top EXCEPT !.calls = via]]
  BY DEF Caller, Top
<1> QED BY <1>1, <1>2, <1>3
-----------------------------------------------------------------------------
(* Types.                                                                  *)

LEMMA InitTypes == Init => TypeOK
BY MaxCallsAssumption, MaxBlocksAssumption DEF Init, TypeOK, Slot

LEMMA SlotTypes ==
  ASSUME TypeOK
  PROVE  /\ current \in 0 .. MaxCalls
         /\ open \in [Slot -> 0 .. MaxBlocks]
         /\ 0 \in 0 .. MaxBlocks /\ 1 \in 0 .. MaxBlocks
<1>1. current \in 0 .. MaxCalls BY DEF TypeOK
<1>2. open \in [Slot -> 0 .. MaxBlocks] BY DEF TypeOK
<1> QED BY <1>1, <1>2, MaxBlocksAssumption

LEMMA LeaveTypes ==
  ASSUME TypeOK, Leave
  PROVE  /\ current' \in 0 .. MaxCalls /\ fault' \in BOOLEAN
         /\ open' \in [Slot -> 0 .. MaxBlocks]
<1>1. current' \in 0 .. MaxCalls BY SlotTypes, MaxCallsAssumption DEF Leave
<1>2. fault' \in BOOLEAN BY DEF Leave
<1>3. open' \in [Slot -> 0 .. MaxBlocks] BY SlotTypes DEF Leave
<1> QED BY <1>1, <1>2, <1>3

LEMMA UnwindTypes ==
  ASSUME TypeOK, NEW n \in 0 .. MaxCalls, Unwind(n)
  PROVE  current' \in 0 .. MaxCalls /\ open' \in [Slot -> 0 .. MaxBlocks]
<1>1. current' \in 0 .. MaxCalls BY SlotTypes DEF Unwind
<1>2. open' \in [Slot -> 0 .. MaxBlocks] BY SlotTypes DEF Unwind
<1> QED BY <1>1, <1>2

LEMMA EnterTypes ==
  ASSUME TypeOK, NEW below \in Seq(Activation), NEW at \in Nat, NEW main \in BOOLEAN,
         Enter(below, at, main)
  PROVE  /\ current' \in 0 .. MaxCalls /\ fault' \in BOOLEAN
         /\ open' \in [Slot -> 0 .. MaxBlocks]
         /\ acts' \in Seq(Activation)
<1>1. at \in Slot BY MaxCallsAssumption DEF Enter, TooMany, Slot
<1>2. Script(at, IF main THEN 0 ELSE 1) \in Activation
  BY <1>1, MaxBlocksAssumption DEF Script, Activation
<1>3. acts' \in Seq(Activation) BY <1>2, PushSeq DEF Enter
<1>4. current' \in 0 .. MaxCalls BY <1>1, MaxCallsAssumption DEF Enter, Slot
<1>5. fault' \in BOOLEAN BY DEF Enter, TypeOK
<1>6. open' \in [Slot -> 0 .. MaxBlocks] BY <1>1, SlotTypes DEF Enter
<1> QED BY <1>3, <1>4, <1>5, <1>6

LEMMA EnterFailsTypes ==
  ASSUME TypeOK, NEW below \in Seq(Activation), NEW at \in 0 .. MaxCalls,
         EnterFails(below, at)
  PROVE  /\ current' \in 0 .. MaxCalls /\ fault' \in BOOLEAN
         /\ open' \in [Slot -> 0 .. MaxBlocks]
         /\ acts' \in Seq(Activation)
<1>1. current' \in 0 .. MaxCalls BY MaxCallsAssumption DEF EnterFails
<1>2. fault' \in BOOLEAN BY Zenon DEF EnterFails, TypeOK
<1>3. open' \in [Slot -> 0 .. MaxBlocks] BY SlotTypes DEF EnterFails
<1>4. acts' \in Seq(Activation) BY DEF EnterFails
<1> QED BY <1>1, <1>2, <1>3, <1>4

LEMMA ExecuteTypes ==
  ASSUME TypeOK, NEW below \in Seq(Activation), ExecuteFunction(below)
  PROVE  TypeOK'
<1> DEFINE at == IF current = 0 THEN 1 ELSE current
           into == below \o <<Execute(current = 0)>>
<1>1. at \in 0 .. MaxCalls /\ at \in Nat BY SlotTypes, MaxCallsAssumption
<1>2. into \in Seq(Activation)
  <2>1. Execute(current = 0) \in Activation BY DEF Execute, Activation
  <2> QED BY <2>1, PushSeq
<1>3. /\ Enter(into, at, FALSE) \/ EnterFails(into, at)
      /\ UNCHANGED <<throwing, told>>
  BY DEF ExecuteFunction
<1>5. error' \in BOOLEAN /\ raised' \in BOOLEAN
  BY DEF ExecuteFunction, TypeOK
<1> HIDE DEF at, into
<1>4. /\ current' \in 0 .. MaxCalls /\ fault' \in BOOLEAN
      /\ open' \in [Slot -> 0 .. MaxBlocks] /\ acts' \in Seq(Activation)
  <2>1. CASE Enter(into, at, FALSE) BY <2>1, <1>1, <1>2, EnterTypes
  <2>2. CASE EnterFails(into, at) BY <2>2, <1>1, <1>2, EnterFailsTypes
  <2> QED BY <1>3, <2>1, <2>2
<1>6. throwing' \in BOOLEAN /\ told' = told BY <1>3 DEF TypeOK
<1> QED BY <1>4, <1>5, <1>6 DEF TypeOK

(* One step keeps the types. *)
LEMMA StackTypes ==
  ASSUME TypeOK, acts # <<>>
  PROVE  Below \in Seq(Activation) /\ Top \in Activation /\ Len(acts) \in 1 .. Len(acts)
<1>1. acts \in Seq(Activation) BY DEF TypeOK
<1> QED BY <1>1, PopSeq DEF Below, Top

LEMMA OwnTypes ==
  ASSUME TypeOK, acts # <<>>, Top.kind = "script", NEW n \in 0 .. MaxBlocks,
         acts' = [acts EXCEPT ![Len(acts)].own = n]
  PROVE  acts' \in Seq(Activation)
<1>1. acts \in Seq(Activation) BY DEF TypeOK
<1>2. Len(acts) \in 1 .. Len(acts) /\ Top \in Activation BY StackTypes
<1>3. [Top EXCEPT !.own = n] \in Activation BY <1>2 DEF Activation
<1>4. acts' = [acts EXCEPT ![Len(acts)] = [Top EXCEPT !.own = n]] BY DEF Top
<1> QED BY <1>1, <1>2, <1>3, <1>4

LEMMA RunningTypes ==
  ASSUME TypeOK, Running
  PROVE  Top \in [kind : {"script"}, slot : Slot, own : 0 .. MaxBlocks,
                  calls : Via \cup {"none"}]
<1>1. acts # <<>> /\ Top.kind = "script" BY DEF Running, TopIs
<1>2. Top \in Activation BY <1>1, StackTypes
<1> QED BY <1>1, <1>2 DEF Activation

LEMMA ScriptStepTypes ==
  ASSUME TypeOK, PushScope \/ PopScope \/ Returns \/ Fails
  PROVE  TypeOK'
<1>1. Running /\ acts # <<>> /\ Top.kind = "script" BY DEF PushScope, PopScope, Returns, Fails, Running, TopIs
<1>2. Top.own \in 0 .. MaxBlocks BY <1>1, RunningTypes
<1>3. Below \in Seq(Activation) BY <1>1, StackTypes
<1>4. CASE PushScope
  <2>1. acts' \in Seq(Activation)
    <3>1. Top.own + 1 \in 0 .. MaxBlocks BY <1>2, <1>4, MaxBlocksAssumption DEF PushScope
    <3>2. acts' = [acts EXCEPT ![Len(acts)].own = Top.own + 1] BY <1>4 DEF PushScope, Top
    <3> QED BY <1>1, <3>1, <3>2, OwnTypes
  <2>2. open' \in [Slot -> 0 .. MaxBlocks]
    <3>1. CASE current = 0 BY <1>4, <3>1, SlotTypes DEF PushScope
    <3>2. CASE current # 0
      <4>1. current - 1 \in Slot BY <3>2, SlotTypes, MaxCallsAssumption DEF Slot
      <4>2. open[current - 1] + 1 \in 0 .. MaxBlocks
        BY <1>4, <3>2, <4>1, SlotTypes, MaxBlocksAssumption DEF PushScope
      <4> QED BY <1>4, <3>2, <4>1, <4>2, SlotTypes DEF PushScope
    <3> QED BY <3>1, <3>2
  <2>3. fault' \in BOOLEAN BY <1>4, Zenon DEF PushScope, TypeOK
  <2>4. UNCHANGED <<current, error, throwing, raised, told>> BY <1>4 DEF PushScope
  <2> QED BY <2>1, <2>2, <2>3, <2>4 DEF TypeOK
<1>5. CASE PopScope
  <2>1. acts' \in Seq(Activation)
    <3>1. Top.own - 1 \in 0 .. MaxBlocks BY <1>2, <1>5, MaxBlocksAssumption DEF PopScope
    <3>2. acts' = [acts EXCEPT ![Len(acts)].own = Top.own - 1] BY <1>5 DEF PopScope, Top
    <3> QED BY <1>1, <3>1, <3>2, OwnTypes
  <2>2. open' \in [Slot -> 0 .. MaxBlocks]
    <3>1. CASE current = 0 \/ (current > 0 /\ open[current - 1] = 0)
      BY <1>5, <3>1, SlotTypes DEF PopScope
    <3>2. CASE ~(current = 0 \/ (current > 0 /\ open[current - 1] = 0))
      <4>1. current - 1 \in Slot BY <3>2, SlotTypes, MaxCallsAssumption DEF Slot
      <4>2. open[current - 1] - 1 \in 0 .. MaxBlocks
        BY <3>2, <4>1, SlotTypes, MaxBlocksAssumption
      <4> QED BY <1>5, <3>2, <4>1, <4>2, SlotTypes DEF PopScope
    <3> QED BY <3>1, <3>2
  <2>3. fault' \in BOOLEAN BY <1>5, Zenon DEF PopScope, TypeOK
  <2>4. UNCHANGED <<current, error, throwing, raised, told>> BY <1>5 DEF PopScope
  <2> QED BY <2>1, <2>2, <2>3, <2>4 DEF TypeOK
<1>6. CASE Returns
  <2>1. Leave /\ acts' = Below /\ UNCHANGED <<error, throwing, raised, told>>
    BY <1>6 DEF Returns
  <2> QED BY <1>3, <2>1, LeaveTypes DEF TypeOK
<1>7. CASE Fails
  <2>1. /\ Leave \/ UNCHANGED <<current, open, fault>>
        /\ acts' = Below /\ error' = TRUE /\ raised' = TRUE /\ UNCHANGED <<throwing, told>>
    BY <1>7 DEF Fails
  <2>2. CASE Leave BY <1>3, <2>1, <2>2, LeaveTypes DEF TypeOK
  <2>3. CASE UNCHANGED <<current, open, fault>> BY <1>3, <2>1, <2>3 DEF TypeOK
  <2> QED BY <2>1, <2>2, <2>3
<1> QED BY <1>4, <1>5, <1>6, <1>7

LEMMA CallStepTypes ==
  ASSUME TypeOK, CallsEval \/ \E via \in Via : CallsScript(via) \/ CallsNative(via)
  PROVE  TypeOK'
<1>1. Running /\ acts # <<>> /\ Top.kind = "script"
  BY DEF CallsEval, CallsScript, CallsNative, Running, TopIs
<1>2. acts \in Seq(Activation) BY DEF TypeOK
<1>3. \A via \in Via : Caller(via) \in Seq(Activation) BY <1>1, <1>2, CallerSeq
<1>4. ASSUME NEW into \in Seq(Activation),
             \/ Enter(into, current, FALSE) /\ UNCHANGED <<error, raised>>
             \/ EnterFails(into, current) /\ error' = TRUE /\ raised' = TRUE,
             UNCHANGED <<throwing, told>>
      PROVE  TypeOK'
  <2>1. /\ current' \in 0 .. MaxCalls /\ fault' \in BOOLEAN
        /\ open' \in [Slot -> 0 .. MaxBlocks] /\ acts' \in Seq(Activation)
    <3>1. CASE Enter(into, current, FALSE)
      <4>1. current \in Nat BY SlotTypes, MaxCallsAssumption
      <4> QED BY <3>1, <4>1, EnterTypes
    <3>2. CASE EnterFails(into, current) BY <3>2, SlotTypes, EnterFailsTypes
    <3> QED BY <1>4, <3>1, <3>2
  <2>2. error' \in BOOLEAN /\ raised' \in BOOLEAN BY <1>4 DEF TypeOK
  <2>3. throwing' \in BOOLEAN /\ told' = told BY <1>4 DEF TypeOK
  <2> QED BY <2>1, <2>2, <2>3 DEF TypeOK
<1>5. CASE CallsEval
  <2> DEFINE into == Caller("call") \o <<Eval(current)>>
  <2>1. Eval(current) \in Activation BY SlotTypes DEF Eval, Activation
  <2>2. into \in Seq(Activation) BY <1>3, <2>1, PushSeq DEF Via
  <2>3. /\ \/ Enter(into, current, FALSE) /\ UNCHANGED <<error, raised>>
           \/ EnterFails(into, current) /\ error' = TRUE /\ raised' = TRUE
        /\ UNCHANGED <<throwing, told>>
    BY <1>5 DEF CallsEval
  <2> HIDE DEF into
  <2> QED BY <1>4, <2>2, <2>3
<1>6. ASSUME NEW via \in Via, CallsScript(via) PROVE TypeOK'
  <2>1. Caller(via) \in Seq(Activation) BY <1>3
  <2>2. /\ \/ Enter(Caller(via), current, FALSE) /\ UNCHANGED <<error, raised>>
           \/ EnterFails(Caller(via), current) /\ error' = TRUE /\ raised' = TRUE
        /\ UNCHANGED <<throwing, told>>
    BY <1>6 DEF CallsScript
  <2> QED BY <1>4, <2>1, <2>2
<1>7. ASSUME NEW via \in Via, CallsNative(via) PROVE TypeOK'
  <2>1. Native(via) \in Activation BY DEF Native, Activation
  <2>2. acts' \in Seq(Activation) BY <1>3, <1>7, <2>1, PushSeq DEF CallsNative
  <2>3. UNCHANGED <<current, open, error, throwing, raised, told, fault>>
    BY <1>7 DEF CallsNative
  <2> QED BY <2>2, <2>3 DEF TypeOK
<1> QED BY <1>5, <1>6, <1>7

LEMMA EndsType == ASSUME TypeOK, NEW a \in {"error", "value"}, Ends(a)
                  PROVE told' \in {"nothing", "value", "error", "internal error"}
BY DEF TypeOK, Ends

LEMMA OverStepTypes ==
  ASSUME TypeOK, Unwinds \/ NativeEnds
  PROVE  TypeOK'
<1>1. ASSUME acts # <<>> PROVE Below \in Seq(Activation) /\ Top \in Activation
  BY <1>1, StackTypes
<1>2. CASE ExecuteEnds
  <2>1. acts' \in Seq(Activation) BY <1>1, <1>2 DEF ExecuteEnds, TopIs
  <2>2. current' \in 0 .. MaxCalls /\ open' \in [Slot -> 0 .. MaxBlocks]
    <3>1. CASE error BY <1>2, <3>1, UnwindTypes, MaxCallsAssumption DEF ExecuteEnds
    <3>2. CASE ~error BY <1>2, <3>2, SlotTypes, MaxCallsAssumption DEF ExecuteEnds
    <3> QED BY <3>1, <3>2
  <2>3. throwing' \in BOOLEAN BY <1>2, Zenon DEF ExecuteEnds, TypeOK
  <2>4. told' \in {"nothing", "value", "error", "internal error"}
    BY <1>2, EndsType DEF ExecuteEnds
  <2>5. UNCHANGED <<error, raised, fault>> BY <1>2 DEF ExecuteEnds
  <2> QED BY <2>1, <2>2, <2>3, <2>4, <2>5 DEF TypeOK
<1>3. CASE Resumes
  <2>1. acts # <<>> /\ Top.kind = "script" BY <1>3 DEF Resumes, TopIs
  <2>2. Caller("none") \in Seq(Activation) BY <2>1, CallerSeq DEF TypeOK
  <2>3. acts' \in Seq(Activation) BY <1>1, <1>3, <2>1, <2>2 DEF Resumes
  <2>4. UNCHANGED <<error, throwing, raised, told>> BY <1>3 DEF Resumes
  <2>5. Leave \/ UNCHANGED <<current, open, fault>> BY <1>3 DEF Resumes
  <2>6. CASE Leave BY <2>3, <2>4, <2>6, LeaveTypes DEF TypeOK
  <2>7. CASE UNCHANGED <<current, open, fault>> BY <2>3, <2>4, <2>7 DEF TypeOK
  <2> QED BY <2>5, <2>6, <2>7
<1>4. CASE EvalEnds
  <2>1. acts # <<>> /\ Top.kind = "eval" BY <1>4 DEF EvalEnds, TopIs
  <2>2. Top.saved \in 0 .. MaxCalls BY <1>1, <2>1 DEF Activation
  <2>3. Unwind(Top.saved) /\ acts' = Below /\ UNCHANGED <<error, throwing, raised, told, fault>>
    BY <1>4 DEF EvalEnds
  <2>4. current' \in 0 .. MaxCalls /\ open' \in [Slot -> 0 .. MaxBlocks]
    BY <2>2, <2>3, UnwindTypes
  <2> QED BY <1>1, <2>1, <2>3, <2>4 DEF TypeOK
<1>5. CASE PassesScript
  <2>1. /\ acts' = Below /\ throwing' = (Below # <<>>) /\ Ends("error")
        /\ UNCHANGED <<current, open, error, raised, fault>>
    BY <1>5 DEF PassesScript
  <2>2. Below \in Seq(Activation)
    <3>1. acts \in Seq(Activation) BY DEF TypeOK
    <3>2. CASE acts = <<>> BY <3>2 DEF Below
    <3>3. CASE acts # <<>> BY <1>1, <3>3
    <3> QED BY <3>2, <3>3
  <2>3. throwing' \in BOOLEAN BY <2>1
  <2>4. told' \in {"nothing", "value", "error", "internal error"} BY <2>1, EndsType
  <2> QED BY <2>1, <2>2, <2>3, <2>4 DEF TypeOK
<1>6. ASSUME NEW via, LeavesNative(via), UNCHANGED <<current, open, told, fault>>
      PROVE  TypeOK'
  <2>1. Below \in Seq(Activation)
    <3>1. CASE acts = <<>> BY <3>1 DEF Below
    <3>2. CASE acts # <<>> BY <1>1, <3>2
    <3> QED BY <3>1, <3>2
  <2>2. throwing' \in BOOLEAN /\ raised' \in BOOLEAN /\ error' \in BOOLEAN
    BY <1>6, Zenon DEF LeavesNative
  <2>3. acts' = Below BY <1>6 DEF LeavesNative
  <2> QED BY <1>6, <2>1, <2>2, <2>3 DEF TypeOK
<1>7. CASE PassesNative BY <1>6, <1>7 DEF PassesNative
<1>8. CASE Catches
  <2>1. acts \in Seq(Activation) BY DEF TypeOK
  <2>2. acts' \in Seq(Activation)
    <3>1. CASE acts = <<>>
      <4>1. Len(acts) \notin DOMAIN acts BY <2>1, <3>1
      <4>2. acts' = acts BY <1>8, <2>1, <4>1 DEF Catches
      <4> QED BY <2>1, <4>2
    <3>2. CASE acts # <<>>
      <4>1. Len(acts) \in 1 .. Len(acts) /\ Top \in Activation BY <3>2, StackTypes
      <4>2. [Top EXCEPT !.failed = TRUE] \in Activation
        BY <1>8, <4>1 DEF Catches, Activation
      <4>3. acts' = [acts EXCEPT ![Len(acts)] = [Top EXCEPT !.failed = TRUE]]
        BY <1>8 DEF Catches, Top
      <4> QED BY <2>1, <4>1, <4>2, <4>3
    <3> QED BY <3>1, <3>2
  <2>3. throwing' = FALSE /\ UNCHANGED <<current, open, error, raised, told, fault>>
    BY <1>8 DEF Catches
  <2> QED BY <2>2, <2>3 DEF TypeOK
<1>9. CASE NativeReturns
  <2>1. acts' \in Seq(Activation) BY <1>1, <1>9 DEF NativeReturns, TopIs
  <2>2. error' \in BOOLEAN /\ raised' \in BOOLEAN
    BY <1>9, Zenon DEF NativeReturns, TypeOK
  <2>3. UNCHANGED <<current, open, throwing, told, fault>> BY <1>9 DEF NativeReturns
  <2> QED BY <2>1, <2>2, <2>3 DEF TypeOK
<1>10. CASE NativeThrows BY <1>6, <1>10 DEF NativeThrows
<1> QED BY <1>2, <1>3, <1>4, <1>5, <1>7, <1>8, <1>9, <1>10 DEF Unwinds, NativeEnds

LEMMA HostStepTypes ==
  ASSUME TypeOK, HostCalls \/ HostRuns \/ NativeCalls
  PROVE  TypeOK'
<1>1. CASE HostCalls
  <2>1. <<>> \in Seq(Activation) OBVIOUS
  <2> QED BY <1>1, <2>1, ExecuteTypes DEF HostCalls
<1>2. CASE NativeCalls BY <1>2, ExecuteTypes DEF NativeCalls, TypeOK
<1>3. CASE HostRuns
  <2>1. CASE current = 0
    <3>1. <<Execute(FALSE)>> \in Seq(Activation) BY DEF Execute, Activation
    <3>2. /\ Enter(<<Execute(FALSE)>>, 0, TRUE)
          /\ error' = FALSE /\ raised' = FALSE /\ UNCHANGED <<told, throwing>>
      BY <1>3, <2>1 DEF HostRuns
    <3>3. /\ current' \in 0 .. MaxCalls /\ fault' \in BOOLEAN
          /\ open' \in [Slot -> 0 .. MaxBlocks] /\ acts' \in Seq(Activation)
      BY <3>1, <3>2, EnterTypes
    <3> QED BY <3>2, <3>3 DEF TypeOK
  <2>2. CASE current # 0 BY <1>3, <2>2 DEF HostRuns, TypeOK
  <2> QED BY <2>1, <2>2
<1> QED BY <1>1, <1>2, <1>3

LEMMA StepTypes == TypeOK /\ [Next]_vars => TypeOK'
<1>1. ASSUME TypeOK, UNCHANGED vars PROVE TypeOK' BY <1>1 DEF vars, TypeOK
<1> QED
  BY <1>1, ScriptStepTypes, CallStepTypes, OverStepTypes, HostStepTypes
  DEF Next, ScriptRuns

(* Slots, blocks, errors and frames keep their types in every program:     *)
(* vm_execute_script_function refuses the call before the slots run out.   *)
THEOREM TypeCorrect == Spec => []TypeOK
BY InitTypes, StepTypes, PTL DEF Spec
-----------------------------------------------------------------------------
(* SlotsMatchStack of any stack, with its slots and blocks.                *)

Low(st) == IF st[1].first THEN 1 ELSE 0

Match(st, cur, blocks) ==
  /\ Low(st) <= cur
  /\ \A i \in 1 .. Len(st) : IsScript(st, i) =>
       st[i].slot \in Low(st) .. cur - 1 /\ blocks[st[i].slot] = st[i].own
  /\ \A s \in Low(st) .. cur - 1 :
       \E i \in 1 .. Len(st) : IsScript(st, i) /\ st[i].slot = s
  /\ \A s \in Slot \ (Low(st) .. cur - 1) : blocks[s] = 0

SameMatch ==
  acts \in Seq(Activation) /\ acts # <<>> /\ Frames(acts) =>
    (SlotsMatchStack <=> (~error /\ ~throwing => Match(acts, current, open)))

LEMMA MatchAgrees == SameMatch
<1> SUFFICES ASSUME acts \in Seq(Activation), acts # <<>>, Frames(acts)
             PROVE  SlotsMatchStack <=> (~error /\ ~throwing => Match(acts, current, open))
  BY DEF SameMatch
<1>1. DOMAIN acts = 1 .. Len(acts) OBVIOUS
<1>2. Low(acts) = Lowest BY DEF Low, Lowest
<1>3. \A i, j \in Scripts : i < j => acts[i].slot < acts[j].slot
  BY <1>1 DEF Frames, Increasing, Scripts, IsScript
<1>4. {acts[i].slot : i \in Scripts} = Lowest .. current - 1
      <=> /\ \A i \in 1 .. Len(acts) : IsScript(acts, i) => acts[i].slot \in Lowest .. current - 1
          /\ \A s \in Lowest .. current - 1 :
               \E i \in 1 .. Len(acts) : IsScript(acts, i) /\ acts[i].slot = s
  BY <1>1 DEF Scripts, IsScript
<1>5. (\A i \in Scripts : open[acts[i].slot] = acts[i].own)
      <=> \A i \in 1 .. Len(acts) : IsScript(acts, i) => open[acts[i].slot] = acts[i].own
  BY <1>1 DEF Scripts, IsScript
<1> QED BY <1>2, <1>3, <1>4, <1>5 DEF SlotsMatchStack, Match

LEMMA NotBelow ==
  ASSUME NEW s \in Slot, NEW low, NEW cur \in Nat, s >= cur
  PROVE  s \in Slot \ (low .. cur - 1)
<1>1. s \in Nat /\ ~(s <= cur - 1) BY DEF Slot
<1> QED BY <1>1

LEMMA NoFrames == Frames(<<>>)
<1>1. 1 .. Len(<<>>) = {} OBVIOUS
<1> QED BY <1>1 DEF Frames, Stacked, Increasing

(* Nothing stands below the first activation. *)
LEMMA Nonempty ==
  ASSUME NEW st \in Seq(Activation), st # <<>>
  PROVE  Len(st) \in Nat /\ Len(st) >= 1 /\ 1 \in 1 .. Len(st) /\ Len(st) \in 1 .. Len(st)
OBVIOUS

(* Taking the innermost activation off keeps what holds of the stack. *)
LEMMA PopFrames ==
  ASSUME NEW st \in Seq(Activation), st # <<>>, NEW t \in Seq(Activation),
         Len(t) = Len(st) - 1, \A i \in 1 .. Len(t) : t[i] = st[i]
  PROVE  /\ Frames(st) => Frames(t)
         /\ NoSetter(st) => NoSetter(t)
         /\ NoHandler(st) => NoHandler(t)
         /\ NoCallAbove(st) => NoCallAbove(t)
<1>1. \A i \in 1 .. Len(t) : i \in 1 .. Len(st) /\ t[i] = st[i] BY Nonempty
<1>2. ASSUME Stacked(st) PROVE Stacked(t)
  <2> SUFFICES ASSUME NEW i \in 1 .. Len(t) PROVE OnBottom(t, i) /\ OnTop(t, i)
    BY DEF Stacked
  <2>1. OnBottom(st, i) /\ OnTop(st, i) BY <1>1, <1>2 DEF Stacked
  <2>2. i # 1 => i - 1 \in 1 .. Len(t) OBVIOUS
  <2> QED BY <1>1, <2>1, <2>2 DEF OnBottom, OnTop, IsScript
<1>3. Increasing(st) => Increasing(t) BY <1>1 DEF Increasing, IsScript
<1>4. NoSetter(st) => NoSetter(t) BY <1>1 DEF NoSetter, Waits
<1>5. ASSUME NoHandler(st) PROVE NoHandler(t)
  <2> SUFFICES ASSUME NEW i \in 1 .. Len(t), NEW j \in 1 .. Len(t), NEW k \in 1 .. Len(t),
                      i < j, Waits(t, i, "operator"), j < k, Waits(t, j, "call"),
                      t[k].kind = "execute"
               PROVE  FALSE
    BY DEF NoHandler
  <2>1. /\ i \in 1 .. Len(st) /\ j \in 1 .. Len(st) /\ k \in 1 .. Len(st)
        /\ Waits(st, i, "operator") /\ Waits(st, j, "call") /\ st[k].kind = "execute"
    BY <1>1 DEF Waits
  <2> QED BY <1>5, <2>1 DEF NoHandler
<1>6. NoCallAbove(st) => NoCallAbove(t) BY <1>1 DEF NoCallAbove, Waits
<1> QED BY <1>2, <1>3, <1>4, <1>5, <1>6 DEF Frames

(* A new innermost activation. *)
LEMMA PushFrames ==
  ASSUME NEW st \in Seq(Activation), st # <<>>, Frames(st), NEW x \in Activation,
         NEW t \in Seq(Activation), Len(t) = Len(st) + 1,
         \A i \in 1 .. Len(st) : t[i] = st[i], t[Len(t)] = x,
         OnTop(t, Len(t)),
         x.kind = "script" =>
           \A i \in 1 .. Len(st) : IsScript(st, i) => st[i].slot < x.slot
  PROVE  Frames(t)
<1>1. Len(st) \in Nat /\ Len(st) >= 1 BY Nonempty
<1>2. \A i \in 1 .. Len(t) : i \in 1 .. Len(st) \/ i = Len(t) BY <1>1
<1>3. Stacked(t)
  <2> SUFFICES ASSUME NEW i \in 1 .. Len(t) PROVE OnBottom(t, i) /\ OnTop(t, i)
    BY DEF Stacked
  <2>1. CASE i = Len(t)
    <3>1. i # 1 BY <1>1, <2>1
    <3> QED BY <2>1, <3>1 DEF OnBottom
  <2>2. CASE i \in 1 .. Len(st)
    <3>1. OnBottom(st, i) /\ OnTop(st, i) BY <2>2 DEF Frames, Stacked
    <3>2. i # 1 => i - 1 \in 1 .. Len(st) BY <1>1, <2>2
    <3> QED BY <2>2, <3>1, <3>2 DEF OnBottom, OnTop, IsScript
  <2> QED BY <1>2, <2>1, <2>2
<1>4. Increasing(t)
  <2> SUFFICES ASSUME NEW i \in 1 .. Len(t), NEW j \in 1 .. Len(t),
                      i < j, IsScript(t, i), IsScript(t, j)
               PROVE  t[i].slot < t[j].slot
    BY DEF Increasing
  <2>1. i \in 1 .. Len(st) BY <1>1
  <2>2. CASE j \in 1 .. Len(st) BY <2>1, <2>2 DEF Frames, Increasing, IsScript
  <2>3. CASE j = Len(t) BY <2>1, <2>3 DEF IsScript
  <2> QED BY <1>2, <2>2, <2>3
<1> QED BY <1>3, <1>4 DEF Frames

(* The innermost activation changes, but neither its kind nor its place. *)
Retouched(st, t) ==
  /\ Len(t) = Len(st)
  /\ \A i \in 1 .. Len(st) - 1 : t[i] = st[i]
  /\ t[Len(st)].kind = st[Len(st)].kind
  /\ st[Len(st)].kind \in {"script", "native"}
  /\ st[Len(st)].kind = "script" => t[Len(st)].slot = st[Len(st)].slot
  /\ st[Len(st)].kind = "native" => t[Len(st)].via = st[Len(st)].via

LEMMA RetouchFrames ==
  ASSUME NEW st \in Seq(Activation), st # <<>>, Frames(st),
         NEW t \in Seq(Activation), Retouched(st, t)
  PROVE  Frames(t) /\ Len(st) >= 2 /\ t[1] = st[1]
<1>1. Len(st) \in Nat /\ Len(st) >= 1 /\ Len(st) \in 1 .. Len(st) BY Nonempty
<1>2. Len(st) >= 2
  <2>1. OnBottom(st, Len(st)) BY <1>1 DEF Frames, Stacked
  <2> QED BY <1>1, <2>1 DEF OnBottom, Retouched
<1>3. \A i \in 1 .. Len(st) : IsScript(t, i) <=> IsScript(st, i)
  BY <1>1 DEF Retouched, IsScript
<1>4. \A i \in 1 .. Len(st) : IsScript(st, i) => t[i].slot = st[i].slot
  BY <1>1 DEF Retouched, IsScript
<1>5. Increasing(t)
  BY <1>3, <1>4 DEF Frames, Increasing, Retouched
<1>6. Stacked(t)
  <2> SUFFICES ASSUME NEW i \in 1 .. Len(st) PROVE OnBottom(t, i) /\ OnTop(t, i)
    BY DEF Stacked, Retouched
  <2>1. OnBottom(st, i) /\ OnTop(st, i) BY DEF Frames, Stacked
  <2>2. i # 1 => i - 1 \in 1 .. Len(st) - 1 /\ t[i - 1] = st[i - 1] BY <1>1 DEF Retouched
  <2>3. CASE i = Len(st) BY <1>2, <2>1, <2>2, <2>3 DEF OnBottom, OnTop, IsScript, Retouched
  <2>4. CASE i # Len(st)
    <3>1. t[i] = st[i] BY <1>1, <2>4 DEF Retouched
    <3> QED BY <2>1, <2>2, <3>1 DEF OnBottom, OnTop, IsScript
  <2> QED BY <2>3, <2>4
<1> QED BY <1>1, <1>2, <1>5, <1>6 DEF Frames, Retouched

(* A script function at the innermost place has the last slot. *)
LEMMA TopSlot ==
  ASSUME NEW st \in Seq(Activation), st # <<>>, Frames(st),
         NEW cur \in Nat, NEW blocks, Match(st, cur, blocks),
         st[Len(st)].kind = "script"
  PROVE  /\ st[Len(st)].slot = cur - 1 /\ cur > 0 /\ cur > Low(st)
         /\ st[Len(st)].slot \in Slot
         /\ blocks[cur - 1] = st[Len(st)].own
         /\ \A i \in 1 .. Len(st) - 1 : IsScript(st, i) => st[i].slot < cur - 1
<1> DEFINE n == Len(st)
<1>1. n \in Nat /\ n >= 1 /\ n \in 1 .. n BY Nonempty
<1>2. IsScript(st, n) BY DEF IsScript
<1>3. Low(st) \in {0, 1} BY DEF Low
<1>4. st[n].slot \in Low(st) .. cur - 1 /\ blocks[st[n].slot] = st[n].own
  BY <1>1, <1>2 DEF Match
<1>5. cur > Low(st) /\ cur > 0 /\ cur - 1 \in Low(st) .. cur - 1 BY <1>3, <1>4
<1>6. PICK i \in 1 .. n : IsScript(st, i) /\ st[i].slot = cur - 1 BY <1>5 DEF Match
<1>7. i < n => st[i].slot < st[n].slot BY <1>1, <1>2, <1>6 DEF Frames, Increasing
<1>8. st[n].slot = cur - 1 BY <1>1, <1>3, <1>4, <1>6, <1>7
<1>9. \A k \in 1 .. n - 1 : IsScript(st, k) => st[k].slot < st[n].slot
  BY <1>1, <1>2 DEF Frames, Increasing
<1>10. st[n] \in Activation BY <1>1
<1>11. st[n].slot \in Slot BY <1>10 DEF Activation
<1> QED BY <1>4, <1>5, <1>8, <1>9, <1>11

(* The slots of the others stay when an activation that has none, or the   *)
(* innermost script function with its slot, is taken off.                  *)
LEMMA PopMatch ==
  ASSUME NEW st \in Seq(Activation), Len(st) >= 2, NEW t \in Seq(Activation),
         Len(t) = Len(st) - 1, \A i \in 1 .. Len(t) : t[i] = st[i],
         st[Len(st)].kind # "script",
         NEW cur \in Nat, NEW blocks, Match(st, cur, blocks)
  PROVE  Match(t, cur, blocks)
<1>1. Len(st) \in Nat /\ 1 \in 1 .. Len(t) OBVIOUS
<1>2. Low(t) = Low(st) BY <1>1 DEF Low
<1>3. \A i \in 1 .. Len(t) : i \in 1 .. Len(st) /\ t[i] = st[i] BY <1>1
<1>4. \A i \in 1 .. Len(st) : IsScript(st, i) => i \in 1 .. Len(t) BY <1>1 DEF IsScript
<1> QED BY <1>2, <1>3, <1>4 DEF Match, IsScript

LEMMA PopScriptMatch ==
  ASSUME NEW st \in Seq(Activation), Len(st) >= 2, Frames(st), NEW t \in Seq(Activation),
         Len(t) = Len(st) - 1, \A i \in 1 .. Len(t) : t[i] = st[i],
         st[Len(st)].kind = "script",
         NEW cur \in Nat, NEW blocks, Match(st, cur, blocks), NEW after,
         \A s \in Slot : after[s] = IF s + 1 = cur THEN 0 ELSE blocks[s]
  PROVE  Match(t, cur - 1, after)
<1>1. Len(st) \in Nat /\ 1 \in 1 .. Len(t) /\ st # <<>> OBVIOUS
<1>2. Low(t) = Low(st) /\ Low(st) \in {0, 1} BY <1>1 DEF Low
<1>3. \A i \in 1 .. Len(t) : i \in 1 .. Len(st) - 1 /\ i \in 1 .. Len(st) /\ t[i] = st[i] BY <1>1
<1>4. /\ st[Len(st)].slot = cur - 1 /\ cur > Low(st)
      /\ \A i \in 1 .. Len(st) - 1 : IsScript(st, i) => st[i].slot < cur - 1
  BY <1>1, TopSlot
<1>5. Low(t) <= cur - 1 BY <1>2, <1>4
<1>6. ASSUME NEW i \in 1 .. Len(t), IsScript(t, i)
      PROVE  t[i].slot \in Low(t) .. cur - 1 - 1 /\ after[t[i].slot] = t[i].own
  <2>1. /\ IsScript(st, i) /\ st[i].slot < cur - 1
        /\ st[i].slot \in Low(st) .. cur - 1 /\ blocks[st[i].slot] = st[i].own
    BY <1>3, <1>4, <1>6 DEF Match, IsScript
  <2>2. st[i] \in Activation BY <1>3
  <2>3. st[i].slot \in Slot /\ st[i].slot \in Nat BY <2>1, <2>2 DEF Activation, IsScript, Slot
  <2>4. st[i].slot + 1 # cur BY <2>1, <2>3
  <2> QED BY <1>2, <1>3, <2>1, <2>3, <2>4
<1>7. ASSUME NEW s \in Low(t) .. cur - 1 - 1
      PROVE  \E i \in 1 .. Len(t) : IsScript(t, i) /\ t[i].slot = s
  <2>1. s \in Low(st) .. cur - 1 BY <1>2
  <2>2. PICK i \in 1 .. Len(st) : IsScript(st, i) /\ st[i].slot = s BY <2>1 DEF Match
  <2>3. i # Len(st) BY <1>2, <1>4, <2>2
  <2>4. i \in 1 .. Len(t) BY <1>1, <2>3
  <2> QED BY <1>3, <2>2, <2>4 DEF IsScript
<1>8. ASSUME NEW s \in Slot \ (Low(t) .. cur - 1 - 1) PROVE after[s] = 0
  <2>1. s \in Nat BY DEF Slot
  <2>2. CASE s + 1 = cur BY <2>2
  <2>3. CASE s + 1 # cur
    <3>1. s \in Slot \ (Low(st) .. cur - 1) BY <1>2, <1>8, <2>1, <2>3
    <3>2. blocks[s] = 0 BY <3>1 DEF Match
    <3> QED BY <2>3, <3>2
  <2> QED BY <2>2, <2>3
<1> QED BY <1>5, <1>6, <1>7, <1>8 DEF Match

LEMMA PushMatch ==
  ASSUME NEW st \in Seq(Activation), st # <<>>, NEW t \in Seq(Activation),
         Len(t) = Len(st) + 1, \A i \in 1 .. Len(st) : t[i] = st[i],
         t[Len(t)].kind # "script",
         NEW cur \in Nat, NEW blocks, Match(st, cur, blocks)
  PROVE  Match(t, cur, blocks)
<1>1. Len(st) \in Nat /\ 1 \in 1 .. Len(st) BY Nonempty
<1>2. Low(t) = Low(st) BY <1>1 DEF Low
<1>3. \A i \in 1 .. Len(st) : i \in 1 .. Len(t) /\ t[i] = st[i] BY <1>1
<1>4. \A i \in 1 .. Len(t) : IsScript(t, i) => i \in 1 .. Len(st) BY <1>1 DEF IsScript
<1> QED BY <1>2, <1>3, <1>4 DEF Match, IsScript

LEMMA PushScriptMatch ==
  ASSUME NEW st \in Seq(Activation), st # <<>>, NEW t \in Seq(Activation),
         Len(t) = Len(st) + 1, \A i \in 1 .. Len(st) : t[i] = st[i],
         NEW cur \in Slot, NEW own, t[Len(t)] = Script(cur, own),
         NEW blocks \in [Slot -> 0 .. MaxBlocks], Match(st, cur, blocks),
         NEW after, after = [blocks EXCEPT ![cur] = own]
  PROVE  Match(t, cur + 1, after)
<1>1. Len(st) \in Nat /\ 1 \in 1 .. Len(st) /\ cur \in Nat BY Nonempty DEF Slot
<1>2. Low(t) = Low(st) /\ Low(st) \in {0, 1} BY <1>1 DEF Low
<1>3. t[Len(t)].kind = "script" /\ t[Len(t)].slot = cur /\ t[Len(t)].own = own
  BY DEF Script
<1>4. after[cur] = own /\ \A s \in Slot : s # cur => after[s] = blocks[s] OBVIOUS
<1>5. Low(t) <= cur + 1 BY <1>1, <1>2
<1>6. ASSUME NEW i \in 1 .. Len(t), IsScript(t, i)
      PROVE  t[i].slot \in Low(t) .. (cur + 1) - 1 /\ after[t[i].slot] = t[i].own
  <2>0. Low(t) <= cur BY <1>2 DEF Match
  <2>1. CASE i = Len(t) BY <1>1, <1>2, <1>3, <1>4, <2>0, <2>1
  <2>2. CASE i # Len(t)
    <3>1. i \in 1 .. Len(st) /\ t[i] = st[i] BY <1>1, <2>2
    <3>2. IsScript(st, i) BY <1>6, <3>1 DEF IsScript
    <3>3. st[i].slot \in Low(st) .. cur - 1 /\ blocks[st[i].slot] = st[i].own
      BY <3>1, <3>2 DEF Match
    <3>4. st[i] \in Activation BY <3>1
    <3>5. st[i].slot \in Slot /\ st[i].slot # cur BY <1>1, <1>2, <3>2, <3>3, <3>4 DEF Activation, IsScript
    <3> QED BY <1>1, <1>2, <1>4, <3>1, <3>3, <3>5
  <2> QED BY <2>1, <2>2
<1>7. ASSUME NEW s \in Low(t) .. (cur + 1) - 1
      PROVE  \E i \in 1 .. Len(t) : IsScript(t, i) /\ t[i].slot = s
  <2>1. CASE s = cur
    <3>1. Len(t) \in 1 .. Len(t) BY <1>1
    <3> QED BY <1>3, <2>1, <3>1 DEF IsScript
  <2>2. CASE s # cur
    <3>1. s \in Low(st) .. cur - 1 BY <1>1, <1>2, <2>2
    <3>2. PICK i \in 1 .. Len(st) : IsScript(st, i) /\ st[i].slot = s BY <3>1 DEF Match
    <3>3. i \in 1 .. Len(t) /\ t[i] = st[i] BY <1>1
    <3> QED BY <3>2, <3>3 DEF IsScript
  <2> QED BY <2>1, <2>2
<1>8. ASSUME NEW s \in Slot \ (Low(t) .. (cur + 1) - 1) PROVE after[s] = 0
  <2>1. s \in Slot \ (Low(st) .. cur - 1) /\ s # cur
    <3>1. Low(st) <= cur BY DEF Match
    <3> QED BY <1>1, <1>2, <3>1
  <2>2. blocks[s] = 0 BY <2>1 DEF Match
  <2> QED BY <1>4, <2>1, <2>2
<1> QED BY <1>5, <1>6, <1>7, <1>8 DEF Match

(* The innermost script function opens or closes a block, or waits. *)
LEMMA RetouchMatch ==
  ASSUME NEW st \in Seq(Activation), st # <<>>, Frames(st),
         NEW t \in Seq(Activation), Retouched(st, t),
         NEW cur \in Nat, NEW blocks, Match(st, cur, blocks), NEW after,
         \A s \in Slot : s + 1 # cur => after[s] = blocks[s],
         st[Len(st)].kind = "script" =>
           after[st[Len(st)].slot] = t[Len(st)].own,
         st[Len(st)].kind # "script" => after = blocks
  PROVE  Match(t, cur, after)
<1> DEFINE n == Len(st)
<1>1. n \in Nat /\ n >= 2 /\ n \in 1 .. n BY Nonempty, RetouchFrames
<1>2. Low(t) = Low(st) /\ Low(st) \in {0, 1} BY RetouchFrames DEF Low
<1>3. \A i \in 1 .. n : IsScript(t, i) <=> IsScript(st, i)
  BY <1>1 DEF Retouched, IsScript
<1>4. \A i \in 1 .. n : IsScript(st, i) => t[i].slot = st[i].slot
  BY <1>1 DEF Retouched, IsScript
<1>5. Len(t) = n BY DEF Retouched
<1>6. \A i \in 1 .. n : IsScript(st, i) => st[i].slot \in Low(st) .. cur - 1 BY DEF Match
<1>7. \A i \in 1 .. n : IsScript(st, i) => after[t[i].slot] = t[i].own
  <2> SUFFICES ASSUME NEW i \in 1 .. n, IsScript(st, i) PROVE after[t[i].slot] = t[i].own
    OBVIOUS
  <2>1. CASE i = n BY <1>4, <2>1 DEF IsScript
  <2>2. CASE i # n
    <3>1. i \in 1 .. n - 1 /\ t[i] = st[i] BY <1>1, <2>2 DEF Retouched
    <3>2. blocks[st[i].slot] = st[i].own BY DEF Match
    <3>3. CASE st[n].kind = "script"
      <4>1. st[i].slot < cur - 1 BY <3>1, <3>3, TopSlot
      <4>2. st[i] \in Activation OBVIOUS
      <4>3. st[i].slot \in Slot /\ st[i].slot + 1 # cur
        BY <4>1, <4>2 DEF Activation, IsScript, Slot
      <4> QED BY <3>1, <3>2, <4>3
    <3>4. CASE st[n].kind # "script" BY <3>1, <3>2, <3>4
    <3> QED BY <3>3, <3>4
  <2> QED BY <2>1, <2>2
<1>8. \A s \in Low(st) .. cur - 1 : \E i \in 1 .. n : IsScript(t, i) /\ t[i].slot = s
  BY <1>3, <1>4 DEF Match
<1>9. \A s \in Slot \ (Low(st) .. cur - 1) : after[s] = 0
  <2> SUFFICES ASSUME NEW s \in Slot \ (Low(st) .. cur - 1) PROVE after[s] = 0
    OBVIOUS
  <2>1. blocks[s] = 0 BY DEF Match
  <2>2. CASE st[n].kind = "script"
    <3>1. cur > Low(st) /\ cur > 0 BY <2>2, TopSlot
    <3>2. s + 1 # cur BY <1>2, <3>1 DEF Slot
    <3> QED BY <2>1, <3>2
  <2>3. CASE st[n].kind # "script" BY <2>1, <2>3
  <2> QED BY <2>2, <2>3
<1>10. Low(t) <= cur BY <1>2 DEF Match
<1> QED BY <1>2, <1>3, <1>4, <1>5, <1>6, <1>7, <1>8, <1>9, <1>10 DEF Match
-----------------------------------------------------------------------------
(* The invariant after a step: nothing has failed, something has failed and *)
(* the natives and scripts return, or an exception is on its way.          *)

LEMMA InvRunning ==
  ASSUME TypeOK', acts' # <<>>, Frames(acts'), fault' = FALSE, error' = FALSE, throwing' = FALSE, raised' = FALSE,
         Match(acts', current', open')
  PROVE  IInv'
<1>1. SameMatch' BY MatchAgrees, PTL
<1>2. acts' \in Seq(Activation) /\ current' \in Nat
  <2>1. acts' \in Seq(Activation) /\ current' \in 0 .. MaxCalls BY DEF TypeOK
  <2> QED BY <2>1, MaxCallsAssumption
<1>3. SlotsMatchStack' BY <1>1, <1>2 DEF SameMatch
<1>4. AboveClosed'
  <2> SUFFICES ASSUME NEW s \in Slot, s >= current' PROVE open'[s] = 0
    BY DEF AboveClosed
  <2>1. s \in Slot \ (Low(acts') .. current' - 1) BY <1>2, NotBelow
  <2> QED BY <2>1 DEF Match
<1> QED BY <1>3, <1>4 DEF IInv, NoFault, AfterError, Thrown, Answered

LEMMA InvFailed ==
  ASSUME TypeOK', acts' # <<>>, Frames(acts'), fault' = FALSE, error' = TRUE, throwing' = FALSE, raised' = TRUE,
         AboveClosed', NoSetter(acts'), NoHandler(acts'), HasSlot(acts', current'),
         acts'[Len(acts')].kind = "native" => acts'[Len(acts')].failed,
         acts'[Len(acts')].kind = "script" => acts'[Len(acts')].calls # "none"
  PROVE  IInv'
<1>1. SlotsMatchStack' BY DEF SlotsMatchStack
<1>2. AfterError' BY DEF AfterError, Running, TopIs, Top
<1> QED BY <1>1, <1>2 DEF IInv, NoFault, Thrown, Answered

LEMMA InvThrowing ==
  ASSUME TypeOK', acts' # <<>>, Frames(acts'), fault' = FALSE, error' = TRUE, throwing' = TRUE, raised' = TRUE,
         AboveClosed', current' = 0, NoSetter(acts'), NoCallAbove(acts')
  PROVE  IInv'
<1>1. SlotsMatchStack' BY DEF SlotsMatchStack
<1>2. AfterError' BY DEF AfterError, Running, TopIs
<1> QED BY <1>1, <1>2 DEF IInv, NoFault, Thrown, Answered

LEMMA InvIdle ==
  ASSUME TypeOK', acts' = <<>>, fault' = FALSE, throwing' = FALSE, AboveClosed', current' = 0,
         raised' <=> told' \in {"error", "internal error"}
  PROVE  IInv'
<1>1. SlotsMatchStack' BY DEF SlotsMatchStack
<1>2. AfterError' BY DEF AfterError
<1>3. Frames(acts') BY NoFrames
<1> QED BY <1>1, <1>2, <1>3 DEF IInv, NoFault, Thrown, Answered

(* What the invariant says at any time, and while something runs. *)
LEMMA Always ==
  ASSUME IInv
  PROVE  /\ TypeOK /\ fault = FALSE /\ AboveClosed /\ current \in Nat
         /\ error \in BOOLEAN /\ throwing \in BOOLEAN /\ raised \in BOOLEAN
<1>1. TypeOK /\ ~fault /\ AboveClosed BY DEF IInv, NoFault
<1>2. fault = FALSE /\ error \in BOOLEAN /\ throwing \in BOOLEAN /\ raised \in BOOLEAN
  BY <1>1 DEF TypeOK
<1>3. current \in Nat BY <1>1, SlotTypes, MaxCallsAssumption
<1> QED BY <1>1, <1>2, <1>3

LEMMA Stack ==
  ASSUME IInv, acts # <<>>
  PROVE  /\ acts \in Seq(Activation) /\ Frames(acts)
         /\ Len(acts) \in Nat /\ Len(acts) >= 1 /\ Len(acts) \in 1 .. Len(acts)
         /\ Top \in Activation /\ Top = acts[Len(acts)]
         /\ Below \in Seq(Activation) /\ Len(Below) = Len(acts) - 1
         /\ \A i \in 1 .. Len(Below) : Below[i] = acts[i]
         /\ OnBottom(acts, Len(acts)) /\ OnTop(acts, Len(acts))
         /\ current \in Nat /\ current \in 0 .. MaxCalls /\ open \in [Slot -> 0 .. MaxBlocks]
         /\ ~fault
<1>1. acts \in Seq(Activation) /\ Frames(acts) /\ TypeOK /\ ~fault BY DEF IInv, TypeOK, NoFault
<1>2. Len(acts) \in Nat /\ Len(acts) >= 1 /\ Len(acts) \in 1 .. Len(acts) BY <1>1, Nonempty
<1>3. Top \in Activation /\ Top = acts[Len(acts)] BY <1>1, <1>2 DEF Top
<1>4. /\ Below \in Seq(Activation) /\ Len(Below) = Len(acts) - 1
      /\ \A i \in 1 .. Len(Below) : Below[i] = acts[i]
  BY <1>1, PopSeq DEF Below
<1>5. OnBottom(acts, Len(acts)) /\ OnTop(acts, Len(acts)) BY <1>1, <1>2 DEF Frames, Stacked
<1>6. current \in Nat BY <1>1, SlotTypes, MaxCallsAssumption
<1> QED BY <1>1, <1>2, <1>3, <1>4, <1>5, <1>6, SlotTypes

(* Without an error every slot in use is that of a function on the stack. *)
LEMMA Matched ==
  ASSUME IInv, acts # <<>>, ~error, ~throwing
  PROVE  Match(acts, current, open) /\ ~raised
<1>1. Match(acts, current, open) BY Stack, MatchAgrees DEF SameMatch, IInv
<1>2. ~raised BY DEF IInv, Answered
<1> QED BY <1>1, <1>2

(* A script function that runs has the current slot. *)
LEMMA RunningSlot ==
  ASSUME IInv, Running
  PROVE  /\ acts # <<>> /\ ~error /\ ~throwing /\ Len(acts) >= 2
         /\ Top.kind = "script" /\ Top.slot = current - 1
         /\ current > 0 /\ current - 1 \in Slot /\ Top.own = open[current - 1]
         /\ \A i \in 1 .. Len(acts) - 1 : IsScript(acts, i) => acts[i].slot < current - 1
<1>1. acts # <<>> /\ ~throwing /\ Top.kind = "script" BY DEF Running, TopIs
<1>2. ~error BY <1>1 DEF IInv, AfterError
<1>3. Match(acts, current, open) BY <1>1, <1>2, Matched
<1>4. Len(acts) >= 2 BY <1>1, Stack DEF OnBottom
<1> QED BY <1>1, <1>2, <1>3, <1>4, Stack, TopSlot

(* What an error leaves when an activation other than vm_execute ends. *)
LEMMA PopSlots ==
  ASSUME IInv, acts # <<>>, Top.kind # "execute", NEW at,
         \A i \in 1 .. Len(acts) - 1 :
           Waits(acts, i, "operator")
           /\ (\A k \in 1 .. Len(acts) : i < k => acts[k].kind # "execute")
           => acts[i].slot < at
  PROVE  HasSlot(Below, at)
<1> SUFFICES ASSUME NEW i \in 1 .. Len(Below), Waits(Below, i, "operator"),
                    \A k \in 1 .. Len(Below) : i < k => Below[k].kind # "execute"
             PROVE  Below[i].slot < at
  BY DEF HasSlot
<1>1. i \in 1 .. Len(acts) - 1 /\ Below[i] = acts[i] BY Stack
<1>2. Waits(acts, i, "operator") BY <1>1 DEF Waits
<1>3. \A k \in 1 .. Len(acts) : i < k => acts[k].kind # "execute"
  <2> SUFFICES ASSUME NEW k \in 1 .. Len(acts), i < k PROVE acts[k].kind # "execute"
    OBVIOUS
  <2>1. CASE k = Len(acts) BY <2>1, Stack
  <2>2. CASE k # Len(acts)
    <3>1. k \in 1 .. Len(Below) BY <2>2, Stack
    <3> QED BY <3>1, Stack
  <2> QED BY <2>1, <2>2
<1> QED BY <1>1, <1>2, <1>3

LEMMA StillHasSlot ==
  ASSUME IInv, acts # <<>>, Top.kind # "execute", HasSlot(acts, current)
  PROVE  HasSlot(Below, current)
<1>1. \A i \in 1 .. Len(acts) - 1 : i \in 1 .. Len(acts) BY Stack
<1>2. \A i \in 1 .. Len(acts) - 1 :
        Waits(acts, i, "operator")
        /\ (\A k \in 1 .. Len(acts) : i < k => acts[k].kind # "execute")
        => acts[i].slot < current
  BY <1>1 DEF HasSlot
<1> QED BY <1>2, PopSlots

(* Below an activation other than vm_execute there is a script function    *)
(* that waits, or an eval.                                                 *)
LEMMA BelowTop ==
  ASSUME IInv, acts # <<>>, Top.kind # "execute"
  PROVE  /\ Below # <<>> /\ Len(acts) >= 2 /\ Frames(Below)
         /\ Below[Len(Below)].kind # "native"
         /\ Below[Len(Below)].kind = "script" => Below[Len(Below)].calls # "none"
<1>1. Len(acts) >= 2 BY Stack DEF OnBottom
<1>2. Below # <<>> /\ Len(Below) = Len(acts) - 1 /\ Len(Below) \in 1 .. Len(Below) BY <1>1, Stack
<1>3. Below[Len(Below)] = acts[Len(acts) - 1] BY <1>2, Stack
<1>4. Frames(Below) BY Stack, PopFrames
<1> QED BY <1>1, <1>2, <1>3, <1>4, Stack DEF OnTop, IsScript
-----------------------------------------------------------------------------
(* The actions, one after the other.                                       *)

LEMMA LeaveSlot ==
  ASSUME IInv, current > 0, Leave
  PROVE  /\ fault' = FALSE /\ current' = current - 1 /\ AboveClosed'
         /\ \A s \in Slot : open'[s] = IF s + 1 = current THEN 0 ELSE open[s]
<1>1. fault = FALSE /\ AboveClosed /\ current \in Nat BY Always
<1>2. fault' = FALSE
  <2>1. current # 0 BY <1>1
  <2>2. fault' = (fault \/ current = 0) BY DEF Leave
  <2> QED BY <1>1, <2>1, <2>2, Zenon
<1>3. current' = current - 1 BY <1>1 DEF Leave
<1>4. \A s \in Slot : open'[s] = IF s + 1 = current THEN 0 ELSE open[s] BY DEF Leave
<1>5. AboveClosed'
  <2> SUFFICES ASSUME NEW s \in Slot, s >= current' PROVE open'[s] = 0
    BY DEF AboveClosed
  <2>1. s \in Nat BY DEF Slot
  <2>2. s + 1 # current => s >= current BY <1>1, <1>3, <2>1
  <2> QED BY <1>1, <1>4, <2>2 DEF AboveClosed
<1> QED BY <1>2, <1>3, <1>4, <1>5

LEMMA OwnSeq ==
  ASSUME acts \in Seq(Activation), acts # <<>>, Top.kind = "script",
         NEW n, NEW t, t = [acts EXCEPT ![Len(acts)].own = n],
         t \in Seq(Activation)
  PROVE  Retouched(acts, t) /\ t # <<>> /\ t[Len(acts)].own = n
<1>1. Len(acts) \in Nat /\ Len(acts) >= 1 /\ Len(acts) \in 1 .. Len(acts) BY Nonempty
<1>2. t = [acts EXCEPT ![Len(acts)] = [Top EXCEPT !.own = n]] BY DEF Top
<1>3. Top \in Activation /\ Top = acts[Len(acts)] BY <1>1 DEF Top
<1>4. Len(t) = Len(acts) /\ t[Len(acts)] = [Top EXCEPT !.own = n] BY <1>1, <1>2
<1>5. \A i \in 1 .. Len(acts) - 1 : t[i] = acts[i] BY <1>1, <1>2
<1>6. [Top EXCEPT !.own = n].kind = "script" /\ [Top EXCEPT !.own = n].slot = Top.slot
      /\ [Top EXCEPT !.own = n].own = n
  BY <1>3 DEF Activation
<1> QED BY <1>1, <1>3, <1>4, <1>5, <1>6 DEF Retouched

(* A function that runs opens a block, closes one, returns or fails. *)
LEMMA PushScopeStep == ASSUME IInv, TypeOK', PushScope PROVE IInv'
<1>1. Running BY DEF PushScope
<1>2. /\ acts # <<>> /\ error = FALSE /\ throwing = FALSE /\ raised = FALSE /\ fault = FALSE
      /\ Top.kind = "script" /\ Top.slot = current - 1 /\ current > 0
      /\ current - 1 \in Slot /\ Top.own = open[current - 1]
      /\ Match(acts, current, open)
  BY <1>1, RunningSlot, Matched DEF IInv, TypeOK, NoFault
<1>3. current # 0 BY <1>2
<1>4. /\ UNCHANGED <<current, error, throwing, raised, told, fault>>
      /\ open' = [open EXCEPT ![current - 1] = @ + 1]
      /\ acts' = [acts EXCEPT ![Len(acts)].own = @ + 1]
  BY <1>3 DEF PushScope
<1>5. /\ acts' \in Seq(Activation) /\ Retouched(acts, acts') /\ acts' # <<>>
      /\ acts'[Len(acts)].own = Top.own + 1
  <2>1. acts' = [acts EXCEPT ![Len(acts)].own = Top.own + 1] BY <1>4 DEF Top
  <2>2. acts' \in Seq(Activation) BY DEF TypeOK
  <2> QED BY <1>2, <2>1, <2>2, OwnSeq, Stack
<1>6. Frames(acts') BY <1>2, <1>5, RetouchFrames, Stack
<1>7. /\ open'[current - 1] = Top.own + 1
      /\ \A s \in Slot : s + 1 # current => open'[s] = open[s]
  <2>1. \A s \in Slot : s + 1 # current => s # current - 1 BY Stack, <1>2 DEF Slot
  <2> QED BY <1>2, <1>4, <2>1, Stack
<1>8. Match(acts', current, open')
  BY <1>2, <1>5, <1>7, Stack, RetouchMatch
<1> QED BY <1>2, <1>4, <1>5, <1>6, <1>8, InvRunning

LEMMA PopScopeStep == ASSUME IInv, TypeOK', PopScope PROVE IInv'
<1>1. Running BY DEF PopScope
<1>2. /\ acts # <<>> /\ error = FALSE /\ throwing = FALSE /\ raised = FALSE /\ fault = FALSE
      /\ Top.kind = "script" /\ Top.slot = current - 1 /\ current > 0
      /\ current - 1 \in Slot /\ Top.own = open[current - 1]
      /\ Match(acts, current, open)
  BY <1>1, RunningSlot, Matched DEF IInv, TypeOK, NoFault
<1>3. current # 0 /\ Top.own # 0 /\ open[current - 1] # 0
  <2>1. Top.own \in 0 .. MaxBlocks BY <1>1, RunningTypes DEF IInv
  <2>2. Top.own > 0 BY <2>1, MaxBlocksAssumption DEF PopScope
  <2> QED BY <1>2, <2>2
<1>4. /\ UNCHANGED <<current, error, throwing, raised, told, fault>>
      /\ open' = [open EXCEPT ![current - 1] = @ - 1]
      /\ acts' = [acts EXCEPT ![Len(acts)].own = @ - 1]
  BY <1>3 DEF PopScope
<1>5. /\ acts' \in Seq(Activation) /\ Retouched(acts, acts') /\ acts' # <<>>
      /\ acts'[Len(acts)].own = Top.own - 1
  <2>1. acts' = [acts EXCEPT ![Len(acts)].own = Top.own - 1] BY <1>4 DEF Top
  <2>2. acts' \in Seq(Activation) BY DEF TypeOK
  <2> QED BY <1>2, <2>1, <2>2, OwnSeq, Stack
<1>6. Frames(acts') BY <1>2, <1>5, RetouchFrames, Stack
<1>7. /\ open'[current - 1] = Top.own - 1
      /\ \A s \in Slot : s + 1 # current => open'[s] = open[s]
  <2>1. \A s \in Slot : s + 1 # current => s # current - 1 BY Stack, <1>2 DEF Slot
  <2> QED BY <1>2, <1>4, <2>1, Stack
<1>8. Match(acts', current, open')
  BY <1>2, <1>5, <1>7, Stack, RetouchMatch
<1> QED BY <1>2, <1>4, <1>5, <1>6, <1>8, InvRunning

LEMMA ReturnsStep == ASSUME IInv, TypeOK', Returns PROVE IInv'
<1>1. Running /\ Leave /\ acts' = Below /\ UNCHANGED <<error, throwing, raised, told>>
  BY DEF Returns
<1>2. /\ acts # <<>> /\ error = FALSE /\ throwing = FALSE /\ raised = FALSE
      /\ Len(acts) >= 2 /\ Top.kind = "script" /\ current > 0
      /\ Match(acts, current, open)
  BY <1>1, RunningSlot, Matched DEF IInv, TypeOK
<1>3. /\ fault' = FALSE /\ current' = current - 1
      /\ \A s \in Slot : open'[s] = IF s + 1 = current THEN 0 ELSE open[s]
  BY <1>1, <1>2, LeaveSlot
<1>4. Match(acts', current', open') BY <1>1, <1>2, <1>3, Stack, PopScriptMatch
<1>5. Frames(acts') /\ acts' # <<>> BY <1>1, <1>2, BelowTop
<1> QED BY <1>1, <1>2, <1>3, <1>4, <1>5, InvRunning

(* The rules make sure that whatever fails finds no assignment and no      *)
(* handling native below an operator.                                      *)
LEMMA MayFailMeans ==
  ASSUME KeepsRules, NEW st \in Seq(Activation), MayFail(st)
  PROVE  NoSetter(st) /\ NoHandler(st)
<1>1. DOMAIN st = 1 .. Len(st) OBVIOUS
<1> QED BY <1>1 DEF KeepsRules, MayFail, NoSetter, NoHandler

LEMMA FailsStep == ASSUME KeepsRules, IInv, TypeOK', Fails PROVE IInv'
<1>1. /\ Running /\ MayFail(acts)
      /\ Leave \/ UNCHANGED <<current, open, fault>>
      /\ acts' = Below /\ error' = TRUE /\ raised' = TRUE /\ UNCHANGED <<throwing, told>>
  BY DEF Fails
<1>2. /\ acts # <<>> /\ throwing = FALSE /\ fault = FALSE /\ AboveClosed
      /\ Top.kind = "script" /\ current > 0
      /\ \A i \in 1 .. Len(acts) - 1 : IsScript(acts, i) => acts[i].slot < current - 1
  BY <1>1, RunningSlot, Always
<1>3. /\ fault' = FALSE /\ AboveClosed' /\ current' \in {current - 1, current}
  <2>1. CASE Leave BY <1>2, <2>1, LeaveSlot
  <2>2. CASE UNCHANGED <<current, open, fault>> BY <1>2, <2>2 DEF AboveClosed
  <2> QED BY <1>1, <2>1, <2>2
<1>4. NoSetter(Below) /\ NoHandler(Below)
  <2>1. NoSetter(acts) /\ NoHandler(acts) BY <1>1, <1>2, MayFailMeans, Stack
  <2> QED BY <1>2, <2>1, Stack, PopFrames
<1>5. HasSlot(Below, current')
  <2>1. \A i \in 1 .. Len(acts) - 1 : Waits(acts, i, "operator") => acts[i].slot < current'
    <3> SUFFICES ASSUME NEW i \in 1 .. Len(acts) - 1, Waits(acts, i, "operator")
                 PROVE  acts[i].slot < current'
      OBVIOUS
    <3>1. acts[i].slot < current - 1 /\ acts[i] \in Activation
      BY <1>2, Stack DEF IsScript, Waits
    <3>2. acts[i].slot \in Nat BY <3>1 DEF Activation, Waits, Slot
    <3> QED BY <1>2, <1>3, <3>1, <3>2, Stack
  <2> QED BY <1>2, <2>1, PopSlots
<1> QED BY <1>1, <1>2, <1>3, <1>4, <1>5, BelowTop, InvFailed

(* The innermost script function starts to wait, or is done waiting. *)
LEMMA CallerStack ==
  ASSUME IInv, acts # <<>>, error = FALSE, throwing = FALSE, Top.kind = "script",
         NEW via \in Via \cup {"none"}
  PROVE  /\ Caller(via) \in Seq(Activation) /\ Caller(via) # <<>>
         /\ Len(Caller(via)) = Len(acts) /\ Frames(Caller(via))
         /\ Match(Caller(via), current, open)
         /\ Caller(via)[Len(acts)].kind = "script" /\ Caller(via)[Len(acts)].calls = via
         /\ Caller(via)[Len(acts)].slot = current - 1
         /\ current > 0 /\ current - 1 \in Slot
         /\ \A i \in 1 .. Len(acts) - 1 :
              IsScript(Caller(via), i) => Caller(via)[i].slot < current - 1
<1>1. /\ Caller(via) \in Seq(Activation) /\ Len(Caller(via)) = Len(acts)
      /\ \A i \in 1 .. Len(acts) - 1 : Caller(via)[i] = acts[i]
      /\ Caller(via)[Len(acts)] = [Top EXCEPT !.calls = via]
  BY Stack, CallerSeq
<1>2. /\ [Top EXCEPT !.calls = via].kind = "script"
      /\ [Top EXCEPT !.calls = via].slot = Top.slot
      /\ [Top EXCEPT !.calls = via].own = Top.own
      /\ [Top EXCEPT !.calls = via].calls = via
  BY Stack DEF Activation
<1>3. Caller(via) # <<>> BY <1>1, Stack
<1>4. Retouched(acts, Caller(via)) BY <1>1, <1>2, Stack DEF Retouched
<1>5. Frames(Caller(via)) BY <1>1, <1>4, Stack, RetouchFrames
<1>6. Match(acts, current, open) BY Matched
<1>7. /\ Top.slot = current - 1 /\ current > 0 /\ current - 1 \in Slot
      /\ open[Top.slot] = Top.own
      /\ \A i \in 1 .. Len(acts) - 1 : IsScript(acts, i) => acts[i].slot < current - 1
  <2>1. acts \in Seq(Activation) /\ Frames(acts) /\ current \in Nat /\ Top = acts[Len(acts)] BY Stack
  <2>2. acts[Len(acts)].kind = "script" BY <2>1
  <2>3. /\ acts[Len(acts)].slot = current - 1 /\ current > 0 /\ acts[Len(acts)].slot \in Slot
        /\ open[current - 1] = acts[Len(acts)].own
        /\ \A i \in 1 .. Len(acts) - 1 : IsScript(acts, i) => acts[i].slot < current - 1
    BY Zenon, <1>6, <2>1, <2>2, TopSlot
  <2> QED BY Zenon, <2>1, <2>3
<1>8. Match(Caller(via), current, open)
  BY <1>1, <1>2, <1>4, <1>6, <1>7, Stack, RetouchMatch
<1> QED BY <1>1, <1>2, <1>3, <1>5, <1>7, <1>8 DEF IsScript

(* A script function is entered on a stack that is in order. *)
LEMMA EnterStep ==
  ASSUME TypeOK, TypeOK', NEW below \in Seq(Activation), below # <<>>, Frames(below),
         NEW at \in Nat, NEW main \in BOOLEAN, Match(below, at, open), Enter(below, at, main),
         below[Len(below)].kind # "native",
         below[Len(below)].kind = "script" => below[Len(below)].calls # "none",
         fault = FALSE, error' = FALSE, raised' = FALSE, throwing' = FALSE
  PROVE  IInv'
<1> DEFINE own == IF main THEN 0 ELSE 1
           new == Script(at, own)
<1>1. at \in Slot BY MaxCallsAssumption DEF Enter, TooMany, Slot
<1>2. own \in 0 .. MaxBlocks BY MaxBlocksAssumption
<1>3. /\ acts' = below \o <<new>> /\ current' = at + 1
      /\ open' = [open EXCEPT ![at] = own] /\ fault' = FALSE
  BY DEF Enter
<1>4. new.kind = "script" /\ new.slot = at /\ new.own = own /\ new \in Activation
  BY <1>1, <1>2 DEF Script, Activation
<1> HIDE DEF new, own
<1>5. /\ acts' \in Seq(Activation) /\ Len(acts') = Len(below) + 1 /\ acts' # <<>>
      /\ \A i \in 1 .. Len(below) : acts'[i] = below[i]
      /\ acts'[Len(acts')] = new
  BY <1>3, <1>4, PushSeq
<1>6. Len(below) \in Nat /\ Len(below) >= 1 BY Nonempty
<1>7. OnTop(acts', Len(acts'))
  <2>1. acts'[Len(acts') - 1] = below[Len(below)] BY <1>5, <1>6
  <2> QED BY <1>4, <1>5, <2>1 DEF OnTop, IsScript
<1>8. \A i \in 1 .. Len(below) : IsScript(below, i) => below[i].slot < new.slot
  <2> SUFFICES ASSUME NEW i \in 1 .. Len(below), IsScript(below, i)
               PROVE  below[i].slot < at
    BY <1>4
  <2>1. below[i].slot \in Low(below) .. at - 1 BY DEF Match
  <2> QED BY <2>1 DEF Low
<1>9. Frames(acts') BY <1>4, <1>5, <1>7, <1>8, PushFrames
<1>10. open \in [Slot -> 0 .. MaxBlocks] BY SlotTypes
<1>11. acts'[Len(acts')] = Script(at, own) BY <1>5 DEF new
<1>12. Match(acts', at + 1, open')
  BY <1>1, <1>3, <1>5, <1>10, <1>11, PushScriptMatch
<1> QED BY <1>3, <1>5, <1>9, <1>12, InvRunning

(* Or it is refused: the call limit or the room on the stack. *)
LEMMA EnterFailsStep ==
  ASSUME KeepsRules, TypeOK', NEW below \in Seq(Activation), below # <<>>, Frames(below),
         NEW at \in Nat, at > 0, EnterFails(below, at), MayFail(below),
         \A s \in Slot : s >= at => open[s] = 0,
         below[Len(below)].kind # "native",
         below[Len(below)].kind = "script" => below[Len(below)].calls # "none",
         Waits(below, Len(below), "operator") => below[Len(below)].slot < at,
         \A i \in 1 .. Len(below) - 1 :
           Waits(below, i, "operator")
           /\ (\A k \in 1 .. Len(below) : i < k => below[k].kind # "execute")
           => below[i].slot < at - 1,
         fault = FALSE, error' = TRUE, raised' = TRUE, throwing' = FALSE
  PROVE  IInv'
<1>1. acts' = below /\ NoSetter(below) /\ NoHandler(below)
  BY MayFailMeans DEF EnterFails
<1>2. Len(below) \in Nat /\ Len(below) >= 1 BY Nonempty
<1>3. CASE TooMany(at) /\ current' = at /\ UNCHANGED <<open, fault>>
  <2>1. AboveClosed' BY <1>3 DEF AboveClosed
  <2>2. HasSlot(below, at)
    <3> SUFFICES ASSUME NEW i \in 1 .. Len(below), Waits(below, i, "operator"),
                        \A k \in 1 .. Len(below) : i < k => below[k].kind # "execute"
                 PROVE  below[i].slot < at
      BY DEF HasSlot
    <3>1. CASE i = Len(below) BY <3>1
    <3>2. CASE i # Len(below)
      <4>1. i \in 1 .. Len(below) - 1 BY <1>2, <3>2
      <4>2. below[i].slot < at - 1 BY <4>1
      <4>3. below[i] \in Activation OBVIOUS
      <4>4. below[i].slot \in Nat BY <4>3 DEF Activation, Waits, Slot
      <4> QED BY <4>2, <4>4
    <3> QED BY <3>1, <3>2
  <2> QED BY <1>1, <1>3, <2>1, <2>2, InvFailed
<1>4. CASE ~TooMany(at) /\ MayLackRoom(below) /\ fault' = (fault \/ at = 0)
  <2>0. at # 0 OBVIOUS
  <2>1. fault' = FALSE BY <1>4, <2>0, Zenon
  <2>2. current' = at - 1 /\ open' = [s \in Slot |-> IF s + 1 = at THEN 0 ELSE open[s]]
    BY <1>4 DEF EnterFails
  <2>3. AboveClosed'
    <3> SUFFICES ASSUME NEW s \in Slot, s >= at - 1 PROVE open'[s] = 0
      BY <2>2 DEF AboveClosed
    <3>1. s \in Nat BY DEF Slot
    <3>2. s + 1 # at => s >= at BY <3>1
    <3> QED BY <2>2, <3>2
  <2>4. HasSlot(below, at - 1)
    <3> SUFFICES ASSUME NEW i \in 1 .. Len(below), Waits(below, i, "operator"),
                        \A k \in 1 .. Len(below) : i < k => below[k].kind # "execute"
                 PROVE  below[i].slot < at - 1
      BY DEF HasSlot
    <3>1. i # Len(below) BY <1>4 DEF KeepsRules, MayLackRoom
    <3>2. i \in 1 .. Len(below) - 1 BY <1>2, <3>1
    <3> QED BY <3>2
  <2> QED BY <1>1, <2>1, <2>2, <2>3, <2>4, InvFailed
<1> QED BY <1>3, <1>4 DEF EnterFails

LEMMA FirstFrame ==
  ASSUME NEW st \in Seq(Activation), Len(st) = 1, st[1].kind = "execute"
  PROVE  Frames(st) /\ \A i \in 1 .. Len(st) : ~IsScript(st, i)
<1>1. \A i \in 1 .. Len(st) : i = 1 OBVIOUS
<1>2. ~IsScript(st, 1) BY DEF IsScript
<1>3. \A i \in 1 .. Len(st) : ~IsScript(st, i) BY <1>1, <1>2
<1>4. Stacked(st) BY <1>1 DEF Stacked, OnBottom, OnTop
<1>5. Increasing(st) BY <1>3 DEF Increasing
<1> QED BY <1>3, <1>4, <1>5 DEF Frames

LEMMA HostCallsStep == ASSUME KeepsRules, IInv, TypeOK', HostCalls PROVE IInv'
<1> DEFINE new == Execute(TRUE)
           into == <<new>>
<1>1. acts = <<>> /\ ExecuteFunction(<<>>) BY DEF HostCalls
<1>2. /\ current = 0 /\ throwing = FALSE /\ fault = FALSE /\ TypeOK
      /\ \A s \in Slot : open[s] = 0
  <2>1. current = 0 /\ ~throwing BY <1>1 DEF IInv, Thrown
  <2>2. \A s \in Slot : open[s] = 0 BY <2>1, Always DEF AboveClosed, Slot
  <2> QED BY <2>1, <2>2, Always
<1>3. /\ \/ /\ Enter(into, 1, FALSE)
            /\ error' = (error /\ ~TRUE)
            /\ raised' = (raised /\ <<>> # <<>>)
         \/ /\ MayFail(into) /\ EnterFails(into, 1)
            /\ error' = TRUE /\ raised' = TRUE
      /\ throwing' = FALSE
  <2>1. <<>> \o <<new>> = into OBVIOUS
  <2> QED BY <1>1, <1>2, <2>1 DEF ExecuteFunction
<1>4. new \in Activation /\ new.kind = "execute" /\ new.first = TRUE
  BY DEF Execute, Activation
<1> HIDE DEF new
<1>5. into \in Seq(Activation) /\ into # <<>> /\ Len(into) = 1 /\ into[1] = new BY <1>4
<1> HIDE DEF into
<1>6. Frames(into) /\ \A i \in 1 .. Len(into) : ~IsScript(into, i) BY <1>4, <1>5, FirstFrame
<1>7. Match(into, 1, open)
  <2>1. Low(into) = 1 BY <1>4, <1>5 DEF Low
  <2> QED BY <1>2, <1>6, <2>1 DEF Match
<1>8. into[Len(into)].kind = "execute" BY <1>4, <1>5
<1>9. CASE Enter(into, 1, FALSE) /\ error' = (error /\ ~TRUE) /\ raised' = (raised /\ <<>> # <<>>)
  <2>1. error' = FALSE /\ raised' = FALSE BY <1>9, Zenon
  <2> QED BY <1>2, <1>3, <1>5, <1>6, <1>7, <1>8, <1>9, <2>1, EnterStep
<1>10. CASE MayFail(into) /\ EnterFails(into, 1) /\ error' = TRUE /\ raised' = TRUE
  <2>1. 1 .. Len(into) - 1 = {} BY <1>5
  <2>2. ~Waits(into, Len(into), "operator") BY <1>8 DEF Waits
  <2>3. PICK one \in Nat : one = 1 OBVIOUS
  <2>4. \A i \in 1 .. Len(into) - 1 :
          Waits(into, i, "operator")
          /\ (\A k \in 1 .. Len(into) : i < k => into[k].kind # "execute")
          => into[i].slot < one - 1
    BY <2>1
  <2>5. \A s \in Slot : s >= one => open[s] = 0 BY <1>2
  <2>6. one > 0 /\ EnterFails(into, one) /\ MayFail(into) BY <1>10, <2>3
  <2> QED BY <1>2, <1>3, <1>5, <1>6, <1>8, <1>10, <2>2, <2>4, <2>5, <2>6, EnterFailsStep
<1> QED BY <1>3, <1>9, <1>10

LEMMA HostRunsStep == ASSUME IInv, TypeOK', HostRuns PROVE IInv'
<1> DEFINE new == Execute(FALSE)
           into == <<new>>
<1>1. acts = <<>> BY DEF HostRuns
<1>2. /\ current = 0 /\ throwing = FALSE /\ fault = FALSE /\ TypeOK
      /\ \A s \in Slot : open[s] = 0
  <2>1. current = 0 /\ ~throwing BY <1>1 DEF IInv, Thrown
  <2>2. \A s \in Slot : open[s] = 0 BY <2>1, Always DEF AboveClosed, Slot
  <2> QED BY <2>1, <2>2, Always
<1>3. /\ Enter(into, 0, TRUE) /\ error' = FALSE /\ raised' = FALSE /\ throwing' = FALSE
  BY <1>2 DEF HostRuns
<1>4. new \in Activation /\ new.kind = "execute" /\ new.first = FALSE
  BY DEF Execute, Activation
<1> HIDE DEF new
<1>5. into \in Seq(Activation) /\ into # <<>> /\ Len(into) = 1 /\ into[1] = new BY <1>4
<1> HIDE DEF into
<1>6. Frames(into) /\ \A i \in 1 .. Len(into) : ~IsScript(into, i) BY <1>4, <1>5, FirstFrame
<1>7. Match(into, 0, open)
  <2>1. Low(into) = 0 BY <1>4, <1>5 DEF Low
  <2>3. 0 .. 0 - 1 = {} OBVIOUS
  <2> QED BY <1>2, <1>6, <2>1, <2>3 DEF Match
<1>8. into[Len(into)].kind = "execute" BY <1>4, <1>5
<1> QED BY <1>2, <1>3, <1>5, <1>6, <1>7, <1>8, EnterStep

LEMMA CallsScriptStep ==
  ASSUME KeepsRules, IInv, TypeOK', NEW via \in Via, CallsScript(via)
  PROVE  IInv'
<1> DEFINE into == Caller(via)
<1>1. /\ Running
      /\ \/ Enter(into, current, FALSE) /\ UNCHANGED <<error, raised>>
         \/ MayFail(into) /\ EnterFails(into, current) /\ error' = TRUE /\ raised' = TRUE
      /\ throwing' = throwing
  BY DEF CallsScript
<1>2. /\ acts # <<>> /\ error = FALSE /\ throwing = FALSE /\ raised = FALSE
      /\ Top.kind = "script" /\ fault = FALSE /\ TypeOK /\ current \in Nat
  BY <1>1, RunningSlot, Matched, Always
<1>3. via \in Via \cup {"none"} /\ via # "none" BY DEF Via
<1>4. /\ into \in Seq(Activation) /\ into # <<>>
      /\ Len(into) = Len(acts) /\ Frames(into) /\ Match(into, current, open)
      /\ into[Len(into)].kind = "script" /\ into[Len(into)].calls = via
      /\ into[Len(into)].slot = current - 1
      /\ current > 0
      /\ \A i \in 1 .. Len(into) - 1 : IsScript(into, i) => into[i].slot < current - 1
  BY <1>2, <1>3, CallerStack
<1> HIDE DEF into
<1>5. CASE Enter(into, current, FALSE) /\ UNCHANGED <<error, raised>>
  BY <1>1, <1>2, <1>3, <1>4, <1>5, EnterStep
<1>6. CASE MayFail(into) /\ EnterFails(into, current) /\ error' = TRUE /\ raised' = TRUE
  <2>1. \A s \in Slot : s >= current => open[s] = 0 BY Always DEF AboveClosed
  <2>2. into[Len(into)].slot < current BY <1>2, <1>4
  <2>3. \A i \in 1 .. Len(into) - 1 : Waits(into, i, "operator") => into[i].slot < current - 1
    BY <1>4 DEF Waits, IsScript
  <2> QED BY <1>1, <1>2, <1>3, <1>4, <1>6, <2>1, <2>2, <2>3, EnterFailsStep
<1> QED BY <1>1, <1>5, <1>6

LEMMA CallsNativeStep ==
  ASSUME IInv, TypeOK', NEW via \in Via, CallsNative(via)
  PROVE  IInv'
<1> DEFINE into == Caller(via)
           new == Native(via)
<1>1. /\ Running /\ acts' = into \o <<new>>
      /\ UNCHANGED <<current, open, error, throwing, raised, told, fault>>
  BY DEF CallsNative
<1>2. /\ acts # <<>> /\ error = FALSE /\ throwing = FALSE /\ raised = FALSE
      /\ Top.kind = "script" /\ fault = FALSE /\ current \in Nat
  BY <1>1, RunningSlot, Matched, Always
<1>3. via \in Via \cup {"none"} /\ via # "none" BY DEF Via
<1>4. /\ into \in Seq(Activation) /\ into # <<>> /\ Frames(into)
      /\ Match(into, current, open)
      /\ into[Len(into)].kind = "script" /\ into[Len(into)].calls = via
  BY <1>2, <1>3, CallerStack
<1>5. new \in Activation /\ new.kind = "native" /\ new.via = via
  BY DEF Native, Activation
<1> HIDE DEF into, new
<1>6. /\ acts' \in Seq(Activation) /\ Len(acts') = Len(into) + 1 /\ acts' # <<>>
      /\ \A i \in 1 .. Len(into) : acts'[i] = into[i]
      /\ acts'[Len(acts')] = new
  BY <1>1, <1>4, <1>5, PushSeq
<1>7. OnTop(acts', Len(acts'))
  <2>1. Len(into) \in Nat /\ Len(into) >= 1 BY <1>4, Nonempty
  <2>2. acts'[Len(acts') - 1] = into[Len(into)] BY <1>6, <2>1
  <2> QED BY <1>3, <1>4, <1>5, <1>6, <2>2 DEF OnTop, IsScript
<1>8. Frames(acts') BY <1>4, <1>5, <1>6, <1>7, PushFrames
<1>9. Match(acts', current, open) BY <1>2, <1>4, <1>5, <1>6, PushMatch
<1> QED BY <1>1, <1>2, <1>6, <1>8, <1>9, InvRunning

LEMMA CallsEvalStep == ASSUME KeepsRules, IInv, TypeOK', CallsEval PROVE IInv'
<1> DEFINE caller == Caller("call")
           new == Eval(current)
           into == caller \o <<new>>
<1>1. /\ Running
      /\ \/ Enter(into, current, FALSE) /\ UNCHANGED <<error, raised>>
         \/ MayFail(into) /\ EnterFails(into, current) /\ error' = TRUE /\ raised' = TRUE
      /\ throwing' = throwing
  BY DEF CallsEval
<1>2. /\ acts # <<>> /\ error = FALSE /\ throwing = FALSE /\ raised = FALSE
      /\ Top.kind = "script" /\ fault = FALSE /\ TypeOK /\ current \in Nat
      /\ current \in 0 .. MaxCalls
  BY <1>1, RunningSlot, Matched, Always, Stack
<1>3. "call" \in Via \cup {"none"} BY DEF Via
<1>4. /\ caller \in Seq(Activation) /\ caller # <<>>
      /\ Len(caller) = Len(acts) /\ Frames(caller) /\ Match(caller, current, open)
      /\ caller[Len(caller)].kind = "script" /\ caller[Len(caller)].calls = "call"
      /\ caller[Len(caller)].slot = current - 1
      /\ current > 0
      /\ \A i \in 1 .. Len(caller) - 1 : IsScript(caller, i) => caller[i].slot < current - 1
  BY <1>2, <1>3, CallerStack
<1>5. new \in Activation /\ new.kind = "eval" /\ new.saved = current
  BY <1>2 DEF Eval, Activation
<1> HIDE DEF caller, new
<1>6. /\ into \in Seq(Activation) /\ Len(into) = Len(caller) + 1 /\ into # <<>>
      /\ \A i \in 1 .. Len(caller) : into[i] = caller[i]
      /\ into[Len(into)] = new
  BY <1>4, <1>5, PushSeq
<1> HIDE DEF into
<1>7. Len(caller) \in Nat /\ Len(caller) >= 1 BY <1>4, Nonempty
<1>8. OnTop(into, Len(into))
  <2>1. into[Len(into) - 1] = caller[Len(caller)] BY <1>6, <1>7
  <2>2. current = (current - 1) + 1 BY <1>2
  <2> QED BY <1>4, <1>5, <1>6, <2>1, <2>2 DEF OnTop, IsScript
<1>9. Frames(into) BY <1>4, <1>5, <1>6, <1>8, PushFrames
<1>10. Match(into, current, open) BY <1>2, <1>4, <1>5, <1>6, PushMatch
<1>11. CASE Enter(into, current, FALSE) /\ UNCHANGED <<error, raised>>
  BY <1>1, <1>2, <1>5, <1>6, <1>9, <1>10, <1>11, EnterStep
<1>12. CASE MayFail(into) /\ EnterFails(into, current) /\ error' = TRUE /\ raised' = TRUE
  <2>1. \A s \in Slot : s >= current => open[s] = 0 BY Always DEF AboveClosed
  <2>2. ~Waits(into, Len(into), "operator") BY <1>5, <1>6 DEF Waits
  <2>3. \A i \in 1 .. Len(into) - 1 : Waits(into, i, "operator") => into[i].slot < current - 1
    <3> SUFFICES ASSUME NEW i \in 1 .. Len(into) - 1, Waits(into, i, "operator")
                 PROVE  into[i].slot < current - 1
      OBVIOUS
    <3>1. i \in 1 .. Len(caller) /\ into[i] = caller[i] BY <1>6, <1>7
    <3>2. i # Len(caller) BY <1>4, <3>1 DEF Waits
    <3>3. i \in 1 .. Len(caller) - 1 /\ IsScript(caller, i)
      BY <1>7, <3>1, <3>2 DEF Waits, IsScript
    <3> QED BY <1>4, <3>1, <3>3
  <2> QED BY <1>1, <1>2, <1>4, <1>5, <1>6, <1>9, <1>12, <2>1, <2>2, <2>3, EnterFailsStep
<1> QED BY <1>1, <1>11, <1>12

(* A native has called a script function before an error is set, or not at all. *)
LEMMA NativeCallsStep == ASSUME KeepsRules, IInv, TypeOK', NativeCalls PROVE IInv'
<1> DEFINE new == Execute(FALSE)
           into == acts \o <<new>>
<1>1. TopIs("native") /\ MayCall(Top) /\ ExecuteFunction(acts) BY DEF NativeCalls
<1>2. /\ acts # <<>> /\ throwing = FALSE /\ Top.kind = "native" /\ fault = FALSE /\ TypeOK
      /\ current \in Nat
  BY <1>1, Always DEF TopIs
<1>3. error = FALSE
  <2>1. ~Top.failed BY <1>1 DEF KeepsRules, MayCall
  <2>2. ~error BY <1>1, <1>2, <2>1 DEF IInv, AfterError
  <2> QED BY <2>2, Always
<1>4. Match(acts, current, open) /\ raised = FALSE BY <1>2, <1>3, Matched, Always
<1>5. current > 0 /\ current # 0
  <2>1. IsScript(acts, Len(acts) - 1) /\ Len(acts) - 1 \in 1 .. Len(acts)
    BY <1>2, Stack DEF OnTop, OnBottom
  <2>2. acts[Len(acts) - 1].slot \in Low(acts) .. current - 1 BY <1>4, <2>1 DEF Match
  <2>3. Low(acts) \in {0, 1} BY DEF Low
  <2> QED BY <1>2, <2>2, <2>3
<1>6. /\ \/ /\ Enter(into, current, FALSE)
            /\ error' = (error /\ ~FALSE)
            /\ raised' = (raised /\ acts # <<>>)
         \/ /\ MayFail(into) /\ EnterFails(into, current)
            /\ error' = TRUE /\ raised' = TRUE
      /\ throwing' = FALSE
  <2>1. (current = 0) = FALSE BY <1>5
  <2> QED BY <1>1, <1>2, <2>1 DEF ExecuteFunction
<1>7. new \in Activation /\ new.kind = "execute" /\ ~new.first BY DEF Execute, Activation
<1> HIDE DEF new
<1>8. /\ into \in Seq(Activation) /\ Len(into) = Len(acts) + 1 /\ into # <<>>
      /\ \A i \in 1 .. Len(acts) : into[i] = acts[i]
      /\ into[Len(into)] = new
  BY <1>2, <1>7, Stack, PushSeq
<1> HIDE DEF into
<1>9. OnTop(into, Len(into))
  <2>1. into[Len(into) - 1] = Top BY <1>2, <1>8, Stack
  <2> QED BY <1>2, <1>7, <1>8, <2>1 DEF OnTop, IsScript
<1>10. Frames(into) BY <1>2, <1>7, <1>8, <1>9, Stack, PushFrames
<1>11. Match(into, current, open) BY <1>2, <1>4, <1>7, <1>8, Stack, PushMatch
<1>12. into[Len(into)].kind = "execute" BY <1>7, <1>8
<1>13. CASE Enter(into, current, FALSE) /\ error' = (error /\ ~FALSE)
            /\ raised' = (raised /\ acts # <<>>)
  <2>1. error' = FALSE /\ raised' = FALSE BY <1>3, <1>4, <1>13, Zenon
  <2> QED BY <1>2, <1>6, <1>8, <1>10, <1>11, <1>12, <1>13, <2>1, EnterStep
<1>14. CASE MayFail(into) /\ EnterFails(into, current) /\ error' = TRUE /\ raised' = TRUE
  <2>1. \A s \in Slot : s >= current => open[s] = 0 BY Always DEF AboveClosed
  <2>2. ~Waits(into, Len(into), "operator") BY <1>12 DEF Waits
  <2>3. Len(into) \in 1 .. Len(into) /\ \A i \in 1 .. Len(into) - 1 : i < Len(into)
    BY <1>8, Nonempty
  <2> QED BY <1>2, <1>5, <1>6, <1>8, <1>10, <1>12, <1>14, <2>1, <2>2, <2>3, EnterFailsStep
<1> QED BY <1>6, <1>13, <1>14

(* vm_execute ends: an error unwinds every slot and becomes an exception,   *)
(* unless the host is next; index 1 is given back.                         *)
LEMMA UnwindSlots ==
  ASSUME AboveClosed, current \in Nat, NEW n \in Nat, Unwind(n)
  PROVE  /\ AboveClosed'
         /\ current' = IF current > n THEN n ELSE current
<1>1. current' = IF current > n THEN n ELSE current BY DEF Unwind
<1>2. \A s \in Slot : open'[s] = IF s \in n .. current - 1 THEN 0 ELSE open[s] BY DEF Unwind
<1>3. AboveClosed'
  <2> SUFFICES ASSUME NEW s \in Slot, s >= current' PROVE open'[s] = 0
    BY DEF AboveClosed
  <2>1. s \in Nat BY DEF Slot
  <2>2. s \in n .. current - 1 \/ s >= current BY <1>1, <2>1
  <2> QED BY <1>2, <2>2 DEF AboveClosed
<1> QED BY <1>1, <1>3

LEMMA ExecuteEndsStep == ASSUME IInv, TypeOK', ExecuteEnds PROVE IInv'
<1>1. /\ acts # <<>> /\ ~throwing /\ Top.kind = "execute" /\ acts' = Below
      /\ UNCHANGED <<error, raised, fault>>
  BY DEF ExecuteEnds, TopIs
<1>2. throwing = FALSE /\ fault = FALSE /\ AboveClosed /\ current \in Nat /\ raised = error
  BY <1>1, Always DEF IInv, Answered
<1>3. CASE error = TRUE
  <2>1. Unwind(0) /\ throwing' = (Below # <<>>) /\ Ends("error")
    BY <1>3 DEF ExecuteEnds
  <2>2. current' = 0 /\ AboveClosed' BY <1>2, <2>1, UnwindSlots
  <2>3. NoSetter(acts) /\ NoHandler(acts) BY <1>1, <1>3 DEF IInv, AfterError
  <2>4. CASE Below = <<>>
    <3>1. Len(acts) = 1 BY <1>1, <2>4, Stack
    <3>2. told' = "error" BY <2>1, <3>1 DEF Ends
    <3>3. raised' <=> told' \in {"error", "internal error"} BY <1>1, <1>2, <1>3, <3>2
    <3>4. throwing' = FALSE BY <2>1, <2>4
    <3> QED BY <1>1, <1>2, <2>2, <2>4, <3>3, <3>4, InvIdle
  <2>5. CASE Below # <<>>
    <3>1. Frames(Below) /\ NoSetter(Below) BY <1>1, <2>3, Stack, PopFrames
    <3>2. NoCallAbove(Below)
      <4> SUFFICES ASSUME NEW i \in 1 .. Len(Below), NEW j \in 1 .. Len(Below),
                          i < j, Waits(Below, i, "operator"), Waits(Below, j, "call")
                   PROVE  FALSE
        BY DEF NoCallAbove
      <4>1. /\ i \in 1 .. Len(acts) /\ j \in 1 .. Len(acts) /\ j < Len(acts)
            /\ Waits(acts, i, "operator") /\ Waits(acts, j, "call")
        BY <1>1, Stack DEF Waits
      <4> QED BY <1>1, <2>3, <4>1, Stack DEF NoHandler
    <3>3. throwing' = TRUE BY <2>1, <2>5
    <3> QED BY <1>1, <1>2, <1>3, <2>2, <2>5, <3>1, <3>2, <3>3, InvThrowing
  <2> QED BY <2>4, <2>5
<1>4. CASE error = FALSE
  <2>1. /\ current' = IF Top.first THEN 0 ELSE current
        /\ UNCHANGED <<open, throwing>> /\ Ends("value")
    BY <1>4 DEF ExecuteEnds
  <2>2. Match(acts, current, open) BY <1>1, <1>2, <1>4, Matched
  <2>3. CASE Below = <<>>
    <3>1. Len(acts) = 1 BY <1>1, <2>3, Stack
    <3>2. told' = "value" BY <2>1, <3>1 DEF Ends
    <3>3. raised' <=> told' \in {"error", "internal error"}
      <4>1. raised' = FALSE BY <1>1, <1>2, <1>4
      <4>2. told' \notin {"error", "internal error"} BY <3>2
      <4> QED BY <4>1, <4>2
    <3>4. \A i \in 1 .. Len(acts) : ~IsScript(acts, i) BY <1>1, <3>1, Stack, FirstFrame
    <3>5. Low(acts) .. current - 1 = {} BY <2>2, <3>4 DEF Match
    <3>6. current' = 0 /\ \A s \in Slot : open[s] = 0
      <4>1. Low(acts) = IF Top.first THEN 1 ELSE 0 BY <1>1, <3>1, Stack DEF Low
      <4>2. current = Low(acts) BY <1>2, <2>2, <3>5, <4>1 DEF Match
      <4>3. \A s \in Slot : open[s] = 0 BY <2>2, <3>5 DEF Match
      <4> QED BY <2>1, <4>1, <4>2, <4>3
    <3>7. AboveClosed' BY <2>1, <3>6 DEF AboveClosed
    <3> QED BY <1>1, <1>2, <2>1, <2>3, <3>3, <3>6, <3>7, InvIdle
  <2>4. CASE Below # <<>>
    <3>1. Len(acts) >= 2 BY <1>1, <2>4, Stack
    <3>2. ~Top.first BY <1>1, <3>1, Stack DEF OnTop
    <3>3. Frames(Below) BY <1>1, Stack, PopFrames
    <3>4. Match(Below, current, open) BY <1>1, <1>2, <2>2, <3>1, Stack, PopMatch
    <3> QED BY <1>1, <1>2, <1>4, <2>1, <2>4, <3>2, <3>3, <3>4, InvRunning
  <2> QED BY <2>3, <2>4
<1> QED BY <1>3, <1>4, Always

(* What has been called is done. *)
LEMMA ResumesStep == ASSUME IInv, TypeOK', Resumes PROVE IInv'
<1>1. /\ acts # <<>> /\ ~throwing /\ Top.kind = "script" /\ Top.calls # "none"
      /\ UNCHANGED <<error, throwing, raised, told>>
  BY DEF Resumes, TopIs, Running
<1>2. throwing = FALSE /\ fault = FALSE /\ AboveClosed /\ current \in Nat /\ raised = error
  BY <1>1, Always DEF IInv, Answered
<1>3. CASE error = TRUE
  <2>1. NoSetter(acts) /\ NoHandler(acts) /\ HasSlot(acts, current)
    BY <1>1, <1>3 DEF IInv, AfterError
  <2>2. Top.calls # "setter"
    <3>1. ~Waits(acts, Len(acts), "setter") BY <1>1, <2>1, Stack DEF NoSetter
    <3> QED BY <1>1, <3>1, Stack DEF Waits
  <2>3. /\ acts' = Below
        /\ \/ UNCHANGED <<current, open, fault>>
           \/ Top.calls = "operator" /\ Leave
    BY <1>3, <2>2 DEF Resumes, Heeds
  <2>4. NoSetter(Below) /\ NoHandler(Below) BY <1>1, <2>1, Stack, PopFrames
  <2>5. CASE UNCHANGED <<current, open, fault>>
    <3>1. AboveClosed' BY <1>2, <2>5 DEF AboveClosed
    <3>2. HasSlot(Below, current) BY <1>1, <2>1, StillHasSlot
    <3> QED BY <1>1, <1>2, <1>3, <2>3, <2>4, <2>5, <3>1, <3>2, BelowTop, InvFailed
  <2>6. CASE Top.calls = "operator" /\ Leave
    <3>1. Top.slot < current
      <4>1. Waits(acts, Len(acts), "operator") BY <1>1, <2>6, Stack DEF Waits
      <4>2. \A k \in 1 .. Len(acts) : ~(Len(acts) < k) BY <1>1, Stack
      <4> QED BY <1>1, <2>1, <4>1, <4>2, Stack DEF HasSlot
    <3>2. Top.slot \in Nat BY <1>1, Stack DEF Activation, Slot
    <3>3. current > 0 BY <1>2, <3>1, <3>2
    <3>4. fault' = FALSE /\ current' = current - 1 /\ AboveClosed'
      BY <2>6, <3>3, LeaveSlot
    <3>5. HasSlot(Below, current - 1)
      <4>1. \A i \in 1 .. Len(acts) - 1 : Waits(acts, i, "operator") => acts[i].slot < current - 1
        <5> SUFFICES ASSUME NEW i \in 1 .. Len(acts) - 1, Waits(acts, i, "operator")
                     PROVE  acts[i].slot < current - 1
          OBVIOUS
        <5>1. i \in 1 .. Len(acts) /\ i < Len(acts) BY <1>1, Stack
        <5>2. acts[i].slot < Top.slot
          BY <1>1, <5>1, Stack DEF Frames, Increasing, IsScript, Waits
        <5>3. acts[i] \in Activation BY <1>1, <5>1, Stack
        <5>4. acts[i].slot \in Nat BY <5>3 DEF Activation, Waits, Slot
        <5> QED BY <1>2, <3>1, <3>2, <5>2, <5>4
      <4> QED BY <1>1, <4>1, PopSlots
    <3> QED BY <1>1, <1>2, <1>3, <2>3, <2>4, <3>4, <3>5, BelowTop, InvFailed
  <2> QED BY <2>3, <2>5, <2>6
<1>4. CASE error = FALSE
  <2>1. acts' = Caller("none") /\ UNCHANGED <<current, open, fault>> BY <1>4 DEF Resumes
  <2> QED BY <1>1, <1>2, <1>4, <2>1, CallerStack, InvRunning
<1> QED BY <1>3, <1>4, Always

LEMMA EvalEndsStep == ASSUME IInv, TypeOK', EvalEnds PROVE IInv'
<1> DEFINE n == Len(acts) - 1
<1>1. /\ acts # <<>> /\ ~throwing /\ Top.kind = "eval" /\ acts' = Below
      /\ Unwind(Top.saved) /\ UNCHANGED <<error, throwing, raised, told, fault>>
  BY DEF EvalEnds, TopIs
<1>2. throwing = FALSE /\ fault = FALSE /\ AboveClosed /\ current \in Nat /\ raised = error
  BY <1>1, Always DEF IInv, Answered
<1>3. Top.saved \in Nat
  <2>1. Top.saved \in 0 .. MaxCalls BY <1>1, Stack DEF Activation
  <2> QED BY <2>1, MaxCallsAssumption
<1>4. /\ n \in 1 .. Len(acts) /\ n < Len(acts) /\ IsScript(acts, n)
      /\ acts[n].calls = "call" /\ Top.saved = acts[n].slot + 1
  BY <1>1, Stack DEF OnTop, OnBottom
<1>5. acts[n].slot \in Nat
  <2>1. acts[n] \in Activation BY <1>1, <1>4, Stack
  <2> QED BY <1>4, <2>1 DEF Activation, IsScript, Slot
<1>6. AboveClosed' /\ current' = IF current > Top.saved THEN Top.saved ELSE current
  BY <1>1, <1>2, <1>3, UnwindSlots
<1>7. CASE error = TRUE
  <2>1. NoSetter(acts) /\ NoHandler(acts) /\ HasSlot(acts, current)
    BY <1>1, <1>7 DEF IInv, AfterError
  <2>2. NoSetter(Below) /\ NoHandler(Below) BY <1>1, <2>1, Stack, PopFrames
  <2>3. HasSlot(Below, current')
    <3>1. ASSUME NEW i \in 1 .. Len(acts) - 1, Waits(acts, i, "operator"),
                 \A k \in 1 .. Len(acts) : i < k => acts[k].kind # "execute"
          PROVE  acts[i].slot < current'
      <4>1. i \in 1 .. Len(acts) BY <1>1, Stack
      <4>2. acts[i].slot < current BY <2>1, <3>1, <4>1 DEF HasSlot
      <4>3. i # n BY <1>4, <3>1 DEF Waits
      <4>4. i < n BY <1>4, <4>1, <4>3
      <4>5. acts[i].slot < acts[n].slot
        BY <1>1, <1>4, <3>1, <4>1, <4>4, Stack DEF Frames, Increasing, IsScript, Waits
      <4>6. acts[i] \in Activation BY <1>1, <4>1, Stack
      <4>7. acts[i].slot \in Nat BY <3>1, <4>6 DEF Activation, Waits, Slot
      <4> QED BY <1>2, <1>4, <1>5, <1>6, <4>2, <4>5, <4>7
    <3> QED BY <1>1, <3>1, PopSlots
  <2> QED BY <1>1, <1>2, <1>6, <1>7, <2>2, <2>3, BelowTop, InvFailed
<1>8. CASE error = FALSE
  <2>1. Match(acts, current, open) BY <1>1, <1>2, <1>8, Matched
  <2>2. Len(acts) >= 2 /\ Frames(Below) /\ Below # <<>> BY <1>1, BelowTop
  <2>3. Match(Below, current, open) BY <1>1, <1>2, <2>1, <2>2, Stack, PopMatch
  <2>4. acts[n].slot = current - 1
    <3>1. Below[Len(Below)] = acts[n] BY <1>1, <1>4, <2>2, Stack
    <3> QED BY <1>1, <1>2, <1>4, <2>2, <2>3, <3>1, Stack, TopSlot DEF IsScript
  <2>5. Top.saved = current BY <1>2, <1>4, <1>5, <2>4
  <2>6. current' = current BY <1>2, <1>6, <2>5
  <2>7. open' = open
    <3>1. open' = [s \in Slot |-> IF s \in current .. current - 1 THEN 0 ELSE open[s]]
      BY <1>1, <2>5 DEF Unwind
    <3>2. current .. current - 1 = {} BY <1>2
    <3>3. open \in [Slot -> 0 .. MaxBlocks] BY <1>1, Stack
    <3> QED BY <3>1, <3>2, <3>3
  <2> QED BY <1>1, <1>2, <1>8, <2>2, <2>3, <2>6, <2>7, InvRunning
<1> QED BY <1>7, <1>8, Always

(* An exception passes: the slots are gone. *)
LEMMA Passing ==
  ASSUME IInv, throwing
  PROVE  /\ acts # <<>> /\ error = TRUE /\ raised = TRUE /\ current = 0 /\ fault = FALSE
         /\ AboveClosed /\ NoSetter(acts) /\ NoCallAbove(acts)
         /\ NoSetter(Below) /\ NoCallAbove(Below) /\ Frames(Below)
<1>1. acts # <<>> /\ error = TRUE /\ current = 0 /\ NoCallAbove(acts)
  BY Always DEF IInv, Thrown
<1>2. NoSetter(acts) BY <1>1 DEF IInv, AfterError
<1>3. raised = TRUE BY <1>1, Always DEF IInv, Answered
<1>4. NoSetter(Below) /\ NoCallAbove(Below) /\ Frames(Below)
  BY <1>1, <1>2, Stack, PopFrames
<1> QED BY <1>1, <1>2, <1>3, <1>4, Always

LEMMA PassesScriptStep == ASSUME IInv, TypeOK', PassesScript PROVE IInv'
<1>1. /\ throwing /\ acts' = Below /\ throwing' = (Below # <<>>) /\ Ends("error")
      /\ UNCHANGED <<current, open, error, raised, fault>>
  BY DEF PassesScript
<1>2. AboveClosed' BY <1>1, Passing DEF AboveClosed
<1>3. CASE Below = <<>>
  <2>1. Len(acts) = 1 BY <1>1, <1>3, Stack, Passing
  <2>2. told' = "error" BY <1>1, <2>1 DEF Ends
  <2>3. raised' <=> told' \in {"error", "internal error"} BY <1>1, <2>2, Passing
  <2>4. throwing' = FALSE BY <1>1, <1>3
  <2> QED BY <1>1, <1>2, <1>3, <2>3, <2>4, Passing, InvIdle
<1>4. CASE Below # <<>>
  <2>1. throwing' = TRUE BY <1>1, <1>4
  <2> QED BY <1>1, <1>2, <1>4, <2>1, Passing, InvThrowing
<1> QED BY <1>3, <1>4

(* An exception leaves a native that its caller waits for: vm_call turns   *)
(* it into an error, and no operator waits below.                          *)
LEMMA PassesNativeStep == ASSUME IInv, TypeOK', PassesNative PROVE IInv'
<1> DEFINE via == IF Top.kind = "native" THEN Top.via ELSE "call"
           n == Len(acts) - 1
<1>1. /\ throwing /\ Top.kind \in {"native", "eval"} /\ acts' = Below
      /\ throwing' = (via # "call") /\ raised' = TRUE /\ error' = (error \/ via = "call")
      /\ UNCHANGED <<current, open, told, fault>>
  BY DEF PassesNative, LeavesNative
<1>2. error' = TRUE BY <1>1, Passing, Zenon
<1>3. AboveClosed' BY <1>1, Passing DEF AboveClosed
<1>4. /\ n \in 1 .. Len(acts) /\ n < Len(acts) /\ IsScript(acts, n) /\ acts[n].calls = via
  BY <1>1, Passing, Stack DEF OnTop, OnBottom
<1>5. Below # <<>> /\ Below[Len(Below)].kind # "native"
      /\ (Below[Len(Below)].kind = "script" => Below[Len(Below)].calls # "none")
  BY <1>1, Passing, BelowTop
<1>6. CASE via = "call"
  <2>1. \A i \in 1 .. Len(acts) - 1 : ~Waits(acts, i, "operator")
    <3> SUFFICES ASSUME NEW i \in 1 .. Len(acts) - 1, Waits(acts, i, "operator")
                 PROVE  FALSE
      OBVIOUS
    <3>1. Waits(acts, n, "call") BY <1>4, <1>6 DEF Waits, IsScript
    <3>2. i # n BY <3>1 DEF Waits
    <3>3. i \in 1 .. Len(acts) /\ i < n BY <1>4, <3>2, Passing, Stack
    <3>4. NoCallAbove(acts) BY <1>1, Passing
    <3> QED BY <1>4, <3>1, <3>3, <3>4 DEF NoCallAbove
  <2>2. HasSlot(Below, current) BY <1>1, <2>1, Passing, PopSlots
  <2>3. NoHandler(Below)
    <3>1. NoCallAbove(Below) BY <1>1, Passing
    <3> QED BY <3>1 DEF NoHandler, NoCallAbove
  <2>4. throwing' = FALSE BY <1>1, <1>6
  <2> QED BY <1>1, <1>2, <1>3, <1>5, <2>2, <2>3, <2>4, Passing, InvFailed
<1>7. CASE via # "call"
  <2>1. throwing' = TRUE BY <1>1, <1>7
  <2> QED BY <1>1, <1>2, <1>3, <1>5, <2>1, Passing, InvThrowing
<1> QED BY <1>6, <1>7

LEMMA CatchesStep == ASSUME KeepsRules, IInv, TypeOK', Catches PROVE IInv'
<1>1. /\ throwing /\ Top.kind = "native" /\ MayCatch
      /\ acts' = [acts EXCEPT ![Len(acts)].failed = TRUE] /\ throwing' = FALSE
      /\ UNCHANGED <<current, open, error, raised, told, fault>>
  BY DEF Catches
<1>2. acts # <<>> BY <1>1, Passing
<1>3. /\ [Top EXCEPT !.failed = TRUE].kind = "native"
      /\ [Top EXCEPT !.failed = TRUE].via = Top.via
      /\ [Top EXCEPT !.failed = TRUE].failed
      /\ [Top EXCEPT !.failed = TRUE] \in Activation
  BY <1>1, <1>2, Stack DEF Activation
<1>4. acts' = [acts EXCEPT ![Len(acts)] = [Top EXCEPT !.failed = TRUE]]
  BY <1>1 DEF Top
<1>5. /\ acts' \in Seq(Activation) /\ Len(acts') = Len(acts) /\ acts' # <<>>
      /\ acts'[Len(acts)] = [Top EXCEPT !.failed = TRUE]
      /\ \A i \in 1 .. Len(acts) - 1 : acts'[i] = acts[i]
  BY <1>2, <1>3, <1>4, Stack
<1>6. Retouched(acts, acts') BY <1>1, <1>2, <1>3, <1>5, Stack DEF Retouched
<1>7. Frames(acts') BY <1>2, <1>5, <1>6, Stack, RetouchFrames
<1>8. \A i \in 1 .. Len(acts') : Waits(acts', i, "setter") => Waits(acts, i, "setter")
  <2> SUFFICES ASSUME NEW i \in 1 .. Len(acts'), Waits(acts', i, "setter")
               PROVE  Waits(acts, i, "setter")
    OBVIOUS
  <2>1. i # Len(acts) BY <1>3, <1>5 DEF Waits
  <2>2. acts'[i] = acts[i] BY <1>2, <1>5, <2>1, Stack
  <2> QED BY <2>2 DEF Waits
<1>9. \A i \in 1 .. Len(acts') : ~Waits(acts', i, "operator")
  <2> SUFFICES ASSUME NEW i \in 1 .. Len(acts'), Waits(acts', i, "operator")
               PROVE  FALSE
    OBVIOUS
  <2>1. i # Len(acts) BY <1>3, <1>5 DEF Waits
  <2>2. acts'[i] = acts[i] /\ i \in DOMAIN acts BY <1>2, <1>5, <2>1, Stack
  <2> QED BY <1>1, <2>2 DEF Waits, MayCatch, KeepsRules
<1>10. NoSetter(acts') BY <1>5, <1>8, Passing, <1>1 DEF NoSetter
<1>11. NoHandler(acts') /\ HasSlot(acts', current) BY <1>9 DEF NoHandler, HasSlot
<1>12. AboveClosed' BY <1>1, Passing DEF AboveClosed
<1>13. acts'[Len(acts')].kind = "native" /\ acts'[Len(acts')].failed BY <1>3, <1>5
<1> QED BY <1>1, <1>5, <1>7, <1>10, <1>11, <1>12, <1>13, Passing, InvFailed

(* A native ends, with an error or without. *)
LEMMA NativeFails ==
  ASSUME KeepsRules, IInv, TypeOK', acts # <<>>, ~throwing, Top.kind = "native",
         MayFail(acts), acts' = Below, error' = TRUE, raised' = TRUE, throwing' = FALSE,
         UNCHANGED <<current, open, fault>>
  PROVE  IInv'
<1>1. NoSetter(acts) /\ NoHandler(acts) BY Stack, MayFailMeans
<1>2. NoSetter(Below) /\ NoHandler(Below) BY <1>1, Stack, PopFrames
<1>3. fault = FALSE /\ AboveClosed /\ current \in Nat BY Always
<1>4. AboveClosed' BY <1>3 DEF AboveClosed
<1>5. HasSlot(Below, current)
  <2>1. CASE error = TRUE
    <3>1. HasSlot(acts, current) BY <2>1 DEF IInv, AfterError
    <3> QED BY <3>1, StillHasSlot
  <2>2. CASE error = FALSE
    <3>1. Match(acts, current, open) BY <2>2, Matched
    <3>2. \A i \in 1 .. Len(acts) - 1 : Waits(acts, i, "operator") => acts[i].slot < current
      <4> SUFFICES ASSUME NEW i \in 1 .. Len(acts) - 1, Waits(acts, i, "operator")
                   PROVE  acts[i].slot < current
        OBVIOUS
      <4>1. i \in 1 .. Len(acts) BY Stack
      <4>2. acts[i].slot \in Low(acts) .. current - 1
        BY <3>1, <4>1 DEF Match, IsScript, Waits
      <4>3. Low(acts) \in {0, 1} BY DEF Low
      <4> QED BY <1>3, <4>2, <4>3
    <3> QED BY <3>2, PopSlots
  <2> QED BY <2>1, <2>2, Always
<1> QED BY <1>2, <1>3, <1>4, <1>5, BelowTop, InvFailed

LEMMA NativeReturnsStep == ASSUME KeepsRules, IInv, TypeOK', NativeReturns PROVE IInv'
<1>1. /\ acts # <<>> /\ ~throwing /\ Top.kind = "native" /\ acts' = Below
      /\ UNCHANGED <<current, open, throwing, told, fault>>
      /\ \/ UNCHANGED <<error, raised>>
         \/ MayFail(acts) /\ error' = TRUE /\ raised' = TRUE
  BY DEF NativeReturns, TopIs
<1>2. throwing = FALSE /\ fault = FALSE /\ AboveClosed /\ current \in Nat /\ raised = error
  BY <1>1, Always DEF IInv, Answered
<1>3. CASE MayFail(acts) /\ error' = TRUE /\ raised' = TRUE
  BY <1>1, <1>2, <1>3, NativeFails
<1>4. CASE UNCHANGED <<error, raised>> /\ error = TRUE
  <2>1. NoSetter(acts) /\ NoHandler(acts) /\ HasSlot(acts, current)
    BY <1>1, <1>4 DEF IInv, AfterError
  <2>2. NoSetter(Below) /\ NoHandler(Below) BY <1>1, <2>1, Stack, PopFrames
  <2>3. HasSlot(Below, current) BY <1>1, <2>1, StillHasSlot
  <2>4. AboveClosed' BY <1>1, <1>2 DEF AboveClosed
  <2> QED BY <1>1, <1>2, <1>4, <2>2, <2>3, <2>4, BelowTop, InvFailed
<1>5. CASE UNCHANGED <<error, raised>> /\ error = FALSE
  <2>1. Match(acts, current, open) BY <1>1, <1>2, <1>5, Matched
  <2>2. Len(acts) >= 2 /\ Frames(Below) /\ Below # <<>> BY <1>1, BelowTop
  <2>3. Match(Below, current, open) BY <1>1, <1>2, <2>1, <2>2, Stack, PopMatch
  <2> QED BY <1>1, <1>2, <1>5, <2>2, <2>3, InvRunning
<1> QED BY <1>1, <1>3, <1>4, <1>5, Always

LEMMA NativeThrowsStep == ASSUME KeepsRules, IInv, TypeOK', NativeThrows PROVE IInv'
<1>1. /\ acts # <<>> /\ ~throwing /\ Top.kind = "native" /\ MayFail(acts)
      /\ Top.via = "call" /\ LeavesNative(Top.via) /\ UNCHANGED <<current, open, told, fault>>
  BY DEF NativeThrows, TopIs, MayThrow, KeepsRules
<1>2. acts' = Below /\ throwing' = FALSE /\ raised' = TRUE /\ error' = TRUE
  BY <1>1, Zenon DEF LeavesNative
<1> QED BY <1>1, <1>2, NativeFails
-----------------------------------------------------------------------------
(* The invariant, and what follows from it.                                *)

LEMMA InitInv == Init => IInv
<1> SUFFICES ASSUME Init PROVE IInv
  OBVIOUS
<1>1. TypeOK BY InitTypes
<1>2. Frames(acts) BY NoFrames DEF Init
<1>3. NoFault /\ SlotsMatchStack /\ (acts = <<>> => current = 0) /\ AfterError /\ Thrown
  BY DEF Init, NoFault, SlotsMatchStack, AfterError, Thrown
<1>4. AboveClosed BY DEF Init, AboveClosed
<1>5. Answered BY DEF Init, Answered
<1> QED BY <1>1, <1>2, <1>3, <1>4, <1>5 DEF IInv

LEMMA StepInv == KeepsRules /\ IInv /\ [Next]_vars => IInv'
<1> SUFFICES ASSUME KeepsRules, IInv, [Next]_vars PROVE IInv'
  OBVIOUS
<1>1. TypeOK' BY StepTypes DEF IInv
<1>2. CASE UNCHANGED vars
  <2>1. SlotsMatchStack' BY <1>2 DEF vars, IInv, SlotsMatchStack, Lowest, Scripts
  <2>2. Frames(acts') /\ NoFault' BY <1>2 DEF vars, IInv, NoFault
  <2>3. AboveClosed' /\ (acts' = <<>> => current' = 0)
    BY <1>2 DEF vars, IInv, AboveClosed
  <2>4. AfterError' BY <1>2 DEF vars, IInv, AfterError, TopIs, Running, Top
  <2>5. Thrown' /\ Answered' BY <1>2 DEF vars, IInv, Thrown, Answered
  <2> QED BY <1>1, <2>1, <2>2, <2>3, <2>4, <2>5 DEF IInv
<1>3. CASE ScriptRuns
  BY <1>1, <1>3, PushScopeStep, PopScopeStep, ReturnsStep, FailsStep, CallsEvalStep,
     CallsScriptStep, CallsNativeStep DEF ScriptRuns
<1>4. CASE Unwinds
  BY <1>1, <1>4, ExecuteEndsStep, ResumesStep, EvalEndsStep, PassesScriptStep,
     PassesNativeStep, CatchesStep DEF Unwinds
<1>5. CASE NativeEnds BY <1>1, <1>5, NativeReturnsStep, NativeThrowsStep DEF NativeEnds
<1>6. CASE HostCalls \/ HostRuns \/ NativeCalls
  BY <1>1, <1>6, HostCallsStep, HostRunsStep, NativeCallsStep
<1> QED BY <1>2, <1>3, <1>4, <1>5, <1>6 DEF Next

LEMMA Invariance == ASSUME KeepsRules PROVE Spec => []IInv
<1>1. Init => IInv BY InitInv
<1>2. IInv /\ [Next]_vars => IInv' BY StepInv
<1> QED BY <1>1, <1>2, PTL DEF Spec

(* No slot or block is touched that is not there; the slots are those of   *)
(* the script functions on the C++ stack, in order, with the blocks each   *)
(* of them opened; and between two calls of the host no slot is taken and  *)
(* no block is open, however the last one ended.                           *)
THEOREM SlotsFollowStack == ASSUME KeepsRules PROVE Spec => []FramesMatch
<1>1. IInv => IdleIsClean
  <2> SUFFICES ASSUME IInv, acts = <<>> PROVE current = 0 /\ \A s \in Slot : open[s] = 0
    BY DEF IdleIsClean
  <2>1. current = 0 BY DEF IInv
  <2>2. \A s \in Slot : s >= current BY <2>1 DEF Slot
  <2> QED BY <2>1, <2>2, Always DEF AboveClosed
<1>2. IInv => FramesMatch BY <1>1 DEF IInv, FramesMatch
<1> QED BY <1>2, Invariance, PTL

(* Nothing is executed after an error until vm_execute has dealt with it,  *)
(* and the host's call throws exactly if something failed in it, whatever  *)
(* natives caught on the way.                                              *)
THEOREM ErrorsAreHeard == ASSUME KeepsRules PROVE Spec => []ErrorsHeard
<1>1. IInv => HostIsTold BY DEF IInv, HostIsTold, Answered
<1>2. IInv => StopsAtError
  <2>1. acts = <<>> => ~Running BY DEF Running, TopIs
  <2> QED BY <2>1 DEF IInv, StopsAtError, AfterError
<1>3. IInv => ErrorsHeard BY <1>1, <1>2 DEF ErrorsHeard
<1> QED BY <1>3, Invariance, PTL
=============================================================================
