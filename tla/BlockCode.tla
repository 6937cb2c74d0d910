------------------------------ MODULE BlockCode ------------------------------
(***************************************************************************)
(* The byte code of blocks, conditionals and loops, and the virtual        *)
(* machine that runs it.  The compiler emits one function in a single      *)
(* pass: PUSH_SCOPE is inserted at the start of a block once the block     *)
(* turned out to have variables, break and continue are jumps linked when  *)
(* their loop or switch is complete.  Expressions are single instructions  *)
(* and conditions may have either value.                                   *)
(***************************************************************************)
EXTENDS Integers, Sequences
LOCAL INSTANCE SequencesExt

CONSTANTS Programs,   \* bodies of functions, as ScriptFlow describes them
          MaxBlocks   \* ZS_SCOPE_MAX_INNER_SCOPES_FUNCTION

ASSUME MaxBlocksAssumption == MaxBlocks \in Nat \ {0}

VARIABLES prog,    \* the source
          code,    \* its byte code
          pc,      \* instruction_it; 0 once the function has returned
          blocks,  \* scope_block[0 .. current_scope_block) of the function
          height,  \* operands between stk_start and vm_stk_current
          here     \* the statement or condition run last

codeVars == <<prog, code, pc, blocks, height, here>>
-----------------------------------------------------------------------------
(* The compiler.                                                           *)

Single(op) == [op |-> op]
Jump(op, offset) == [op |-> op, offset |-> offset]
Does(op, at, part) == [op |-> op, at |-> at, part |-> part]
PushScope(at, own) == [op |-> "push", block |-> [at |-> at, own |-> own]]

(* compiler_check_scope: a loop body is always a scope of its own.         *)
ScopedUnlessEmpty(own, loop, at, inner) ==   \* mutant: as any other block
  IF own THEN <<PushScope(at, own)>> \o inner \o <<Single("pop")>> ELSE inner

Scoped(own, loop, at, inner) ==
  IF own \/ loop THEN <<PushScope(at, own)>> \o inner \o <<Single("pop")>>
  ELSE inner

(* link_loop_break_continues: break jumps to the last instruction of the   *)
(* loop, an extra POP_SCOPE; continue to the POP_SCOPE that ends the body. *)
LinkToStart(loop, again) ==   \* mutant: continue jumps to the start of the loop
  [i \in DOMAIN loop |->
     CASE loop[i].op = "break" -> Jump("jmp", Len(loop) - i)
       [] loop[i].op = "continue" -> Jump("jmp", 1 - i)
       [] OTHER -> loop[i]]

Link(loop, again) ==
  [i \in DOMAIN loop |->
     CASE loop[i].op = "break" -> Jump("jmp", Len(loop) - i)
       [] loop[i].op = "continue" -> Jump("jmp", again - i)
       [] OTHER -> loop[i]]

While(load, body) ==
  LET loop == <<load, Jump("jnt", Len(body) + 3)>> \o body
              \o <<Jump("jmp", -(Len(body) + 2)), Single("pop")>>
  IN Link(loop, Len(loop) - 2)

DoWhile(load, body) ==
  Link(body \o <<load, Jump("jt", -(Len(body) + 1)), Jump("jmp", 2), Single("pop")>>,
       Len(body))

(* Without a condition the loop is taken to start at its init.             *)
For(init, load, body, post) ==
  LET cond == IF load = <<>> THEN <<>> ELSE load \o <<Jump("jnt", Len(body) + 4)>>
      start == IF load = <<>> THEN -(Len(init) + Len(body) + 1) ELSE -(Len(body) + 3)
  IN init \o Link(cond \o body \o <<post, Jump("jmp", start), Single("pop")>>,
                  Len(cond) + Len(body))

If(load, then, else) ==
  IF else = <<>> THEN <<load, Jump("jnt", Len(then) + 1)>> \o then
  ELSE <<load, Jump("jnt", Len(then) + 2)>> \o then
       \o <<Jump("jmp", Len(else) + 1)>> \o else

(* A switch of which only the default is given keeps just the bodies.      *)
Switch(load, bodies, default) ==
  LET n == Len(bodies)
      offset[j \in 1 .. n + 1] ==
        IF j = 1 THEN 0 ELSE offset[j - 1] + Len(bodies[j - 1])
      labels == SelectSeq([j \in 1 .. n |-> j], LAMBDA j : j # default)
      size == 2 * Len(labels)
      tests == FlattenSeq([l \in 1 .. Len(labels) |->
                 <<Single("token"),
                   Jump("je", offset[labels[l]] + (size + 1) - 2 * l + 1)>>])
      other == IF default = 0 THEN Jump("jmp", offset[n + 1] + 1)
               ELSE Jump("jmpcase", offset[default] + 1)
      all == <<load>> \o tests \o <<other>> \o FlattenSeq(bodies)
  IN IF offset[n + 1] = 0 \/ labels = <<>> THEN FlattenSeq(bodies)
     ELSE [i \in DOMAIN all |->
             IF all[i].op = "break" THEN Jump("jmp", Len(all) - i + 1) ELSE all[i]]

(* The statements of body from the i-th on, at place p.  The break that    *)
(* ends a case is a jump unless it ends the last one.                      *)
RECURSIVE Code(_, _, _)
Code(body, i, p) ==
  IF i > Len(body) THEN <<>> ELSE
  LET s == body[i]
      q == Append(p, i)
      Block(b, n, loop) == Scoped(s.own, loop, Append(q, n), Code(b, 1, Append(q, n)))
      load == Does("load", q, "at")
      one ==
        CASE s.kind = "do" -> <<Does("do", q, "at")>>
          [] s.kind = "return" -> <<load, Single("ret")>>
          [] s.kind \in {"break", "continue"} -> <<Jump(s.kind, 0)>>
          [] s.kind = "block" -> Block(s.body, 1, FALSE)
          [] s.kind = "if" -> If(load, Block(s.body, 1, FALSE), Block(s.other, 2, FALSE))
          [] s.kind = "while" -> While(load, Block(s.body, 1, TRUE))
          [] s.kind = "until" -> DoWhile(load, Block(s.body, 1, TRUE))
          [] s.kind = "for" ->
               Scoped(s.init, FALSE, Append(q, 0),
                      For(IF s.init THEN <<Does("do", q, "init")>> ELSE <<>>,
                          IF s.cond THEN <<Does("load", q, "cond")>> ELSE <<>>,
                          Block(s.body, 1, TRUE),
                          Does("do", q, "post")))
          [] s.kind = "switch" ->
               LET n == Len(s.cases)
               IN Switch(load,
                         [j \in 1 .. n |->
                            Code(s.cases[j].body, 1, Append(q, j))
                            \o (IF s.cases[j].breaks /\ j < n
                                THEN <<Jump("break", 0)>> ELSE <<>>)],
                         s.default)
  IN one \o Code(body, i + 1, p)
-----------------------------------------------------------------------------
(* The virtual machine.                                                    *)

Start == [at |-> <<>>, part |-> "start", open |-> <<>>]
End == [at |-> <<>>, part |-> "end", open |-> <<>>]

(* vm_execute_script_function opens the function's own block.              *)
CodeInit == /\ prog \in Programs
            /\ code = Code(prog, 1, <<>>)
            /\ pc = 1
            /\ blocks = <<[at |-> <<>>, own |-> TRUE]>>
            /\ height = 0
            /\ here = Start

Runs(op) == pc \in DOMAIN code /\ code[pc].op = op
By(offset) == pc' = pc + offset

Open == LET own == SelectSeq(blocks, LAMBDA b : b.own)
        IN [i \in DOMAIN own |-> own[i].at]

Notice == here' = [at |-> code[pc].at, part |-> code[pc].part, open |-> Open]

(* A statement; it ends with RESET_STACK.                                  *)
Statement == /\ Runs("do")
             /\ Notice
             /\ height' = 0
             /\ By(1)
             /\ UNCHANGED <<prog, code, blocks>>

Load == /\ Runs("load")
        /\ Notice
        /\ height' = height + 1
        /\ By(1)
        /\ UNCHANGED <<prog, code, blocks>>

LoadToken == /\ Runs("token")
             /\ height' = height + 1
             /\ By(1)
             /\ UNCHANGED <<prog, code, blocks, here>>

(* BYTE_CODE_JE_CASE keeps the value of the switch for the next case.      *)
JumpEqualCase ==
  /\ Runs("je")
  /\ \/ height' = 0 /\ By(code[pc].offset)
     \/ height' = height - 1 /\ By(1)
  /\ UNCHANGED <<prog, code, blocks, here>>

JumpCase == /\ Runs("jmpcase")
            /\ height' = 0
            /\ By(code[pc].offset)
            /\ UNCHANGED <<prog, code, blocks, here>>

JumpIf == /\ Runs("jnt") \/ Runs("jt")
          /\ height' = height - 1
          /\ By(1) \/ By(code[pc].offset)
          /\ UNCHANGED <<prog, code, blocks, here>>

(* A jump that was never linked has offset 0.                              *)
JumpAlways == /\ Runs("jmp") \/ Runs("break") \/ Runs("continue")
              /\ By(code[pc].offset)
              /\ UNCHANGED <<prog, code, blocks, height, here>>

(* ZS_VM_PUSH_SCOPE does not look at the end of scope_block; what is        *)
(* overwritten beyond it is not modelled.                                  *)
OpenBlock == /\ Runs("push")
             /\ Len(blocks) < MaxBlocks
             /\ blocks' = Append(blocks, code[pc].block)
             /\ By(1)
             /\ UNCHANGED <<prog, code, height, here>>

Pop == /\ Runs("pop")
       /\ blocks' = SubSeq(blocks, 1, Len(blocks) - 1)
       /\ By(1)
       /\ UNCHANGED <<prog, code, height, here>>

(* BYTE_CODE_RET or the end of the function: every block is popped.        *)
Return == /\ Runs("ret") \/ pc = Len(code) + 1
          /\ here' = End
          /\ blocks' = <<>>
          /\ height' = 0
          /\ pc' = 0
          /\ UNCHANGED <<prog, code>>

CodeNext == \/ Statement \/ Load \/ LoadToken \/ JumpEqualCase \/ JumpCase \/ JumpIf
            \/ JumpAlways \/ OpenBlock \/ Pop \/ Return

CodeSpec == CodeInit /\ [][CodeNext]_codeVars

(* The machine runs one instruction after the other.                       *)
FairCode == CodeSpec /\ WF_codeVars(CodeNext)
-----------------------------------------------------------------------------
(* The code does what the source says: statements and conditions run in an *)
(* order the control statements allow, and whenever one runs the open      *)
(* blocks are those around it in the source, so that its variables exist   *)
(* and all others are gone.                                                *)
Source == INSTANCE ScriptFlow
ImplementsSource == Source!Spec

(* Jumps stay inside the function, and scope_block, whose length           *)
(* ZS_VM_PUSH_SCOPE takes for granted, never overflows or underflows: the  *)
(* blocks of a running function are the function's own and no more than    *)
(* the source nests.                                                       *)
BlocksFit ==
  /\ pc \in 0 .. Len(code) + 1
  /\ pc # 0 => Len(blocks) >= 1
  /\ Runs("push") => Len(blocks) < MaxBlocks

(* A return finds the values of its own expression on the operand stack    *)
(* and nothing else.                                                       *)
ReturnsOwnValue == Runs("ret") => height = 1

(* Neither blocks nor values of other statements are left or missing.      *)
CodeFits == BlocksFit /\ ReturnsOwnValue
=============================================================================
