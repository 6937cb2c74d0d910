# A TLA+ model of ZetScript

ZetScript is a script language with a C++ API: a compiler that turns script text
into byte code, a virtual machine that runs it, and an engine that binds C++
functions and types to scripts. The program is single threaded. What makes it hard
is re-entrancy: destructors run inside stores and scope ends, script functions run
inside operators and assignments, native functions call scripts that call native
functions, and any of them can fail in the middle.

Paths below are relative to the repository (`src/src/vm` is the virtual machine).

## 1. The system

| Part | State | Operations | Works with | What is hard | What makes it correct |
|---|---|---|---|---|---|
| share manager (`vm/vm_share_manager.cpp`) | an `InfoSharedPointerNode` per managed object with `n_shares`; a ring `unreferenced_objects` per scope block | create, share, unref, detach, hand over, sweep | called by stores, scope ends, destructors, iterators, the engine | destructors run in the middle of a sweep; the caller says which ring; 16 bit count | rings are whole, hold exactly the unreferenced objects, every one is swept |
| script object memory (`vm/vm_store.cpp`, `vm/vm.tcc`, `core/object/*`) | variables on the stack, `ContainerSlot`s in containers, map of container instances | new, assign, swap, scope end, return, clear | share manager, call frames | an assignment frees what it reads; returned objects; cycles | counts are exact, nothing dangles, a collection is invisible, only cycles leak |
| control flow byte code (`compiler/compiler_keyword_*.cpp`, `vm/vm_script_function.cpp`) | instructions, open scopes, unlinked breaks | one emission per statement, one step per instruction | share manager (scopes) | instructions are inserted and linked afterwards; jumps cross scopes | it runs what the source says, with the right blocks open |
| call frames and errors (`vm/vm.cpp`, `vm/vm_call*.cpp`, `vm/vm_script_function.cpp`) | `vm_scope_function`, `vm_current_scope_function`, `vm_error`, the C++ stack | call, return, fail, throw, unwind, `eval` | everything that calls a script | errors at any nesting of scripts and natives | slots follow the C++ stack, an error stops everything and is told |
| lifetime objects (`vm/vm.cpp:130-185`) | list of results lent to the host | lend, `unrefLifetimeObject` | share manager | who owns a result that had references | what the host holds stays alive until given back, and nothing stays longer |
| operand stack and native call binding (`vm/vm_call.cpp`, `vm/vm_native_function.cpp`) | operand stack, `VarRefScriptObject` | push arguments, convert, push results | object memory | operands are not references | no operand outlives what it points to |
| operators and metamethods (`vm/vm_operation*.h`, `vm/vm_call_metamethod.cpp`) | none of their own | select and call | call frames | results that are temporaries | the right function is called |
| iterators (`vm/vm_iterator.cpp`, `core/object/*Iterator*`) | pointer to the container, position | start, next | share manager | the container changes or dies meanwhile | visits what is there, once |
| script objects and strings (`core/object`) | elements | array, object and string methods | object memory | methods that move or drop slots | slots and counts agree |
| scopes and symbols (`core/scope`) | scope tree, symbols, scopes to remove | register, find, remove unused | compiler, engine | scopes removed after compilation | lookup finds the nearest declaration |
| types and functions (`core/type`, `core/function`, `core/object/function`) | type table, members, cached function in an instruction | register, extend, resolve | engine, virtual machine | overload choice, stale cache | the tables mean what inheritance means; the function called depends on the arguments only |
| expression compiler (`compiler/compiler_expression*.cpp`, `compiler_token_node.cpp`) | token tree | fold by precedence, emit | byte code | instructions are merged and jumped over after they were emitted | value and effects are those of the expression's tree |
| declarations (`compiler/compiler_keyword_{var,function,class}.cpp`, literals) | symbols, functions | declare, emit | scopes | initialisation order | - |
| script engine (`ScriptEngine.cpp`) | symbol, function, string, type and file tables and their check points | compile, run, save, clear | everything | failing compilation, clearing under saved variables | after clear everything is as saved, and names mean what they meant |
| base containers (`base`) | Vector, List, MapInt, MapString | insert, find, remove | everything | ends, empty containers | behave as a sequence or a function |
| dates (`base/DateTime.cpp`, `base/TimeSpan.cpp`) | the `tm` record of a date | move, compare, subtract, print, read | C library | a record that is no date until `mktime` sees it; borrows | a date is the moment its operations add up to |
| json (`module/Json*.cpp`) | the text position, the objects being made | serialize, deserialize | share manager | refused half way, cycles, layout | reading what was written gives it back; a refused text leaves nothing |
| text and numbers (`base/String.cpp`, `core/object/StringScriptObject*.cpp`) | a block of memory with a count and a size; no state for numbers | append, cut, insert, replace, split, find; conversions | C library, script objects | blocks that move, functions of C that stop at the first zero, a text that is unescaped again when it is handed on | a block ends where its count says; a text is what its operations mean |
| built-in modules, command line | - | I/O | - | - | - |

`PROJECT.json` lists the same parts with their sources and status, and under
`hazards` what in this code is hard to test, each at its line, with the properties
that would catch it. Third-party and generated code, samples and tests are no parts.

## 2. Plan

In order of importance.

- A. **Share manager**: `SharedPool` (abstract), `SharedPointers`, proofs. *Done and proved.*
- B. **Object memory**: `ObjectHeap` on top of `SharedPool`. *Modelled, checked and proved.* Left: `delete`, member functions.
- C. **Call frames and errors**: `CallFrames`. *Modelled, checked and proved.*
- D. **Control flow byte code**: `ScriptFlow` (abstract), `BlockCode`. *Modelled and checked.*
- E. **Lifetime objects**, objects between host, scripts and natives: `HostCalls`. *Modelled, checked and proved.* Left: the objects the host makes itself.
- F. **Scopes, symbols, check points of the engine, failing compilation**: `GlobalSlots`. *Modelled, checked and proved.*
- G. **Types and overloads**: `TypeMembers`, `NativeCalls`. *Modelled, checked and proved.* Left: classes the host registers.
- H. **Expressions**, and the accesses, calls and arguments in them: `Expressions`, `Accesses`. *Modelled and checked.*
- I. **Containers and loops over them**: `Containers`. *Modelled, checked and proved.*
- J. **Dates and Json**: `Dates`, `JsonText`. *Modelled and checked.*
- K. **Strings**: `Texts`. *Modelled, checked and proved.* Left: upper and lower case, `findLastOf`, `format`.
- L. **Proofs**. *Done*: all safety properties of `SharedPointers`, `ObjectHeap`, `CallFrames`, `HostCalls`, `TypeMembers`, `NativeCalls`, `GlobalSlots`, `Containers` and `Texts`. Left: what section 7 lists as model-checked only.

Abstract specifications: the pool of temporaries (`SharedPool`), the control flow
of the language (`ScriptFlow`); and, as operators that say what a program means, the
trees of expressions (`Meaning` in `Expressions`, `Denotes` in `Accesses`), the
moments of `Dates`, the values of `JsonText`, and the parts and replacements of `Texts`
(`Parts`, `Swapped`, `Between`).

## 3. The modules

| Module | Models |
|---|---|
| `SharedPool` | what the share manager promises: objects are free, loose or managed, an unreferenced managed object waits in the pool of one block |
| `SharedPointers` | the share manager node by node |
| `ObjectHeap` | script objects in memory while a script runs |
| `ScriptFlow` | which statement may follow which, and the blocks open there, from the language |
| `BlockCode` | the compiler's output for blocks, conditionals and loops, and the machine that runs it |
| `CallFrames` | slots of `vm_scope_function`, activations on the C++ stack, errors and exceptions |
| `GlobalSlots` | the engine between compilations: scopes, symbols, slots, links, saveState and clear |
| `TypeMembers` | classes, their tables of members, super and member calls |
| `NativeCalls` | overloaded native functions, how a call finds one and what it remembers |
| `Expressions` | the code of lists of operands, groups, ternaries and assignments, and what it computes |
| `Accesses` | the code of chains of fields, items and calls, and the operand stack under it |
| `Containers` | the tables and rings of objects and arrays, and loops over them |
| `HostCalls` | objects between the host, scripts and native functions |
| `Dates` | dates, differences, printing and reading |
| `JsonText` | writing and reading Json |
| `Texts` | the blocks of memory of strings, and what scripts do with them |
| `SharedPointersProofs`, `ObjectHeapProofs`, `CallFramesProofs`, `HostCallsProofs`, `GlobalSlotsProofs`, `ContainersProofs`, `TextsProofs` | theorems about the module of that name |
| `LookupProofs` | theorems about `TypeMembers` and `NativeCalls` |
| `MC...` | small instances for TLC; `MCLookup` puts `TypeMembers` and `NativeCalls` into one run, `MCEvaluation` `Expressions`, `Accesses`, `Dates` and `JsonText` (what scripts compute with values), `MCStructures` `BlockCode`, `Containers` and `Texts` (structures of control and of data); these share no state, each behaviour is of one of them |

Composition: `SharedPointers` implements `SharedPool` (`ImplementsPool`), and
`ObjectHeap` is a client that respects `SharedPool` (`UsesSharedPool`); so what
is proved of the nodes is available to the interpreter. Both are checked and proved.
`BlockCode` implements `ScriptFlow`, which is checked.

### SharedPointers

A node is an object's `next`, `previous` and `n_shares`; a ring is `first[b]` and
`last[b]`, the list `unreferenced_objects` of `VM_ScopeBlock` b. `Insert` and `Detach` are
`vm_insert_shared_node` and `vm_deattach_shared_node` assignment by assignment;
a check that fails in the code sets `thrown`. `New`, `Create`, `Share`, `Unref`,
`UnrefTo`, `HandOver` are the operations; `SweepBegin` and `SweepStep` are the
loop of `vm_remove_empty_shared_pointers`, one round of which deletes one object.
Between two rounds only the destructors the loop itself runs act. They give
references up with no block, so that objects die in the middle of the sweep and none
is parked: while `sweep` is set, `Unref` is the only other action.
`n_shares` counts modulo `ShareRange` (2^16 in the code). `refs` is a ghost: the
references callers really hold. `status` and `parked` are ghosts too, the first
for the life of the object, the second for the ring a node is in.

The guards marked "protocol" say what a caller must respect (it gives up only
what it shared, it deletes only what has no shared pointer). `ObjectHeap` shows
that the interpreter does: what it carries out is allowed (`UsesSharedPool`), and under its
rules it asks for nothing that is not (`NoFault`).

### ObjectHeap

A statement is one action that lists, on the stack `work`, what it makes the
machine do, in the order of the code; `Step` runs the list, and a destructor pushes
its own work on top of what it interrupted, as the C++ stack does. No statement starts
before `work` is empty. Every `Do...` operator is a function of the code:
`DoStore` a store to a variable (`vm_store.cpp`), `DoAssign` and `DoLink`
`vm_assign_container_slot`, `DoUnref` `vm_unref_shared_script_object`, `DoDestroy`
`~ObjectScriptObject` and `~ContainerSlot`, `DoSweep` the loop above, `DoPop`
`vm_pop_scope`, `DoReturn` what a call does with its result, `DoUnwind`
`vm_do_stack_dump`, `DoDeref` and `DoUnlink` `vm_deref_cyclic_references`,
`DoGlobals` `clearGlobalVariables`. `fault` records an internal error of the share
manager or an access to deleted memory.

`vm_call` shares an object argument before the called function has a block. If the call
fails in between (`CallFails`: a default value, a refused by-reference argument, too many
calls, no room), that share is nobody's: `DoStrand` takes it before the unwinding, and
`stray` counts per object what was left this way. The counts are exact with it, and what
stays because of it is named in `NothingStays` and `GarbageCleared`; that it should not stay is
the violated property `UnreferencedGoes` (section 6).

The code has defects that end in undefined behaviour (section 6). So that they do
not hide everything behind them, the constant `Rules` names what scripts refrain
from:

| Rule | A script keeps to it when |
|---|---|
| `swap` | the first object of a multiple assignment has another holder or was created in the block that runs the swap |
| `advance` | in `p.f = p.f.g` a variable holds `p.f.g` as well |
| `return` | a returned local object is not held by a slot that dies with the function |
| `item` | a returned field belongs to a container that outlives the function |
| `saved` | what saved variables reach is held by variables as well when the globals are cleared |

The runs `heap`, `heap_clear` and `heap_stray` keep all five, `heap_swap` drops the first. Section 6 says what
happens without each.

### BlockCode and ScriptFlow

A function body is a tree of statements. `Code` is the compiler: it gives the
sequence of instructions for a tree, with the insertion of `PUSH_SCOPE` once a block
turned out to have variables and the linking of `break` and `continue` as relative
jumps (`Link`). The actions are the instructions. A condition may come out either
way and a statement is just noted (`here`). `ScriptFlow` gives the same notes from
the tree alone: a set of edges. `height` is the number of operands a function has on
the stack. Functions that break a rule of `MCRules` are left out; the run `code_leave` lets `leave` be broken:

| Rule | A function keeps to it when |
|---|---|
| `leave` | no `break` or `continue` leaves a nested block with variables |
| `forever` | a `for` with a first statement has a condition |
| `alone` | a `switch` has a case |
| `match` | a `switch` has a default |

### CallFrames

`acts` is the C++ stack: `vm_execute` (called by the host or by a native),
`vm_execute_script_function`, native functions and `eval`. `current` and `open` are
`vm_current_scope_function` and the blocks open in every slot. Index 0 is the main
function's: `vm_execute` lends index 1 to a function the host calls first.
`error` is `vm_error`; `throwing` a C++ exception on its way, `raised` and `told` are
ghosts for what failed in the present call of the host and what the host learnt.
Three ways lead from a script to a function: `vm_call` (guards natives with `try` and
looks at `vm_error`), operators and properties (look at `vm_error`, no `try`), stores
(neither). Rules:

| Rule | A program keeps to it when |
|---|---|
| `setter` | nothing fails in what an assignment calls |
| `operator` | nothing that an operator calls handles the exception of a callback, and its function finds room on the operand stack |
| `throw` | only natives called by `vm_call` throw |
| `retry` | a native whose callback failed calls no further script function |

The rule `operator` stands for a defect without a run: when the function of an operator
fails, `lbl_exit_function` pops slot `vm_current_scope_function - 1` even if the unwinding
of an inner callback has emptied the slots already, and `vm_scope_function[-1]` is
read. The main function is taken to find room on the operand stack; were it not to,
the same index would be touched.

### GlobalSlots

A unit is compiled as a sequence of actions: blocks open and close, names are
declared and used, functions and classes register, another unit is imported in the
middle, and the unit ends or fails. `position` is `Symbol::idx_position`, `locals` the
`local_variables` of the main function, `refs` every instruction that names a slot, with
the symbol it was written for (a ghost), `pending` the functions with unresolved
references, `value` the stack of the virtual machine. `EndUnit` sorts and links
(`compiler_pop_and_compile_function`, `link`); `Clear` truncates the tables to the check points.

| Rule | A script or host keeps to it when |
|---|---|
| `import`, `link`, `const` | imports, imported globals and constants come before the first variable of a block |
| `save`, `late` | the unit before `saveState` has no block and leaves no function unresolved |
| `override`, `extend` | what was saved is not declared again or extended |
| `rerun`, `body` | after clear comes a compilation; after a function that does not compile comes clear |

### TypeMembers and NativeCalls

`table[t]` is the list of member functions a class has, its base's copied first;
`Found` is what the instruction `o.f()` takes, `Nearest` what inheritance means.
`Accepted`, `Castable` and `Convertible` are the three tables of the code that say what an
argument may be: for the search, for taking the remembered function again, and for the
conversion. `lastCall` is `instruction_last_native_call`. `cached` is the symbol an instruction
`o.f()` holds: it meets objects of any class, in any order, and between registrations.
`CallsMostDerived` says when what it holds is right, and what an object gets when it is not.

| Rule | A script or host keeps to it when |
|---|---|
| `extend` | a class gets no members once it is extended |
| `clear` (both modules) | nothing that called a member or a native runs after clear removed it |
| `same code` | a function that has called a native is not redefined |
| `disjoint` | two natives of a name differ in the number of parameters or in a type no value fits both of |
| `float`, `typed` | no float is passed where an `int*` is declared; null, functions and objects of script classes go only to natives that take a stack element |

### Expressions and Accesses

Both compile an expression as the compiler does and run the instructions one a step.
`Expressions` has the splitting by precedence, `BothConstant` and the merge of the last
two instructions (`compiler_expression_optimize.cpp`), the jumps of `?:`, `&&` and `||`, and
the stores that are appended at the end. `Accesses` has the chains: which of the call
instructions is emitted depends on the accessor before the `(`, and each takes its
function and its object from another place of the operand stack. Values on that stack
may be pointers to variables and slots, or references.

| Rule | A script keeps to it when |
|---|---|
| `flat` | a group with `&&`, `\|\|` or `?:` is no operand of an arithmetic or comparing operator |
| `one type` | constants of an expression are of one numeric type, integers not divided by each other |
| `one update` | of several assignments in a row none is `+=` and the like |
| `stack call` | what a call or an item gave is called only where nothing is on the stack |
| `field function` | a call through a field is the call of a method or of a field of `this` |
| `late argument` | nothing changes in the arguments behind a variable passed alone |
| `reference` | a parameter by reference is assigned, updated, passed on or all of a right side; what is passed by reference is a variable of the caller |
| `default` | a default value names no variable |

### Containers

The table of an object is `fields`: items sorted by key, found and inserted by halving
(`MapString`), each with a node of a ring in order of insertion. `array` is the vector of
elements. A loop is an iterator with a node or an index, attached to the ring `refs` of the
container. Rules: `current` (the body does not erase the field a loop stands at),
`shift` (it does not insert or erase elements at or before the index of a loop), `index`
(`insertAt` and `eraseAt` get an index inside the array).

### HostCalls

`frames` are the nested calls of the host, scripts and natives; `entries` the table of
lifetime objects; `node[o]` the shared pointer with its count, its block and the list it is in.
An error (`Throw`) or a call that shares its argument and does not start (`CallFails`, `HostCallFails`)
ends all calls at once (`Unwound`). `stray` counts what nobody takes back then: the share of
the call that did not start, and the extra shares that calls from natives took of temporary arguments.
Rules: `loose` (the host passes no object that has no shared pointer), `operand` (an object is not given
back and its variable not cleared while it waits as an operand).

### Dates and JsonText

A date is the `tm` record; `meant` is a ghost, the moment the operations should add up
to. `Difference` follows `operator-` unit by unit. Rules: `day` (the day exists in the month
reached), `width` (seconds fit 32 bits), `clock` (the later date shows no earlier time of day), `settled`,
`half`, `month` (about printing, see section 6). `JsonText` writes a graph as the
serializer does, lays it out or damages it (the environment), and reads it one lexeme a step with the
objects and shares it makes; `intended` is the tree it stands for. Rules: `cycle` (a
cycle passes through the root), `property` (an object does not have both fields and
written properties), `glued` (no comment directly behind a number or word).

### Texts

A `String` is a block `buf`, indexed from 0, with `count` and `_size`; `NoText` has no block.
`Block` is a zeroed block a text is copied into; `Copied`, `Fitted`, `Grown`, `Appended` and `AppendedChar` are
the ways `base/String.cpp` gets and fills one. `Read` is what a function of C sees: the characters before the first zero.
An action is a method or operator of a script on two strings. `Held` makes the string of
a script: `StringScriptObject::set` unescapes, whatever the text is. `Replacing` and
`Splitting` are the loops of `replace` and `split`, one round of the loop per element of a
recursive function; `Replace` and `Split` follow them with what the script gets. `meant` is a ghost, the characters the
operations should have made, and `told` relates the answer of a question to what it should be: a session
ends with a question or an error. A freed block that is read may hold anything (`AppendText`).

| Rule | A script or host keeps to it when |
|---|---|
| `other` | it does not append a string to itself with `append`, which reads the block it may just have freed |
| `filled` | it does not append, with `append`, a string that has no block |
| `needle` | what it splits by, replaces or looks for is not empty |
| `rest` | `replace` leaves something of a text that was not empty; else the error of `setSubstring` ends it |
| `plain` | a text that is assigned, added, cut or replaced has no escapes, so that unescaping it once more changes nothing |
| `start` | it looks for a text from the first character |

## 4. Runs

| Run | Instance | Distinct states | Shows |
|---|---|---|---|
| `share_manager` | 4 objects, 2 blocks, counts modulo 4, at most 2 references | 36,816 | rings are exact, no internal error, `SharedPointers` with its counts implements `SharedPool`, sweeps end |
| `heap` | 3 objects with 1 field, 1 variable per block, 2 blocks, the main variable saved | 356,894 | no fault, nothing dangles, counts and the container map are exact, only cycles and arguments of calls that did not start stay, collection is invisible, `SharedPool` is respected |
| `heap_clear` | 3 objects with 2 fields, 1 variable, 1 block | 102,506 | clearing the globals of an abandoned heap frees its cycles |
| `frames` | 4 slots, 2 blocks per slot, 8 activations | 125,643 | slots follow the C++ stack, an error stops every script function, is told and ends; idle means clean |
| `slots` | 2 variables, 1 function, 1 class, 3 variables of main, 2 blocks in a unit, 4 scopes | 787,205 | slots are those of a fresh compilation, names lead to what they were written for, clear restores, values stay |
| `lookup` | 3 classes with a method, an operator and a property, 5 member functions; 2 names of natives, 3 natives, 2 script functions | 341,293 | the copied tables mean inheritance, super steps up, a remembered member function is right for all objects that inherit it and do not override it, a remembered native is what would be found, natives get what they declare |
| `structures` | every single statement, and every statement of depth two within the rules, followed by another; 3 keys, 4 nodes or elements, 2 nested loops; 3 characters, one of them the backslash, 4 texts, up to 4 characters, 3 operations on 2 strings | 537,516 | the byte code implements the control flow, returns its own value only, opens no more blocks than the compiler reserves; table and ring agree, loops visit once what stays, destruction detaches every iterator; blocks end where their count says, texts are what the operations mean, splitting, finding and errors answer what they should |
| `evaluation` | all expressions of `MCExpressions` on 8 starting values; all pairs of accesses of `MCAccesses`; dates: 5 inputs, 4 moves by months, 5 by seconds, 4 formats, 3 operations; 5 values and a document of Json, each laid out or damaged anywhere | 765,620 | value and effects are those of the tree; the operand stack is left as it should be; dates and differences are meant; what is written reads back, a refused text leaves nothing |
| `host` | 2 objects, 2 variables, 3 nested calls, 2 operands, 2 entries | 2,046,732 | nothing held is deleted, shares are exact, nothing leaks but what errors leave a share of |
| `heap_swap` | `heap` without the rule `swap` | - | violates `NoFault` |
| `heap_stray` | `heap` | - | violates `UnreferencedGoes` |
| `code_leave` | depth two without the rule `leave` | - | violates `ImplementsSource` |

Section 6 says what each violation shows. Why the bounds are enough:

- Rings: insert and detach look at a node, its two neighbours and the ends. Four nodes make all of these different, two blocks show that the other list is left alone. The proofs need no bound at all.
- Heap: three objects make chains, trees, and cycles of one, two and three; two blocks make a temporary of a block that is not the one it is stored from. `heap_clear` gives each object two fields, so that cycles share objects; the host clears when no function runs, hence one block. The code has no limit to the shares that calls leave; one (`MaxStray`) is an object that has lost its count, and the proofs have no bound.
- Control flow: linking looks at the construct that is completed and the one around it, so depth two with a statement after either shows every pair of constructs; `break` and `continue` out of blocks with variables are the rule `leave`.
- Frames: eight activations hold host, script, native, callback, script, native, callback, script: an error that crosses two natives. With four slots the limit of calls is reached before and inside a callback. `MaxNest` is a bound of the model, at which nothing new is called.
- Slots: three variables are a global, a variable of a block between and a global after it, the shortest unit whose slots are sorted into another order; two blocks can follow or nest. With one function and one class each may be declared in a unit that fails and again later.
- Lookup: three classes are the shortest chain in which a call can skip one. Two natives of one name and one of another are the shortest list in which a search may take the wrong one and `clear` removes a part.
- Containers: four nodes make every position of an insertion into, and an erasure from, the sorted table and the ring; two loops make an inner iterator that changes what the outer one stands at.
- Evaluation: the merge looks at two instructions, so lists of three and four operands put every operator before and behind every kind of operand; a pair of accesses puts each under each other as operand, item, field, argument, target and right side.
- Host: three calls are host, script, native callback. Two objects are one that is handed over and one that is held. `MaxStray` is as in the heap.
- Dates: a date moved by months, moved by days and subtracted needs three operations; the inputs are the ends of a year, of a leap February, and dates that do not exist.
- Texts: four characters hold a text to look for with one before and one behind it, or twice; room for two more makes an append that fits, one that fills the block and one that moves it; three operations make, change and ask. The proofs have no bounds.

The bounds by name: `MaxRefs` (references held at once) and `ShareRange` (2^16 in the
code) of `SharedPointers`; `MaxDepth` (scope blocks of all active functions) of
`ObjectHeap`; `MaxStray` (shares an object loses before calls stop failing to start) of `ObjectHeap` and `HostCalls`; `MaxBlocks` of `BlockCode` (`ZS_SCOPE_MAX_INNER_SCOPES_FUNCTION`, which
nothing checks at run time: `CodeFits`) and of `CallFrames` (blocks one function opens);
`MaxCalls` (`ZS_VM_FUNCTION_CALL_MAX`, 100 in the code) and `MaxNest` (activations on the
C++ stack) of `CallFrames`; `MaxLocals`, `MaxOpened`, `MaxScopes` of `GlobalSlots`;
`MaxFunctions` of `TypeMembers`; `MaxNatives` of `NativeCalls`; `MaxLoops`, `MaxNodes` of
`Containers`; `MaxFrames`, `MaxOperands`, `MaxEntries` of `HostCalls`; `MaxOps` of `Dates`;
`MaxLays`, `MaxNest` of `JsonText`; `MaxLength`, `MaxSteps` of `Texts`. `MaxCalls`, `ShareRange` and the `MaxBlocks` of
`BlockCode` are limits of the program; at the others the models stop going deeper.

`CHECK_DEADLOCK FALSE` stands where the program does stop: a function after its
return (`BlockCode`), an expression that has been computed, a session or a text that is over (`MCEvaluation`), a container
that is dead or a session with texts that is over (`MCStructures`), and where only the bounds stop
it (`HostCalls` with all objects deleted, `MCLookup` with all functions registered).

## 5. Fairness

The program is single threaded and nothing outside delays it: a loop that can go on
goes on. So `SweepStep`, `Step` of `ObjectHeap`, the instructions of `BlockCode` and
the destructor of a container, which detaches its iterators (`DestroyEnds`), are weakly
fair. In `CallFrames` the unwinding (`Unwinds`) is fair for the same
reason, and `NativeEnds` assumes of natives that they return or throw. No fairness is
assumed of script code: a script may run for ever, and `ErrorEnds` says that it
cannot after an error. Conditions are not fair in `BlockCode`. `GarbageCleared` speaks of
the globals being cleared and assumes only that the statement that clears them goes on.

## 6. Findings

All were reproduced with the program. The three with a run are listed in `PROJECT.json`
with the line they contradict. For those with a rule, the rule keeps the case out of the
passing runs, and leaving it out of the rules of the module gives the trace. Where the first column names a
variable, nothing is kept out: the model does what the code does, and the property says what follows.

| Run or rule | What happens | Where |
|---|---|---|
| run `heap_swap`, rule `swap` | the documented swap `i,j=j,i` of variables of an enclosing block breaks the rings | `vm/vm_store.cpp:341` |
| run `code_leave`, rule `leave` | `break` and `continue` pop one block only | `compiler/compiler_keyword_loop.cpp:28` |
| run `heap_stray` | a call that shared its argument and does not start keeps the share: `function f(o){ f(o); } f({})` leaks the object; a constructor that fails keeps the share of its `this` in the same way (`vm/vm_call.cpp:433`) | `vm/vm_call.cpp:378` |
| `stray` of `HostCalls` | an error in a callback leaves the extra share of its argument, which then leaks (`SharesExact`, `NothingLeaks`) | `vm/vm.cpp:360` |
| `cached` of `TypeMembers` | the instruction `o.f()` compares only the name (`CallsMostDerived`): an object of a class that overrides `f`, or of an unrelated one, gets the function of the first | `vm/vm_container.cpp:92` |
| rule `filled` | `s.append(t)` fails when `t` was made from `""` or cleared, and works when it was emptied in another way | `base/String.cpp:672` |
| rule `start` | `String::find(d,pos)` of the host searches from the first character, whatever `pos` is | `base/String.cpp:609` |
| bound `MaxRefs` | 65536 references to one object wrap `n_shares` to 0 | `vm/vm_share_manager.cpp:88` |
| rule `return` | a returned object that a dying container holds too is dereferenced as any other and dies with it | `vm/vm.tcc:50` |
| rule `advance` | `p.f = p.f.g` deletes the object it assigns | `vm/vm_store.cpp:303` |
| rule `item` | `function f(){ var b={x:{}}; return b.x; }`: the field is read after its container was deleted | `vm/vm_script_function.cpp:380` |
| rule `saved` | `var p={c:{v:7}}; saveState(); clear();` takes `c` out of `p` | `vm/vm.cpp:560` |
| rule `forever` | `for(var i=0;;i++){ if(i>3){ break; } }` sets `i` to 0 in every iteration | `compiler/compiler_keyword_loop.cpp:344` |
| rule `alone` | `switch(v){ default: if(v==7){ break; } break; }`: a `break` that jumps to itself | `compiler/compiler_keyword_conditional.cpp:395` |
| rule `match` | a `switch` without match leaves its value on the operand stack, and the next `return` returns it too | `compiler/compiler_keyword_conditional.cpp:406` |
| rule `throw` | a native called by an operator or property throws: the slots stay taken and no main function runs any more | `vm/vm_call.cpp:36` |
| rule `setter` | a failing setter does not stop the assigning function | `vm/vm_store.cpp:199` |
| rule `operator` | when the function of an operator fails, the slot below the current one is popped even if an inner callback has emptied the slots | `vm/vm_script_function.cpp:77` |
| rule `retry` | a native that goes on after a failed callback lets the outer functions run without their slots | `vm/vm.cpp:362` |
| rule `const` | `{ var t=1 } const K=5`: the store of the constant keeps the index from before the sort, so `K` stays undefined or can be changed | `compiler/compiler_keyword_var.cpp:191` |
| rule `extend` | members a class gets after it was extended are not found in the derived class | `core/type/ScriptTypesFactory.cpp:476` |
| rule `same code` | a function declared again calls the natives its old code called | `core/function/ScriptFunction.cpp:741` |
| rule `clear` | a function that stays calls a native that clear deleted | `vm/vm_call.cpp:487` |
| rules `float`, `typed` | a float finds a native with `int*` and is then refused; null is first not found and later accepted | `vm/vm_native_function.cpp:132` |
| rule `flat` | `(a&&b)==false`, `(c?1:2)+3`: the operator is merged with one branch only | `compiler/compiler_expression_optimize.cpp:430` |
| rule `one type` | `1<2.0`, `1==1.0` and `7/2.0` are folded wrongly | `compiler/compiler_expression_optimize.cpp:57` |
| rule `one update` | chained assignments are carried out from the left | `compiler/compiler_expression_byte_code.cpp:543` |
| rule `stack call` | `1+a[0](2)`: the function stays under the result and becomes the operand | `vm/vm_call.cpp:194` |
| rule `field function` | `[4,a.g(),5]` with a plain function in the field takes the element below for its object | `vm/vm_call.cpp:217` |
| rule `late argument` | `f(x,x++)`: the first argument is read when the call starts | `compiler/compiler_expression_token_symbol.cpp:453` |
| rule `reference` | a parameter by reference is refused as an operand, a global as an argument by reference inside a function | `vm/vm_call.cpp:314` |
| rule `default` | a default value that names a global reads undefined | `compiler/compiler_keyword_function.cpp:420` |
| rule `current` | a loop whose body erases its current field goes on with a freed node | `vm/vm_iterator.cpp:93` |
| rule `index` | `eraseAt` beyond the end reports it and goes on; `insertAt` at the length plus one leaves a slot unwritten | `core/object/ArrayScriptObject.cpp:77` |
| rule `loose` | a returned object without shared pointer that the host passes back is deleted under it | `vm/vm.cpp:179` |
| rule `operand` | an operand whose variable a later call clears is used after it was deleted | `vm/vm_call.cpp:340` |
| rule `clock` | a difference is one day short when the later date has the earlier time of day | `base/DateTime.cpp:556` |
| rule `settled` | after `addMonths(-1)` in January the month shows 0 until a comparison | `base/DateTime.cpp:343` |
| rules `month`, `half` | formats are lower-cased, so that months print as minutes; `tt` before `hh` loses the afternoon | `base/DateTime.cpp` |
| rule `width` | `addDays` overflows beyond 24855 days | `base/DateTime.cpp` |
| rule `cycle` | a cycle that does not pass through the root recurses without end | `module/JsonSerializeModule.cpp:111` |
| rule `property` | no comma is written between fields and properties | `module/JsonSerializeModule.cpp:111` |
| rule `glued` | a comment directly behind a number makes it undefined | `module/JsonDeserializeModule.cpp:119` |
| rule `other` | `s.append(s)` reads the block of `s` after it was freed, if the block had to grow | `base/String.cpp:667` |
| rule `needle` | `split("")` and `replace("",d)` never end | `base/String.cpp:335` |
| rule `rest` | `replace` fails when it would leave nothing: `"a".replace("a","")` | `base/String.cpp:502` |
| rule `plain` | a string with a backslash is unescaped again with every assignment: after `t=s`, `t.length` may be less than `s.length` | `core/object/StringScriptObject.cpp:302` |

The code also differs from what one expects in these ways, which the models follow
and no property forbids: rights of a list of assignments are evaluated from right to left;
`x=f()` with `return 1,2,3` stores the 3; a rest parameter without arguments is undefined;
operators of a base class are not used for objects of a derived one (the table by operator that
`core/type/ScriptTypesFactory.cpp` fills per type is not copied; `TypeMembers` has the functions, not that table); Json accepts a
trailing comma and trailing text, and reads every number as a float.

## 7. Proofs

Nine modules are proved about, for every value of their constants, in eight modules of proofs:

| Module | Theorem | Property | Rules it needs |
|---|---|---|---|
| `SharedPointers` | `TypeCorrect`, `CountsCorrect`, `RingsCorrect`, `NeverThrows`, `TemporariesReached`, `OnlyTemporariesReached`, `SweepLeavesNothing`, `PoolImplemented` | all that `share_manager` checks but `SweepEnds`, and the count of references | `MaxRefs < ShareRange` |
| `ObjectHeap` | `HeapInvariant` | `TypeOK` and what the others rest on | none |
| | `NothingEverDangles`, `BooksStayExact`, `NothingEverStays` | `NothingDangles`, `BookkeepingExact`, `NothingStays` | none |
| | `PoolRespected` | `UsesSharedPool` | none |
| | `CollectionStaysInvisible` | `CollectionInvisible` | `saved` |
| | `NothingEverFaults` | `NoFault` | `swap`, `advance`, `return`, `item` |
| `CallFrames` | `TypeCorrect` | `TypeOK` | none |
| | `SlotsFollowStack`, `ErrorsAreHeard` | `FramesMatch`, `ErrorsHeard` | all |
| `HostCalls` | `PlacesAlive`, `SharesCounted`, `NobodyForgotten` | `NothingDangles`, `SharesExact`, `NothingLeaks` | all |
| `NativeCalls` | `MarksAndTypes` | `NativesTyped`, `MarkedWhenShared` | none |
| | `CallsAreRight` | `CallsStayRight` | `same code`, `clear`, `disjoint` |
| | `CallsFit` | `ArgumentsFit` | `same code`, `clear`, `typed`, `float` |
| `TypeMembers` | `TablesInheritAlways`, `SuperAlwaysStepsUp`, `CallsStayMostDerived` | `TablesInherit`, `SuperStepsUp`, `CallsMostDerived` | all |
| `GlobalSlots` | `SlotsStayExact`, `NamesStayRight`, `ClearAlwaysRestores`, `ValuesAlwaysStay` | `SlotsExact`, `NamesRight`, `ClearRestores`, `ValuesStay` | all |
| `Containers` | `FieldsAlwaysAgree` | `FieldsAgree` | none |
| | `LoopsAlwaysExact` | `LoopsExact` | all |
| `Texts` | `BlocksAlwaysHold` | `BlocksHold` | `other` |
| | `TextsAlwaysMeant` | `TextsAreMeant` | `other`, `plain` |
| | `AnswersAlwaysMeant` | `AnswersAreMeant` | all |

The rules are those of section 3, the same that the passing runs keep. Where a theorem needs fewer than
its run keeps, the others do not matter for it. The assumptions on constants are the `ASSUME`s of the modules: kinds
of values (a bound is a number, the null pointer is no object), in `ObjectHeap` that there are finitely many
objects, fields and variables (it counts holders), and in `TypeMembers` that the
name of a method is not that of a metamethod or a field initialiser, in `GlobalSlots` that no
variable has the name by which the model says that a slot holds no variable's value.

### SharedPointers

`MaxRefs < ShareRange`: callers hold fewer
references to an object than `n_shares` has values. Without it the theorems are
false: with as many references as `n_shares` has values the count wraps to zero.

The inductive invariant `IInv`, and why each part is needed:

- `TypeOK`.
- `Rings`: `RingsConsistent` (neighbours point to each other, within one block) does not say that a ring is one cycle, and two cycles would let a sweep end early. Reachability along `next` would need a recursive definition; `RingsWhole` says the same by sets: any set that holds `first[b]` and is closed under `next` holds every node parked in `b`. `FirstIfAny`: an empty ring has no node.
- `LinkedAreTemporaries`: a node is parked exactly if the object is managed and unshared; then `Detach` is never called with a node of no ring, which is what would throw.
- `CreatedInBlock`, `UnmanagedUnheld`: the block to detach from is a block, and objects without shared pointer have no count.
- `SweepAtFirst`: the sweep always stands at the first node, so a node that a destructor removes is not the one remembered.
- `CountsReferences`: `n_shares` is the number of references; inductive as `MaxRefs < ShareRange`.
- `NothingThrown`.

`InsertConsistent`, `InsertWhole`, `DetachConsistent` and `DetachWhole` are the lemmas
about the list functions. Every action is then a case of `IInvStep`. `PoolImplemented`
uses `IInv` to map each action to the action of `SharedPool` of the same name or to a
stutter.

### ObjectHeap

The properties speak of the moments between statements, or of what a script can name; in between there are any number
of interrupted destructors. `IInv` says what holds then, and it asks for no rule: with a rule broken an operation is refused
and `fault` set, and everything else is as exact as before.

- `WorkAre`: which entry of `work` may stand where. A list ends with the sweep, the end of a block, the return or the unwinding that the statement began with; what creates or gives up comes first, so that no destructor comes between an object and its shared pointer; no object is being destroyed twice.
- `CountsAre`: a count is the number of variables and slots that hold the object, plus one while the first entry is about to give it up (`Given`), plus what calls that did not start left (`stray`). This is `CountsExact` where nothing is about to be given up.
- `KindsAre`: an object is free, being created, held, a temporary or being destroyed. So what is held has a count, and what has one is neither deleted nor being destroyed: `NothingDangles` (`HeldLives`).
- `MapIs`: the map has what slots refer to, and what is just being unlinked.
- `PoolsAre`: a temporary waits in the block that the sweep, or the return, still to come will empty. That is why nothing stays.
- `FramesAre`, `DepthIs`: functions own blocks, the result goes below them, blocks that were left are empty.

For `NothingEverStays`, take the objects that no variable reaches. Each of them that has no `stray` share is referred to
by a slot of another of them, and in a finite set of which each has one above it, each is below a cycle: so each is below a
cycle or below an argument of a call that did not start (`CycleAbove`). `PoolRespected` maps each step to a step of
`SharedPool`, or a stutter, by the object it changes (`Kept` for all others).

`CollectionStaysInvisible` adds `Clears`: while `vm_deref_cyclic_references` runs there are only entries that give up, destroy or
unlink before it; what the saved variables reach stays held by variables; what is unlinked is not. What is destroyed has no
holder, so it is not reachable either.

`NothingEverFaults` adds `SafeInv`, about what is still to come. An object about to be stored can be shared when its turn
comes: at once; after it is created; or, as the second of a swap, after the first store has given it up, because someone else
has it or it is then a temporary of the block that created it (`Firm`, the rule `swap`). The object of a slot about to be assigned is held by a
variable, and so is the new source, unless it is new (rule `advance`). What is returned is below the function (`HeldBelow`, rules `return` and `item`), or only its variables
hold it and none of the blocks that are popped deletes it (`Safe`); that survives the destructors in between, as they change
no object that is reached from below (`ReachKept`).

### CallFrames

`FramesMatch` speaks of states without an error only, and an error empties slots while the stack
is still full. What is needed is what may stand on what (`Stacked`: a script runs on top only, natives are
called by scripts, `vm_execute` by the host or a native), that slots grow with the stack (`Increasing`), and what an error
leaves (`AfterError`, `Thrown`): no setter waits, no native will handle an exception above an operator that waits
(`NoHandler`, `NoCallAbove`), and the functions that still have to leave a slot have it (`HasSlot`). The last is what each
of the four rules protects. `Match` takes the stack, the index and the blocks as parameters, so that the lemmas about a call,
a return and an exception (`TopSlot`, `CallerStack`, `EnterStep`, `PopSlots`) are about any stack.

### HostCalls

Operands and the arguments of natives have no share of their own, so that nothing dangles
for three different reasons (`Reached`): an object is `Anchored` by a variable, an entry, the parameter of
a call that ends later or a share that an error left; it is a `Temporary` of that call's block and of no other place; or it is `Lent`, one that was a
temporary until a call of the host above took the extra share of it. `Extra` says of the last that nothing else counts
between the two. `Counts` is `SharesExact`, `Listed` says where an object without a share waits, `Known` that
the dead are nowhere. All are per object (`Fits(x)`), so that a step that is about one object leaves the others by one lemma.

### NativeCalls and TypeMembers

`RunsTheCode` and `Overloads` (natives of a name differ, pairwise) make what an instruction remembers the only
answer a search could give; the three tables of the code are compared entry by entry (`AcceptedConverts`,
`CastAccepted`, `ConvertedFits`). `MarkedWhenShared` survives `clear` without a rule, as the marks stay on what is left.

In `TypeMembers` the tables are sequences copied from the base, and the property is about the chain
of classes. `Tables` says which functions are in a table, by owner and in order, and `Lookup` is described by what it is
(`IsLookup`), so that a registration has to be followed only for the names it adds; `Fields`,
`Supers`, `Props` and `Calls` are the parts for initialisers, super, properties and remembered functions. The last says
that what an instruction holds exists and has its name, and that no class declares a method twice; so what it holds can be wrong
for an object only if a nearer class declares the name, or the object's class does not inherit it at all.

### GlobalSlots

No property is inductive: they speak of the moments when the host may act, and between them a unit
registers variables out of order and fails anywhere. `IInv` says what holds all the while.

- `ScopesAre`, `DeclaredAre`, `LocalsAre`: scopes and names come once, and `locals` and `position` are inverse to each other. This holds in the middle of a unit, so `Sorts`, which compares two counts, is always true when a unit ends (`SymbolsCounted`).
- `InOrder`: between units each symbol has the place of its rank. The order of scopes is total (`BeforeTotal`, `PrecedesOrders`), so ranking is a bijection (`RanksKnown`), and the variables of the main scope come first (`GlobalsRank`).
- `GlobalsFirst` is what the rules `import`, `link` and `const` buy: while the main scope alone has variables, a global is at its final place before the sort, so that what is linked then stays right.
- `RefsAre` says of every reference why its slot is right: the code of the unit follows the sort (`LinkedRefs`), constants, classes and linked functions name globals at their final places, and the others wait in `pending`. `SavedRefsAre`: what was saved names saved variables, so that `clear` leaves nothing behind that it removes.
- `ValuesAre`: a slot holds its own global's value or none, blocks leave theirs empty.
- `TablesAre`, `SavedAre`: entries name entries that exist, and what was saved names what was saved; the rules `override` and `extend` keep that.
- `CheckpointIs`: the first entries of each table are what `saveState` wrote down.
- `Opened`: the block being compiled and those around it are in the table and are not yet pushed.

`ValuesAlwaysStay` follows from one lemma per kind of step: a sort moves the slot, not the value
(`SortKeeps`), a unit that starts cuts the blocks off the end (`StartKeeps`), `clear` the globals after the saved ones (`ClearKeeps`).

### Containers

`IsRing(r, S, ids)` says of a ring that it holds exactly the set `S` in ascending order, with all others unlinked.
Nodes and iterators are numbered in the order in which they are inserted, so the order of
insertion is the order of numbers and the same lemmas serve both rings. Halving is a recursive function of the
width and the lower end, found right by descent on the width. For loops, what stays since a loop began is visited or
left, never both (`GoesOnRight`): the rule `current` keeps the node a loop stands at, `shift` the index.
The destructor takes the first iterator again and again (`Attachments` with `life.next`), and the table needs none of it:
`FieldsAlwaysAgree` holds for every script.

### Texts

The properties are about blocks of memory, the operations are about sequences. `Stands(t, s)`: block `t` is `s`, zeros from there to
its end, or no block and no characters. `Reads` says that the functions of C then see `s`,
and one lemma per operation of `String` says which sequence stands after it (`AppendedStands`,
`HeldStands`, ...; `GrownHasRoom` is the one that says that `inc_slots` always leaves a zero behind). The invariant is then one
line: each string is a block, and stands for `meant` if no text has escapes.

`unescape`, `replace` and `split` are recursive functions. That such a function exists,
and what it returns, is shown by the smallest argument for which it would not (`Least`; `StepsExist` for functions that
count up, `JoinsExist` and `JoinsTyped` for those that go on from a later place). `ReplacingIs`: after every round the copy is
what was made so far followed by the rest of the original, and the next occurrence in the copy is the next one in
the original, because the search goes on behind what was put in. So the result is `Swapped`, and the
error of `setSubstring` comes only if that is empty. `SplittingIs` is the same for `split`, whose copy shrinks from the front.

### What the models owe to the proofs

Some definitions were put another way without changing what they say: how far an exception goes is stated by the place of
the handler instead of a recursion along the stack, records replace functions merged with `@@`, `Chain` and
the halving are recursive functions, not `RECURSIVE` operators, and the two maps and the filter of `GlobalSlots` (`With`,
`Without`) are definitions with lemmas of their own instead of `@@` and `SelectSeq`, about which the library states nothing.

### Model-checked only

- Liveness (`SweepEnds`, `GarbageCleared`, `ErrorEnds`, `DestroyEnds`), which the prover cannot reach.
- `ScriptFlow`, `BlockCode`, `Expressions`, `Accesses` and `JsonText`: their recursion over trees is written with `RECURSIVE` operators, which exclude proofs, and what it computes for every tree needs induction over data.
- `Dates`: the calendar of the C library is arithmetic better sampled.

## 8. Not modelled, and why

- `delete`, member functions as values and objects with destructor functions in `ObjectHeap`: they use the same operations of the share manager, on the same slots.
- Constructors with a share of `this` of their own (`vm/vm_call.cpp:433`), which is given back only if the constructor succeeds, and functions of default values that do more than fail.
- Objects the host makes itself (`newObject...`, `makeObjectShared`), and the conversion of results of scripts to C++ types in `HostCalls`.
- Classes and properties that the host registers (`TypeMembers` has those of scripts), and which overload an operator of a class calls.
- Bit operators, `instanceof`, `in`, `typeof` and anonymous functions in `Expressions` and `Accesses`.
- Loops over strings and over classes with iterator functions of their own.
- Upper and lower case, `findLastOf` and `format` of strings; sorting, joining and concatenation of arrays: functions of their arguments.
- The text of numbers and back: TLC has integers of 32 bits and no floating point.
- The text side of the compiler (tokens, error messages), the calendar and mathematics of the C library, files and console: input and output or functions of another library.
