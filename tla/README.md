# DeZendX: models, checks and proofs

DeZendX is a dumper for PHP op arrays. It is built into PHP 5.2.1: `zend_execute_scripts`
hands every compiled script to `dump_op_array`, which prints the classes, the functions and
the main op array as PHP source. This directory holds TLA+ models of the parts of it whose
behaviour is a matter of order, sharing and failure, the TLC runs that check them, and
proofs checked by TLAPS. Line numbers are those of `src/`.

## 1. The system

### 1.1 Components, their state and operations

Own code is `src/include` (the dumper and its libraries, as compiled into PHP), `src/common`
(library sources shared with other programs of the author) and `src/Encode` (a tool). The
rest is vendored: `src/5.2.1.x` (PHP 5.2.1 with hooks), `src/libxml`, `src/libiconv`,
`src/win32build`. There are no tests and few documents; the comments of the source are the
only statements of intent.

| Component | Source | State | Operations | Modelled by |
|---|---|---|---|---|
| Dump-stack pool | `zend_dump.c` 2975-3328 | `FreeStackList`, `StackList` and a critical section each; `Setting->Lock` | `AllocateStack`, `AllocateStackFromPool`, `FreeStackToPool` | `StackPool`, `OwnedPool` |
| Session and name stacks | `zend_dump.c` 2600-2800, 11545-12107, 19102-19288, 20556-21531 | `Setting->Stack`, `StackPtrList`, `FileName`, `ClassName`, `FunctionName`, `FunctionFlags`, `Function`, `Class` | `dump_op_array`, `dump_op_array_ex`, `dump_class_table`, `dump_function_table`, `dump_class`, `dump_function`, Init, Uninit | `DumpSession` |
| Control lists | `zend_dump.c` 2923-2973, 5533-5674, 10200-11540, 19046-19096 | `Stack->ControlList` (two levels), `Offset`, `Step` | `insert_control_list`, `adjust_control_list_start`, `dump_control_list`, the walk of `dump_op_array_ex` | `ControlList` |
| Jump scanning | `zend_dump.c` 5920-10616 | `ScanList`, `Skip`, `SkipOnce`, jump lists of a dump stack | `scan_control_list`, `find_jmp_*`, `scan_if_list`, `scan_if_logic` | the passes and their lists: `Passes`, `ScanPasses`; their order: `ControlList` |
| Break and continue lists | `zend_dump.c` 5735-5920, 10290-10616 | `BreakList`, `ContinueList` | `insert_cont_brk_list`, `GetBreak`, `GetContinue` | `BreakLists` |
| Opcode handlers | `zend_dump.c` 12110-19046 | variable table, `QmAssign`, `Trinary`, `LargeBuffer`, `Skip` of a dump stack | about 150 handlers | those of operators, `&&`, `\|\|`, `?:`: `Expressions`, with `PhpGrammar` |
| Variable table | `zend_dump.c` 3818-3947 | `ListArray` of a dump stack | `InsertVariableEx`, `UpdateVariableEx`, look-ups, emptying | whose table, when it is emptied: `DumpSession`; text, level and flags of an entry: `Expressions` |
| Stack library | `include/Stack.c`, `common/Stack.c` | arrays with `Bottom`, `Top`, `Max` | push, sorted push, pop at both ends, removal, growth | searches: `SortedSearch`; structures: `SlotStack`, `ValueStack`; sorted pushes and pops of numbers: `ScanPasses` |
| Intrusive lists | `include/ListEntry.h` | `LIST_ENTRY` rings | insert tail, remove head, remove entry | `Lists`, `ListLemmas` |
| Timer stack list | `common/TimerStackList.c` | a stack of items with time-outs, a lock | queue, dequeue, routine that cancels | `TimerStackList` |
| Hash table | `common/Hash.c` | ordered chained hash, internal pointer | add, update, delete, resize, rename, sort, apply | `HashTable`, `OrderedMap` |
| Log library | `AddLog.c` | a buffer, a lock, back ends | `AddLog`, `AddOutput` | no |
| Encode | `Encode.c`, `Encode/Main.cpp` | none across calls | encode, decode, patch a stub | no |
| Text and binary helpers | `ParseString.c`, `Base64X.c`, `Utf8.c`, `MD5.c`, `Map.c`, `Dump.c`, `Search.c`, `ParseSetting.c` | none | conversions, file mapping | no |
| Obfuscated names, printable values, symbol tables, output routing, licence and time hooks, version layer | `zend_dump.c`, `Compatible.c`, `Patch.c` | tables filled once | formatting, look-ups | no |

### 1.2 How they interact

    zend_execute_scripts --compile--> dump_op_array
        dump_class_table, dump_function_table, main --> dump_op_array_ex
            AllocateStackFromPool; SET_GS_STACK, PUSH_GS_STACK, push_function_name_ex
            scan_control_list --insert_control_list--> ControlList, BreakList ...
            for each offset: dump_opcode
                dump_control_list takes ControlList's bottom element, prints brackets
                handler --InsertVariable--> variable table of Setting->Stack
                ZEND_DECLARE_FUNCTION, ZEND_DECLARE_CLASS --> dump_op_array_ex again
            FreeStackToPool; pop_function_name; POP_SET_GS_STACK

Components share state through two structures: the global setting (`GET_GS()`), which says
what is being dumped now, and the dump stack of the op array. The handlers reach the second
through the first (`Setting->Stack`), so it must name the innermost active call whenever a
handler runs. Everything inside `dump_op_array` runs in a `__try` block: an access violation
anywhere in it, in the pool's operations too, ends the dump of that script, and the next script starts
on whatever is left.

### 1.3 What is hard here, and what makes each part correct

* **Pool.** Two lists with a lock each; a stack is in neither between the two. A thread that
  finds the free list empty adds a stack and starts over, so another may take it.
  `FreeStackToPool` reads the first entry of a list before it has the list's lock. Correct:
  one owner per stack, none lost, every request ends.
* **Session.** Re-entrance through declarations, five stacks that must stay in step, calls that
  fail without popping what their caller pushed, exceptions that abandon calls in the middle.
  Correct: the running call always finds its own stack, name, variables and flags.
* **Control lists.** Nesting is nowhere represented: the place of a bracket follows from a
  sort by offset and then by the size of a range, with entries made by four passes in an order
  that is neither outside-in nor inside-out. Correct: the text nests as the source did.
* **Jump scanning.** Five passes share three lists; handlers push on the list that their own
  pass is reading, ahead, behind or at the place it has come to, and delete while it is read.
  Correct: each pass handles its candidates in order unless they have been given up.
* **Break and continue lists.** A plain jump is printed as `break`, as `continue`, as the end of
  an endless loop or not at all, by what two sorted lists say of its target, and the lists get
  their entries from two sources in different orders. Correct: the printed word, compiled again,
  makes the same jump.
* **Expressions.** Brackets rest on a level kept with each text; `&&`, `||` and `?:` are spread over
  several opcodes and remembered in flags of an entry or on stacks no opcode names. Correct: the
  text reads back, by PHP's grammar, as the tree the opcodes compute.
* **Stack library.** Elements are reused, shifted, sorted below `Bottom`. Correct: a stack of
  values behaves as a sequence, whatever is reused underneath.
* **Timers.** Cancel routines run in the list's lock, elements are removed during a walk.
  Correct: each item is answered or cancelled once, and a late one is cancelled.
* **Hash.** Several linked structures per operation with allocations among the steps. Correct:
  an ordered map under every sequence of operations.

`PROJECT.json` lists the hazards at their lines, with the properties that would catch each.

## 2. Plan

Done, in this order: `Lists` and `ListLemmas`; the pool (`OwnedPool`, `StackPool`, proofs);
`DumpSession`; `ControlList`; `Passes` and `ScanPasses`; `SortedSearch` with its proofs; then
`switch` in `ControlList`, `BreakLists`, `SlotStack` and `ValueStack` with their proofs,
`TimerStackList`, `OrderedMap` and `HashTable`, `PhpGrammar` and `Expressions`; then the proofs about
`DumpSession`, `BreakLists`, `ScanPasses`, `TimerStackList` and `HashTable`, and the bound of the pool;
last those about `ControlList`.

Left:

1. `do {} while ( 0 )`, zero-length loops and several catch blocks in `ControlList`; `break` and
   `continue` out of the statements that `ControlList` nests, as a composition with `BreakLists`.
2. `scan_if_logic`: what the stacks of conditions and outputs hold, against a grammar of conditions.
3. A composition of `StackPool` and `DumpSession` (two threads, each with a session) if the
   thread-safe build is to be covered. `Setting->Stack` is one global then: what a thread inserts goes
   to the stack that any thread has set last (3910), and `OwnVariables` would not hold.

## 3. The modules

### 3.1 `StackPool` (with `OwnedPool`, `Lists`)

`freeList` and `useList` are the two lists, head first; `gsLock` is `Setting->Lock` as
`FreeStackToPool` holds it; `pc`, `cur`, `first` are a thread's place in the code and its
locals `Stack` and `ListEntry`; `held` is what callers have got. One action is one critical section
or one access outside any:

| Action | Code |
|---|---|
| `TakeFree` | `ExInterlockedRemoveHeadList( &FreeStackList )`, 3183 |
| `AllocateStack`, `PutFresh` | `HEAP_ALLOC` and initialisation; insertion in `FreeStackList`; the caller's loop starts over, 3254-3258 |
| `Post` | re-initialisation and insertion in `StackList`, 3188-3250 |
| `Release` | `LOCK_GS`, 3275 |
| `ReadFirst` | `ListHead->Flink` with no list lock, 3281 |
| `Scan` | the walk and the unlinking inside `StackListLock`, 3282-3291 |
| `ClearTable`, `Give` | variable table freed (what is in it is a matter of `DumpSession`); inserted in `FreeStackList`, `UNLOCK_GS` |
| `Request` | a caller: `dump_op_array_ex` |

`Scan` needs care. The walk starts at `first`, which may have been unlinked or may be the
list head; `Reached` says it meets the stack exactly if `first` stands before it. The model
does not describe walking from an entry that has left the list, and need not:
`ScanReachesStack` shows that it never happens.

`OwnedPool` is the promise: each stack has one owner or none. The refinement maps `owner` to
the thread whose `held` has the stack.

### 3.2 `DumpSession`

`calls` is the C call stack, one record per active `dump_op_array_ex` ("op") or `dump_class`
("class"), with locals as fields; `entry` is the call of `dump_op_array_ex` that is taking its stack.
`phase` is where `dump_op_array` is. The other variables are fields of the global setting.

| Actions | Code |
|---|---|
| `DumpClassTable`, `DumpFunctionTable`, `DumpMain`; `DumpFunction`, `DumpClass`, `DumpMethod` | a call from the tables; a call from inside another |
| `RemoveFree`, `AllocateStack`, `InsertFree`, `AllocateStackFails`, `InsertInUse` | `AllocateStackFromPool`: the head of the free list; a new stack and its way there, 3254-3258; insertion in `StackList` |
| `PushStack`, `PushFunctionName`, `ScanOpArray`, `InsertVariable` | SET_GS_STACK and PUSH_GS_STACK; `push_function_name_ex`; the scan and the head of a function; a handler |
| `UnlinkStack`, `FreeVariables`, `GiveBack` | `FreeStackToPool`: LOCK_GS and the stack unlinked; its table freed; insertion in `FreeStackList` and UNLOCK_GS |
| `PopFunctionName`, `LeaveOpArray` | `pop_function_name`; POP_SET_GS_STACK |
| `ClassHeader`, `LeaveClass` | UNLOCK_GS behind the header of a class; `pop_class_name` |
| `Exception`, `EndScript` | the `__except` block; the tail |

PHP calls the hooks on one thread, so nothing but an exception comes between two steps. `Exception` may
follow any step inside the `__try` block and abandons the calls as they are. Four steps take two writes
together: LOCK_GS and the unlinking; the insertion in `FreeStackList` and UNLOCK_GS; `Setting->Stack` and
the push on `StackPtrList`; the pop and `Setting->Stack`. Between the writes of the first two there are
only accesses to the setting and to the entries of its lists, which are whole, and no heap or script is
touched; after an exception between those of the others only `Setting->Stack` differs, and
the next call sets it before it is read.

An exception inside `AllocateStackFromPool` or `FreeStackToPool` leaves a stack in neither list, which
nothing puts back, not even `UninitGlobalSetting`: `Lost` has these stacks, and `LostOnce` says that they
are at most one for each script.

`found` is history: what a script finds, or NULL after a fault or under an old `MajorId`, where
flags are left behind. It lets `Balanced` speak of a script without faults that follows one with
faults.

Assumed: the script was compiled (the hook runs before PHP's test for NULL, see the hazards);
no function is named as `DEFAULT_FILE_MAIN`. Left out: trace and licence checks, log files,
what is printed.

### 3.3 `ControlList` (with `OpArray`)

The input is a set of statements with the offsets that PHP 5.2.1's compiler gives them; the
constant `StatementKinds` and the bound `MaxStatements` say which. `RecogniseStatement` inserts the
entries of one statement, in the pass and at the opcode where `scan_control_list` finds it; `MetAfter` is
the order of passes and opcodes, so a script is built in exactly one order. `dump_opcode` is
one round of the walk: `dump_control_list` for the offset, then the handler's bracket for a
`foreach`. `output` is the brackets printed. An element of `controlList` has an offset and two
lists: `List[0]`, `ends`, and `List[1]`, `opens`. `OpArray` has the number of opcodes, which
`BreakLists` shares.

A `switch` has its cases in the order the second scan meets them: all but the last up to the jump
that ends them, then the switch, the last case and SWITCH_END, which gets the range of the last
case (10270). `switch` has cases only, `switchdefault` a case and a default behind it.

Assumed of the input: conditions are compiled variables (a condition with opcodes of its own
moves offsets, it does not change the order), each body has an opcode besides its closing
jump, a try has one catch, two switches are on different variables, a case jumps straight to the
default when it is the last, and a switch has at most two labels. Left out: `do {} while ( 0 )`, the
`Type` entries at the top of a script, RAW mode, and the recognising itself (`find_jmp_*`,
`scan_if_*`), whose input space is all op arrays.

Three conditions say where the text does *not* nest, and `WellNested` fails without them:

* `Ties = FALSE`: no two entries of one list have ranges of one size. `control_else` shows a tie.
* No kind `barefor`. `FOR` is inserted as an end (9734) and ends are printed first, so a
  `for ( ; c; )` at the start of another statement's body is printed before that body is opened.
* No kind `defaultswitch`. A default that comes first has its entry and the switch's at one offset
  (10248); they tie, and the default, found first, is printed before its switch.

### 3.4 `SortedSearch`

Ten searches in stacks of numbers and ten in stacks of structures share one loop (`Stack.c`
539-941 and 1452-1874). A search is its order and what it wants, and `StackFindLargeAsc` etc. are
the ten pairs. A step is a round: `GoUp`, `GoDown`, `Hit` (the `break` on an equal element, where
the functions differ), `Miss` (the loop condition), `Return`. In a descending stack "small" is
to the right, so `StackFindSmallDsc` and `StackFindLargeAsc` are one search in two orders:
`Before` is the order.

Assumed of the input: the stack is sorted, and without equal elements unless an equal one is
looked for; the lists of offsets that are searched for neighbours have each offset once. The
comparison routine of a stack of structures is the order of a number. Left out: the width of
the numbers (the middle is computed so that it cannot overflow).

The condition on equal elements matters: on one, `StackFindSmallEqualAsc` has `Start = Mid`, then
`Start < Mid` (850-856) is false and it returns the element *before*, as do `StackFindSmallEqual*`
and `StackFindLargeEqualDsc` of both kinds of stack. `scan_prev_output` (`zend_dump.c` 5927)
searches with it and misses an output at the end of its range.

### 3.5 `ScanPasses` (with `Passes`)

`scanList` is `ScanList`, each element with its mark for deletion; `skip` and `once` are `Skip` and
`SkipOnce`, sorted stacks read from `bottom` while they are pushed on. `pass` 1 to 4 are the
scans, 5 is the dump. A step is one round: `SkipThis` (8732-8758, the same lines in each scan)
or the handler: `ScanOther`, `ScanListAssign`, `ScanJump`, `scan_if_logic` in the first scan,
`RescanJump` in the others, `DumpSkips` and `DumpHandler` in the dump. `NextScan` is what stands
between two scans: bottoms reset, deleted elements removed (`NotDeleted`). Pushes of several offsets
and the removal are recursive functions, so that the module can be proved about.

What a handler recognises is left open, so its pushes are any sets the handlers of that pass can
push: `RescanJump` stands for all of 9016-10606 and what it calls. `Passes` is the promise. Its marks
are sets that only grow; the refinement reads them off the elements of the queues, popped or
not, since every pass starts from the first again. `handled` is history.

`SkipOnce` is read by every scan from its start: its offsets are left to the dump, the only
pass that does not look at it. Left out: a ZEND_HANDLE_EXCEPTION at the end, RAW mode, the virtual
opcode behind the last one.

### 3.6 `BreakLists`

An optimiser turns ZEND_BRK and ZEND_CONT into plain jumps. The input is the loops of a script
and one jump made from a `break` or `continue`, with what the scans see of the opcodes around it
(`Contexts`): whether it stands behind a RETURN or EXIT, or behind a BRK or CONT, whether control
reaches it, and whether a JMP that leads to a ZEND_CASE stands in front of its target. `FitsIn` says
which of these can be where; such a JMP may end whatever precedes a switch, not only a `default` that
comes first.

`EnterInternal` enters what `brk_cont_array` says (5735-5800), `Recognise` what the second scan
finds; both keep two lists, one sorted by the target of `break`, one by that of `continue`. `SecondEnd`,
`ThirdScan` and `FourthScan` are what the passes make of the jump: nothing, the end of an endless loop,
`break` or `continue`. The third scan leaves out a jump back to what follows a JMP to a case, of any
loop (`ToDefault`, 10335-10346). The fourth leaves out jumps behind BRK and CONT, and behind RETURN and
EXIT those that are a `break` or `continue` (10508-10530). There a target may be one of both words; the
code asks for `break` first. `JumpMeans` compiles the printed word again. `NoJumpLost` says that no jump
is dropped that the script needs, except those in `Overlooked`, the ways in which the code is known
to drop one:

* in front of the jump's target is a JMP to a case. In
  `if ( $b ) { f( ); } else { while ( $c ) { if ( $d ) continue; g( ); } } switch ( $e ) { case 1 : ...`
  the loop begins behind the JMP that ends the `if` and leads to the case, so the `continue` is taken
  for a switch's own jump to its default;
* it stands behind a RETURN, EXIT, BRK or CONT, but another jump leads to it.

Assumed: the second scan finds the bounds of each loop; a condition is one opcode; a switch has
one case. Jumps that a JMPZ has been threaded through are left out. `GetBreakEx` and `GetContinueEx`
have no callers. One condition says where the text is wrong: `Levels = {1}`, for a `break 2` is printed
without its level (10528).

### 3.7 `SlotStack` (with `ValueStack`)

A `COMMON_STACK_T`: `elements` is the array of pointers, those above `Top` included, `content` what
is in each slot. An operation is one step: a stack belongs to one thread. `StackSetMaxT`,
`SlotAtTop` and `Sinks` are growth, the slot a push gets and the loop of a sorted push; any
allocation may fail. `element` and `seen` are what the client last got a pointer to and what it
saw there. `ValueStack` is the promise, a sequence of values.

`FromMiddle = FALSE` is the clients' duty on which all three properties rest: `StackRemoveIndexT`
shifts the pointers down and leaves the last in two slots (2129), so after a removal from the
middle the next push overwrites a live element. In the dumper only the last element is removed
this way; `remove_control_list` would remove others and has no caller. Left out: Init and Uninit
of elements, direct calls of `StackSetMaxT`, and raising `Top` by `StackSetTopT`.

### 3.8 `TimerStackList`

`time` is the clock, `state` where each item is for its thread, `due` its time-out; the stack is that of
3.7 in the copy in `common`. `round` is a call of `TimerStackListRoutine`: `ReadTime` is its caller, which
reads the clock; `StartRound` gets the lock, which may be later; `Turn` and `EndRound` are the loop: after
a removal it goes on to the next index and so passes over the neighbour (439). `RequestTimer` is what
`QueueTimerStackItem(Ex)` does before the lock: a relative time-out becomes a time, an absolute one, past
or to come, stays, and none is permanent. `Queue` and `Dequeue` are critical sections. The items in `Routed`
have a cancel routine, the others leave the list without one. Ids are compared by a difference that wraps
round; `Half` is its range.

A removal leaves the last pointer in two slots (3.7), and here it does matter: a push after a removal
from the middle takes the slot of an item that is in the list, and overwrites it (`common/Stack.c` 2024).
The model does it, and `damaged` remembers that it has happened (`Overwrites`). The properties say
what the list promises until then; slots are used again before, without harm, when what was
removed was last in the list, or when the list is empty. Beyond, nothing holds: an item is lost or
hidden, or answered by another's routine.

Nothing in the repository calls this library, so the clients are the most general ones that use
each item once. A push that gets no memory changes nothing, and a dequeue that finds no item neither.
Left out: the forms without a lock, and cancel routines that call the library.

### 3.9 `HashTable` (with `OrderedMap`)

`table` is `HASH_TABLE` with its buckets: each is in the chain of its slot and in the list of all.
The operations are functions from tables to tables, composed as the code composes them
(`ConnectToBucketList`, `ConnectToGlobalList`, `HashDoResize`, `Unchained`, `Removed`, `Moved`).
Walks (`Along`), `HashRefresh` and the search (`Find`) are recursive functions or least indexes, so that
the module can be proved about; a walk has at most as many steps as there are addresses, so that it
has a value for lists that are not whole, too. There are fewer buckets than words (`HashAssumption`): each
takes up memory, so a renumbering cannot run out of indexes.
`applies` are the running applies: between `StartApply` and `EndApply` a call-back runs, which may
insert, delete, move the internal pointer and apply again. `saved` is a `HASH_POINTER`.
`OrderedMap` is the promise: keys in the order of insertion, a cursor, a next free index.

Nothing in the repository calls this library either. Clients' duties: a call-back does not delete
an element that an apply is at, except by its return code, and does not sort, clear or rename.
Strings have one length. Left out: copies and merges (sequences of updates), `HashCompare` and
`HashMinMax` (no change), where data is kept, Destroy call-backs that use the table, external
iterators, and `ApplyCount`, a guard against deep recursion that `HashApplyWithArgumentEx` decrements
without incrementing (683). `HashSetPointer` may find another element at the saved address.
`RenameFails = FALSE`: without memory `HashUpdateCurrentKeyEx` returns after the element has left its
chain (1084), which breaks `ChainsSound`.

### 3.10 `Expressions` (with `PhpGrammar`)

`PhpGrammar` is the reference: PHP's precedence declarations and a parser that gives a text its
tree. `Expressions` has the compiler on one side, which emits opcodes in postfix order (`work`, and
the tree of each temporary in `means`), and the handlers on the other: `TwoOp`, `OneOp`, `Assign`,
`Cast`, `PrintOf`, `Negated`, `Bool`, `JmpxEx`, `FirstAnswer` and so on are the texts they build from
the entries of the variable table, with the level of the loosest operator. `QmAssign` and `Trinary`
are the stacks of open `?:`. Opcodes that an optimiser merges (BOOL_NOT with a waiting left side,
BOOL with the next JMPZ_EX, JMPNZ for a negated condition) are among the actions.

"v" is any variable and "1" any number; calls, arrays and the silence operator are left out.
`Allowed = {}` excludes the forms in which the text does not mean the code; each put back in
`Allowed` makes `TextMeansCode` fail:

| Form | What happens |
|---|---|
| not prefix | `!` before a text of its own level drops the text's first character, which it takes for a `!` (14941): `!(int)$v` becomes `int)$v` |
| comparison chain | the left operand of `==` or `<` gets no brackets at its own level (8412), which PHP does not parse |
| last ternary | nor does a `?:` as last answer (15085), which PHP reads from the left |
| inner print | `print` has no level of its own (15251) and never gets brackets |
| prefix number | the operand of `~` is not written when it is a number: what an earlier handler left in `LargeBuffer` comes in its place (8270) |
| connected number | a number as right side of `&&` or `\|\|` replaces the left side (15494) |
| arithmetic number | the flags that keep a dot from touching a number are not kept by all handlers (8388) |

## 4. The runs

| Run | Shows | Bounds, and why they are enough |
|---|---|---|
| `pool` | safety of the pool (`TypeOK`, `ExclusiveUse`, `ScanReachesStack`, `PoolBounded`, `NoStackLost`), that each request ends (`RequestAnswered`), and `ImplementsOwnedPool` | 2 threads, 2 stacks held by each, 5 stacks: one more than can be in use, so an excess allocation shows. Hand-overs and theft involve two threads; nesting of two gives lists of more than one entry. No symmetry, since there are temporal properties. |
| `session` | `CurrentCall`, `OwnVariables`, `OwnFlags`, `LostOnce` and `Balanced`, with exceptions behind every step, failing allocations and both kinds of `MajorId`; `TypeOK` has no stack in both lists or twice in one | 2 scripts (what a failed one leaves for the next), 3 nested calls (POP_SET_GS_STACK differs for the first, and there must be one between), 2 flags in wait, 5 stacks (3 calls, those an exception leaves or loses, one to fail). Stacks are symmetric. |
| `session_files` | `FileNamePopped` is violated: a finding | 2 scripts: the second name stays on the first |
| `control` | `ControlTypeOK` (the order at both levels), `WellNested`, `Finished` for every script of up to three statements of nine kinds | 10 opcodes: three loops one in another, or an `if`/`elseif`/`else` with a loop in each of two branches. Deadlock is not checked: a dump ends. |
| `control_else` | `ElseAroundBody` is violated: a finding | 2 statements |
| `breaks` | `JumpMeans`, `NoJumpLost`; `TypeOK` (both lists sorted and of the same entries) | 11 opcodes and two loops of six kinds: every kind in every other, side by side, and with common targets; every opcode that the scans look at in front of the jump and of its target |
| `scan` | `TypeOK` (the queues stay sorted, nothing in Skip is behind the dump) and `ImplementsPasses` for all five passes | 4 opcodes: a condition of two jumps with a ternary behind, and one more. Handlers push up to 2 offsets, both queues hold up to 4: elements below, at and above the bottom, and duplicates. Deadlock is not checked: the dump ends. |
| `expressions` | `TextMeansCode`, `OpenTernaries`, for all expressions | up to 4 opcodes of all operators: every operator under every other, and one with an operator on each side and a fourth anywhere. Up to 7 of `&&`, `\|\|`, `?:`, `!`, `==`: a `?:` in each place of another, chains of connectives with either in any place. The constraint cuts expressions that cannot be finished within the bound. Deadlock is not checked: the bound ends an expression. |
| `search` | `SearchTypeOK`, `FindsEqual`, `FindsNext`, `FindsLast`, `Returns` for all ten searches | every sorted stack of up to six of eight numbers: empty, odd and even lengths, three rounds, arguments below, in the gaps, equal and above |
| `slots` | `TypeOK` (no slot twice), `PointerKept`, `ImplementsValueStack` | an array that grows once from 2 to 4, 5 slots (one can be lost), three values: a sorted push passes none, one, several. Slots are symmetric. |
| `timers` | `TypeOK` (the list is right and searchable), `AnsweredOnce`, `AnsweredInTime` | three threads: first, middle and last of the list, ids apart by one and two; two items with a routine, one without; time to 2 with a relative time-out of 1, an absolute one that is past, and none: one expires while another does not, and a round has its time from before a tick or after it. Items are queued again into slots used before, with harm and without. |
| `hash` | `TypeOK` (no pointer at a freed bucket), `ListSound`, `ChainsSound`, `ApplyMissesNone`, `ImplementsOrderedMap` | three buckets: a chain or list has a first, a middle and a last. Two slots, doubled once when a third element comes; a string that collides with an index under every mask; a word of four values, so that the free index wraps. Two applies, one in a call-back of the other. |

In `hash` the constraint `MCFocus` keeps the instance small: one element at most has the second value,
and while an apply runs or a pointer is saved (never both) the keys are those with the hash values in
`FewHashes` and all values are the same. What it cuts are other names for elements: neither applies
nor pointers look at values or keys, except for the chain that a key is in.

Each property of a passing run has a mutant in `PROJECT.json`: the change of a definition, written
next to it in the module as a slip somebody could make in the code, that breaks the property.

**Fairness.**

* `search`: `WF(Next)`, the loop runs on.
* `pool`: weak fairness of `Inside(t)`, the steps of a thread that is in the pool's code. The
  scheduler runs such a thread eventually, and no step of `Inside` waits for a lock that is held
  across steps: the lists' critical sections are one step, and `LOCK_GS` is taken by `Release`,
  which is not in `Inside`. Nothing is assumed of requests, releases and inserts.
* `timers`: weak fairness of `Tick`, `ReadTime`, `StartRound`, `Turn` and `EndRound`: time goes on, the
  timer calls the routine again and again, and a call gets the lock, which threads hold for one step
  only, and runs to its end. Threads need not do anything.

**Findings.**

* `session_files`: `dump_op_array` ends with "Pop file name" (21527) but pops the function
  name twice; `pop_file_name` has no caller. `FileName` grows with every script.
* `control_else`: in `if ( $a ) { echo 1; } else { while ( $b ) { echo 2; } }` the loop has the
  range of the `else`. `ControlListComparePrefix` (2953) keeps the first of two equal entries in
  front and the loop is found first, so the text is `while ( $b ) { } else {`.

The conditions named in 3.3, 3.4, 3.6, 3.7, 3.9 and 3.10 mark further places where the result is wrong,
without a run of their own; changing the constants named there shows them. `Overlooked` in 3.6 and
`damaged` in 3.8 mark two more, which the runs reach: what the properties say does not cover them.

## 5. Proofs

`ListLemmas` proves what lists keep: appending an entry that is not there, taking the head and
unlinking the k-th entry preserve `NoDuplicates` and change `Elems` as expected.

`InsertedIs` says what putting a value in a sequence does, place by place, and `LeastNumber` and
`PrimitiveRecursion` are induction in a form that can be cited: a set of numbers has a least one, and
there is a function that obeys a recursion given its start and its step.

`StackPoolProofs` proves about `StackPool`, for every finite set of threads, every heap and every
nesting bound: `TypeCorrect`, `PoolExclusive`, `WalkFinds`, `PoolKeepsStacks`, `PoolSize`, and
`Refinement` (`Spec => ImplementsOwnedPool`). The only assumption is `PoolAssumption`: the bound is a positive number, there are finitely many threads, and stacks,
threads, `NULL` and `ListHead` are different things.

None of the properties is inductive. `IInv` adds to them

* `CurInv`: at which labels `cur` is a stack, so that a transition of `pc` is a transition of
  ownership, and that it is an allocated one;
* `LockInv`: the labels of `FreeStackToPool` belong to the thread in `gsLock`: at most one
  thread is between `Release` and `Give`;
* `UseInv`: the stacks in `useList` are those held, and the one of the thread that has not yet
  passed `Scan`: so the walk has something to find;
* `WalkInv`: at `scan`, `first` stands at or before `cur` in `useList`. It is preserved because other
  threads only append, and only the owner of `gsLock` unlinks;
* `Accounted`: where created stacks are: in the free list, held, or with a thread on its way.

The proof has one lemma per action, each with a step per conjunct the action disturbs. In the
refinement, `Post` is `Acquire` (nobody held the stack: `ExclusiveUse`), `Release` is
`Release`, and every other step leaves `held`, hence `owner`, alone.

`PoolSize` counts. `HoldInv` bounds what one thread holds or asks for by `MaxHold`; `CountInv` says
that the stacks created, and those that growing threads are about to create, are not more than
`Cardinality(Threads) * MaxHold`. A thread grows the pool only when the free list is empty, and then
every stack is held or with a thread (`Accounted`): the sum over the threads leaves room for one.

`DumpSessionProofs` proves about `DumpSession`, for any number of scripts, stacks, names and flags and any
depth: `TypeCorrect`, `InnermostIsCurrent` (`CurrentCall`), `VariablesApart` (`OwnVariables`),
`StacksLost` (`LostOnce`), `FlagsOfCaller` (`OwnFlags`) and `ScriptsBalanced` (`Balanced`), from
`SessionAssumption`. `IInv` is

* `CallInv`: outside the `__try` block nothing is active; a frame below others is at the point where it
  calls; `gsStack` is the top of `ptrList`; the flags of a function that has not taken them are on top;
* `PoolInv`: where the stacks are. `StackInv`: the stacks of calls that have not given theirs back are in
  `useList` and different; those on their way (`InTransit`) are in neither list. `TableInv`: a table has
  only variables of the call it belongs to, and none on its way to or in the free list. `LostInv`: each
  script that has ended has lost at most one. It is not `LostOnce` itself: while a script runs, it
  may have lost none, so that an exception can take the one that is on its way;
* `PlaceInv`: there is a place function `p` from the prefixes of `calls` to lengths of `ptrList`, one
  higher with each op array and level with each class, at which the other stacks have what the call
  pushed. `CurrentCall` is not inductive without it: what a return uncovers is the entry of the frame
  below, whose place must be known before. The function is needed because the stacks are longer
  than the calls: exceptions leave entries behind. `FoundBelow` adds, for a script without faults,
  that what it found is a prefix of each stack and that only its active calls have pushed above it;
* `PastInv`: the same of `useList` (`UseInv`), of the flags (`FlagsInv`) and of the lock (`LockInv`). A call's
  stack enters `useList` before `ptrList` and leaves it before, so the two are compared with one in
  advance or in arrears. When no call is left, the stacks are what was found: that is `Balanced`.

The proof has, for each part of the invariant, a lemma for each kind of step that disturbs it: a call
begins, takes its stack, is entered, gives the stack back, ends, an exception.

`StackProofs` proves about `SortedSearch`, for stacks of any length and all integers,
`ResultInStack` (`SearchTypeOK`), `EqualFound`, `NextFound` and `LastFound`. The properties speak of the result
only. The invariant is `LoopInv` (what is left of `start` stands before the argument, what is
from `end` on stands behind it, and the middle is below the end unless the range is empty) and
`EndInv` (the bound that the result is made from divides the stack as the search wants).
`MiddleInRange` is the lemma about the sum of the halves and the carry; that the stack is
sorted carries one comparison to all elements on that side of the middle. The assumption is
`SearchAssumption`: elements are integers.

`StackProofs` also proves about `SlotStack`, for every set of values and slots and every size and growth
of the array, `SlotsDiffer` (`TypeOK`), `PointerStays` (`PointerKept`) and `Refinement`
(`ImplementsValueStack`), from `SlotAssumption` and `~FromMiddle`, the clients' duty of 3.7, which is a
hypothesis of each theorem. The invariant `IInv` is

* `ArrayInv`: the array has some size `m`, `top` is in `0 .. m`, and no slot is in it twice. `TypeOK` writes
  the size as a cardinality; `MaxOfArray` shows that it is `m`;
* `Full`: below `top` every pointer is one, so that what a sorted push compares with, and what the
  client gets, is a slot;
* `PointerInv`: a slot the client has a pointer to is below `top`. This is what makes `PointerKept`
  inductive: a push writes the slot at `top`, which is another one.

`ArrayOfPush` and `SlotOfPush` say what a push does to the array: the part below `top` is as it was, and the
slot that gets the structure is nowhere else. In the refinement `AddRefines` shows that moving
pointers is insertion in a sequence (`InsertedIs`), removals
and cuts are prefixes (`PrefixOfContents`), and reading and failing pushes leave the sequence alone.

`OpArrayProofs` proves about `ControlList`, for op arrays of any length with any number of statements of
the kinds of 3.3, `ControlTypeCorrect` (`ControlTypeOK`), `DumpFinishes` (`Finished`) and `NestedAlways`
(`WellNested`), from `OpArrayAssumption` and `ControlAssumption`. The first two hold of all scripts, with
ties too; `NestedAlways` has the hypothesis `Orderly`, the three conditions of 3.3, without which the
text does not nest.

`WellNested` compares places in a text with places in a script, and between the two lies a list that four
passes have filled. The proof does not follow the list. `Keyed` says of each bracket, from its statement
alone, the offset of the entry that prints it and a rank: `EntryRank` orders the entries of one offset,
small ends, large ends, large openings, small openings, a case behind its switch. The invariant is

* `ScriptInv`, `StepInv`: the statements are apart, and where the walk is;
* `ListInv`: the list is sorted at both levels, no element is empty, and it holds just the entries, at
  their offsets, of the statements known so far that the walk has not come to;
* `OutputInv`: the text has just the brackets with a key at an offset before, each once. With `ListInv` this
  gives `Finished`;
* for `NestedAlways` also `SInv`: no two entries at one offset tie (`TieInv`), the list is in the order of
  the ranks (`ListStrict`), and so is the text (`TextInv`).

That an insertion keeps this is `InsertHolds`, on `StackPushIs`, which says where a sorted push puts its
element; `InsertAllHolds` takes the entries of a statement together. `MarksIs` shows that
`adjust_control_list_start` never moves the start of a `do` here: a range that crosses it would be one of a
statement that is not apart from it (`NoneCrosses`).

`NestIs` is the geometry: the key of a bracket is between the keys of the two brackets of a body just when
its statement is inside the body, or closes it. For the body of another statement the edges decide
(`OpenFirst`, `CloseLast`): either the offsets differ, or they are equal and then the sizes do, since
nothing ties, and the inner range is the smaller one. For bodies of the same statement its plan does
(`TurnIs`). The plan of each kind of statement (`WhilePlan` to `IfPlan`) is checked against the limits of
its bodies: `PlanHolds` for all kinds, `OrderHolds` for all but the two that `Orderly` excludes. `BeforeIs` then
turns the order of the keys into the order of the text.

`OpArrayProofs` also proves about `BreakLists`, for scripts of any length with any number of loops,
`TypeCorrect`, `JumpsPrinted` (`Spec => []NoJumpLost`) and `WordMeansJump`
(`Levels = {1} => (Spec => []JumpMeans)`): the hypothesis is the condition of 3.6, without which the code
prints `break` for a `break 2`. `JumpsPrinted` has none: no jump is lost for any reason but the two named
in `Overlooked`. `IInv` adds to the types

* `ShapeInv`, `NestInv`: the compiled loops have room for their opcodes and are nested or apart;
* `JumpInv`: the jump is in the body of every loop it is in, and leads where one of them is left or continued;
* `EntriesInv`: both lists have entries of loops, and of each that the scan has recognised: all, when
  the last scan asks them;
* `OrderInv`: among entries with one `continue` target those of `brk_cont_array` come first. The last hit
  counts, so that the third scan, which takes a jump to an entry of `brk_cont_array` for the end of an
  endless loop, does so only where no loop was recognised.

`JumpMeans` then is a matter of geometry: `Innermost` and `InnerEndsFirst` say that of the loops around a
jump whose target is that of a word the entry found has the innermost.

`ScanPassesProofs` proves about `ScanPasses`, for op arrays of any length and handlers that push as much as
they like, `TypeCorrect` and `Refinement` (`Spec => ImplementsPasses`), from the module's assumption.
`IInv` has, besides the types,

* `QueuesOK`: the queues have offsets; that they are sorted is in `TypeOK`. `PushIs` shows where a push
  puts its offset, and a recursion over the pushes of a handler (`PrimitiveRecursion`) that all keep it;
* `ListInv`: the first scan has listed only what it has come to, and deleted nothing;
  the dump starts with nothing deleted left;
* `Behind`: what a queue has below its bottom, and what was handled, is behind all that the pass still
  comes to. Without it a push could put an offset below the bottom, where the pass does not see it;
* `PastInv`: each candidate that the pass comes to no more was handled or is marked. That is what
  `Passes` promises.

In the refinement a round of the loop is a step of `Passes`, or a stutter when it only moves a bottom.

`TimerStackListProofs` proves about `TimerStackList`, for every finite set of threads and every interleaving
with rounds and the clock, `TypeCorrect` and `OneAnswer` (`AnsweredOnce`), under the hypothesis
`Separate`: ids are different and differ by less than `Half` (the run's ids do). `IInv` is

* `SlotInv`: as many pointers as slots, and each pointer is at a slot that exists. This much holds even
  when an item has been overwritten;
* `Ordered`, as long as it has not: the items are in strictly ascending order of id. So they differ, and
  `FindIs`, by induction on the length of the range, shows that the binary search finds each. `PushIs`
  says what a push does to the list if the slot it takes is not that of a listed item (`~Overwrites`),
  whatever else is above `Top`;
* `QueuedInv`, likewise: the listed items are those whose threads wait;
* `CancelledInv`, likewise: what has been answered by a cancel routine is `cancelled` for its thread, so no
  longer listed, and not answered again.

`HashTableProofs` proves about `HashTable`, for every finite set of addresses, all keys, hash values and
values, tables of every size and applies inside each other to any depth, `TypeCorrect`, `ListWhole`
(`ListSound`), `ChainsWhole` (`ChainsSound`), `AppliesComplete` (`ApplyMissesNone`) and `IsOrderedMap`
(`Spec => ImplementsOrderedMap`). Each has the hypothesis `~RenameFails`: without memory a renaming
leaves an element in no chain (3.9), which is a fault of the code, and nothing is claimed of what comes
after it. Insertions and resizes may fail as the code lets them.

The properties speak of walks along pointers. A walk is no good in a proof: what it meets after a step can
only be said if the sequence is known, and a step that writes four pointers disturbs every walk. The
invariant therefore names the sequences. `Path(s, first, forth, back)` says that `s` is the doubly linked
list that begins at `first`, place by place; `AlongIs` shows, by induction on the rest that is left, that
the walk meets it. `IInv` says that there is a list `L` with

* `Whole`: the table has its types and counts its elements; `ListOn`: `L` is a `Path` from `head` to
  `tail` and holds the buckets that are there; `ChainsOn`: for each slot there is a sequence that is a
  `Path` from it and holds the buckets whose hash value has that slot under the present size;
* `FramesOn`: each apply is at an element of `L` or at its end, and all that it still owes is at its
  place or ahead of it, in its direction. `ApplyMissesNone` is not inductive without it: it says
  nothing until the apply has come to its end.

The operations are shown to change sequences: `PathAppend` (the end of the list), `PathPrepend` (the head of a
chain), `PathUnlink` (a removal from either), `PathReplace` (an element that moves in memory). Two lists run
through each bucket, so each lemma has its frame: `ChainHeap` and `ListHeap` say that writing one pair of
pointers leaves the other alone. `RefreshIs` is an induction over the list, with the chains of the
elements done so far; `RemovedIs` shows that both ways to find out whether a bucket is the head of its chain
agree; `Loose` is the state inside a renaming, in which one element is in no chain. For the applies
it is enough that each step keeps the order of what stays (`SameOrder`).

In the refinement `Shows` relates a table with its list to the entries and the place of the cursor, so
that each lemma (`AddShown`, `DeleteShown`, `RenameShown`, `SortShown`) is about sequences only. A renaming
is two changes of the table and one step of the map. TLC checks the properties, which
is what the invariant says of the reachable states; it cannot enumerate the sequences of the quantifier.

**Only model-checked:**

* `RequestAnswered`, `Returns` and `AnsweredInTime`: liveness, out of this prover's reach.
* `Expressions`: `PhpGrammar`, the meaning of a text, is RECURSIVE, and its trees are unbounded data.

## 6. What is not modelled

* The text of other expressions (calls, arrays, properties, assignments with operators), printable
  values, names. Formatting; the mechanism, levels and brackets, is that of `Expressions`.
* Recognition of statements from jumps (which choice a handler of `ScanPasses` makes): heuristics
  over arbitrary op arrays; a model would be the code again, and its reference would need a PHP
  compiler.
* Logs, encoders, helpers, file mapping, import and export: platform input and output or pure
  conversions.
* Licence and time hooks, name obfuscation: platform code without state that others share.
* PHP itself (`5.2.1.x`, with `libxml`, `libiconv`, `win32build` by far the most lines of the
  repository): vendored. It appears where it calls the dumper, in the offsets its compiler gives
  to statements, and in its grammar of expressions.
* Memory: leaks of inner stacks (`InitControlList` allocates on every push of a reused slot)
  and address reuse (`Setting->Function` remembers addresses).
