---------------------------- MODULE DumpSession ----------------------------
(***************************************************************************)
(* One process of the dumper, from Init to Uninit: for each script PHP     *)
(* compiles, dump_op_array of src/include/zend_dump.c dumps the class      *)
(* table, the function table and the main op array.  dump_op_array_ex is   *)
(* re-entered when an opcode declares a function or a class, so the stack  *)
(* it works on, the names of the current file, class and function and the  *)
(* flags of the next function are kept in stacks of the global setting.    *)
(* An exception may end the script's dump between any two steps inside the *)
(* __try block of dump_op_array, and HEAP_ALLOC may fail.                  *)
(*                                                                         *)
(* PHP runs the hooks on one thread.  The pool's operations take a step    *)
(* for each change of a list, of a stack's variables or of a lock (module  *)
(* StackPool has their interleavings), because an exception inside them    *)
(* leaves a stack in neither list.                                         *)
(***************************************************************************)
EXTENDS Lists, FiniteSets

CONSTANTS
  Stacks,      (* identities of DUMP_STACK the heap can provide            *)
  Files,       (* script file names                                        *)
  Functions,   (* user functions the scripts define                        *)
  Classes,     (* user classes the scripts define                          *)
  Methods,     (* the methods of each class                                *)
  Flags,       (* values of zend_function.common.fn_flags                  *)
  NoFlags,     (* the value 0 of fn_flags                                  *)
  Main,        (* DEFAULT_FILE_MAIN                                        *)
  NULL,
  MajorIds,    (* values of MajorId a script can have                      *)
  Faults,      (* what may go wrong: "exception", "heap"                   *)
  MaxScripts,  (* bound: scripts one process runs                          *)
  MaxDepth,    (* bound: active calls in which a declaration is dumped     *)
  MaxFlags     (* bound: FunctionFlags left when a declaration is dumped   *)

EXTENSION_ID_1 == 1

ASSUME SessionAssumption ==
  /\ NULL \notin Stacks \cup Flags /\ Main \notin Functions \cup Methods
  /\ NoFlags \in Flags
  /\ MajorIds \subseteq Nat /\ Faults \subseteq {"exception", "heap"}
  /\ MaxScripts \in Nat /\ MaxDepth \in Nat /\ MaxFlags \in Nat

VARIABLES
  phase,          (* where dump_op_array is                                 *)
  calls,          (* the active calls of dump_op_array_ex and dump_class    *)
  entry,          (* the call of dump_op_array_ex that takes its stack      *)
  live,           (* the stacks allocated and not freed                     *)
  freeList,       (* Setting->FreeStackList                                 *)
  useList,        (* Setting->StackList                                     *)
  table,          (* table[s]: op arrays with variables in s                *)
  gsStack,        (* Setting->Stack                                         *)
  ptrList,        (* Setting->StackPtrList                                  *)
  functionName,   (* Setting->FunctionName; FunctionNamePtr is its top      *)
  className,      (* Setting->ClassName                                     *)
  fileName,       (* Setting->FileName                                      *)
  functionFlags,  (* Setting->FunctionFlags                                 *)
  gsLocks,        (* times the thread has entered Setting->Lock             *)
  majorId,        (* Setting->MajorId                                       *)
  loaded,         (* functions and classes in the executor's tables         *)
  seen,           (* Setting->Function and Setting->Class                   *)
  scripts,        (* scripts dumped so far                                  *)
  found           (* history: what the script found, NULL after a fault     *)

pool    == <<live, freeList, useList, table>>
current == <<gsStack, ptrList>>
names   == <<functionName, className, fileName>>
script  == <<majorId, loaded, scripts>>
kept    == [useList |-> useList, ptrList |-> ptrList, functionName |-> functionName,
            className |-> className, functionFlags |-> functionFlags,
            gsLocks |-> gsLocks]
vars    == <<phase, calls, entry, pool, current, names, functionFlags, gsLocks, script, seen, found>>

Trying == {"classes", "functions", "main"}

NoEntry == [step |-> "none", name |-> Main, pushed |-> NULL, stack |-> NULL]

(* The call dump_op_array_ex or dump_class that is running. *)
Entering  == entry.step # "none"
InOpArray == ~Entering /\ calls # <<>> /\ Top(calls).kind = "op"
InClass   == ~Entering /\ calls # <<>> /\ Top(calls).kind = "class"
AtStep(k) == InOpArray /\ Top(calls).step = k
Dumping   == AtStep("dump")
NoCall    == ~Entering /\ calls = <<>>

(* InitGlobalSetting: the stack that it puts back in the pool stays in
   Setting->Stack "for global use". *)
Init ==
  /\ phase = "idle" /\ calls = <<>> /\ entry = NoEntry
  /\ \E s \in Stacks : live = {s} /\ freeList = <<s>> /\ gsStack = s
  /\ useList = <<>> /\ table = [s \in Stacks |-> {}] /\ ptrList = <<>>
  /\ functionName = <<>> /\ className = <<>> /\ fileName = <<>>
  /\ functionFlags = <<>> /\ gsLocks = 0
  /\ majorId \in MajorIds
  /\ loaded = {} /\ seen = {} /\ scripts = 0 /\ found = NULL
-----------------------------------------------------------------------------
(* pop_function_name, pop_class_name: the default name never leaves. *)
PopName(stack) == IF Len(stack) <= 1 THEN <<Main>> ELSE Popped(stack)

(* dump_op_array_ex begins by taking a stack. *)
EnterOpArray(name, flags) ==
  entry' = [step |-> "take", name |-> name, pushed |-> flags, stack |-> NULL]

(* The callers push the function's flags first. *)
DumpWithFlags(name, flags) ==
  /\ functionFlags' = Append(functionFlags, flags)
  /\ EnterOpArray(name, flags)

(* A class: LOCK_GS while its header and properties are written. *)
EnterClass(c) ==
  /\ className' = Append(className, c)
  /\ gsLocks' = gsLocks + 1
  /\ calls' = Append(calls, [kind |-> "class", name |-> c, step |-> "head",
                             todo |-> Methods])
  /\ UNCHANGED <<entry, pool, current, functionName, fileName, functionFlags, script, found>>
-----------------------------------------------------------------------------
(* InitGlobalSettingPreCompile and InitGlobalSettingRuntime: the script has
   been compiled, so the executor's tables may have grown. *)
StartScript(file) ==
  /\ phase = "idle" /\ scripts < MaxScripts
  /\ phase' = "classes"
  /\ fileName' = Append(fileName, file)
  /\ functionName' = Append(functionName, Main)
  /\ majorId' \in MajorIds
  /\ loaded' \in {l \in SUBSET (Classes \cup Functions) : loaded \subseteq l}
  /\ scripts' = scripts + 1
  /\ found' = IF majorId' > EXTENSION_ID_1 THEN kept ELSE NULL
  /\ UNCHANGED <<calls, entry, pool, current, className, functionFlags, gsLocks, seen>>

(* One class the loop of dump_class_table has not met in any script. *)
DumpClassTable(c) ==
  /\ phase = "classes" /\ NoCall
  /\ c \in (loaded \cap Classes) \ seen
  /\ seen' = seen \cup {c}
  /\ EnterClass(c)
  /\ UNCHANGED phase

ClassTableDone ==
  /\ phase = "classes" /\ NoCall /\ loaded \cap Classes \subseteq seen
  /\ phase' = "functions"
  /\ UNCHANGED <<calls, entry, pool, current, names, functionFlags, gsLocks, script, seen, found>>

(* A slip in DumpFunctionTable: no flags are pushed. *)
DumpFunctionTableFlagless(f) ==
  /\ phase = "functions" /\ NoCall
  /\ f \in (loaded \cap Functions) \ seen
  /\ seen' = seen \cup {f}
  /\ EnterOpArray(f, NoFlags)
  /\ UNCHANGED <<phase, calls, pool, current, names, functionFlags, gsLocks, script, found>>

(* One function the loop of dump_function_table has not met. *)
DumpFunctionTable(f) ==
  /\ phase = "functions" /\ NoCall
  /\ f \in (loaded \cap Functions) \ seen
  /\ seen' = seen \cup {f}
  /\ DumpWithFlags(f, NoFlags)
  /\ UNCHANGED <<phase, calls, pool, current, names, gsLocks, script, found>>

DumpMain ==
  /\ phase = "functions" /\ NoCall /\ loaded \cap Functions \subseteq seen
  /\ phase' = "main"
  /\ EnterOpArray(Main, NULL)
  /\ UNCHANGED <<calls, pool, current, names, functionFlags, gsLocks, script, seen, found>>

(* The header and the properties of a class are written; UNLOCK_GS. *)
ClassHeader ==
  /\ InClass /\ Top(calls).step = "head"
  /\ gsLocks' = gsLocks - 1
  /\ calls' = [calls EXCEPT ![Len(calls)].step = "body"]
  /\ UNCHANGED <<phase, entry, pool, current, names, functionFlags, script, seen, found>>

(* dump_class_function_table: the next method. *)
DumpMethod(m, flags) ==
  /\ InClass /\ Top(calls).step = "body" /\ m \in Top(calls).todo
  /\ calls' = [calls EXCEPT ![Len(calls)].todo = @ \ {m}]
  /\ DumpWithFlags(m, flags)
  /\ UNCHANGED <<phase, pool, current, names, gsLocks, script, seen, found>>

(* A slip in LeaveClass: no pop_class_name. *)
LeaveClassNamed ==
  /\ InClass /\ Top(calls).step = "body" /\ Top(calls).todo = {}
  /\ calls' = Popped(calls)
  /\ UNCHANGED <<phase, entry, pool, current, names, functionFlags, gsLocks, script, seen, found>>

(* pop_class_name ends dump_class. *)
LeaveClass ==
  /\ InClass /\ Top(calls).step = "body" /\ Top(calls).todo = {}
  /\ className' = PopName(className)
  /\ calls' = Popped(calls)
  /\ UNCHANGED <<phase, entry, pool, current, functionName, fileName, functionFlags,
                 gsLocks, script, seen, found>>
-----------------------------------------------------------------------------
(* AllocateStackFromPool *)

(* The oldest free stack leaves its list, or AllocateStack takes one from the
   heap, prepares it and puts it in the free list. *)
RemoveFree ==
  /\ entry.step = "take" /\ freeList # <<>>
  /\ freeList' = Tail(freeList)
  /\ entry' = [entry EXCEPT !.step = "post", !.stack = Head(freeList)]
  /\ UNCHANGED <<phase, calls, live, useList, table, current, names, functionFlags,
                 gsLocks, script, seen, found>>

AllocateStack ==
  /\ entry.step = "take" /\ freeList = <<>>
  /\ \E s \in Stacks \ live :
       live' = live \cup {s} /\ entry' = [entry EXCEPT !.step = "new", !.stack = s]
  /\ UNCHANGED <<phase, calls, freeList, useList, table, current, names, functionFlags,
                 gsLocks, script, seen, found>>

InsertFree ==
  /\ entry.step = "new"
  /\ freeList' = Append(freeList, entry.stack)
  /\ entry' = [entry EXCEPT !.step = "take", !.stack = NULL]
  /\ UNCHANGED <<phase, calls, live, useList, table, current, names, functionFlags,
                 gsLocks, script, seen, found>>

(* A slip in AllocateStackFails: the failure is not expected. *)
AllocateStackUnchecked ==
  /\ "heap" \in Faults /\ entry.step = "take" /\ freeList = <<>>
  /\ entry' = [entry EXCEPT !.step = "enter"] /\ found' = NULL
  /\ UNCHANGED <<phase, calls, pool, current, names, functionFlags, gsLocks, script, seen>>

(* No memory: dump_op_array_ex returns at once. *)
AllocateStackFails ==
  /\ "heap" \in Faults /\ entry.step = "take" /\ freeList = <<>>
  /\ entry' = NoEntry /\ found' = NULL
  /\ UNCHANGED <<phase, calls, pool, current, names, functionFlags, gsLocks, script, seen>>

InsertInUse ==
  /\ entry.step = "post"
  /\ useList' = Append(useList, entry.stack)
  /\ entry' = [entry EXCEPT !.step = "enter"]
  /\ UNCHANGED <<phase, calls, live, freeList, table, current, names, functionFlags,
                 gsLocks, script, seen, found>>
-----------------------------------------------------------------------------
(* dump_op_array_ex *)

Frame == [kind |-> "op", name |-> entry.name, step |-> "name", stack |-> entry.stack,
          pushed |-> entry.pushed, popped |-> NULL]

(* SET_GS_STACK, PUSH_GS_STACK: the call works on its stack. *)
PushStack ==
  /\ entry.step = "enter"
  /\ gsStack' = entry.stack
  /\ ptrList' = Append(ptrList, entry.stack)
  /\ calls' = Append(calls, Frame) /\ entry' = NoEntry
  /\ UNCHANGED <<phase, pool, names, functionFlags, gsLocks, script, seen, found>>

(* push_function_name_ex *)
PushFunctionName ==
  /\ AtStep("name")
  /\ functionName' = Append(functionName, Top(calls).name)
  /\ calls' = [calls EXCEPT ![Len(calls)].step = "scan"]
  /\ UNCHANGED <<phase, entry, pool, current, className, fileName, functionFlags,
                 gsLocks, script, seen, found>>

(* scan_control_list, then the head of the function with its flags. *)
ScanOpArray ==
  /\ AtStep("scan")
  /\ LET main  == Top(calls).name = Main
         pops  == ~main /\ majorId > EXTENSION_ID_1 /\ functionFlags # <<>>
     IN  /\ functionFlags' = IF pops THEN Popped(functionFlags) ELSE functionFlags
         /\ calls' = [calls EXCEPT
                        ![Len(calls)].step = "dump",
                        ![Len(calls)].popped = IF pops THEN Top(functionFlags) ELSE NULL]
  /\ UNCHANGED <<phase, entry, pool, current, names, gsLocks, script, seen, found>>

(* InsertVariable works on Setting->Stack, not on the caller's stack. *)
InsertVariable ==
  /\ AtStep("scan") \/ Dumping
  /\ table' = [table EXCEPT ![gsStack] = @ \cup {Top(calls).name}]
  /\ UNCHANGED <<phase, calls, entry, live, freeList, useList, current, names,
                 functionFlags, gsLocks, script, seen, found>>

(* The code nests as deep as the declarations of the script do. *)
NestingBound == Len(calls) < MaxDepth /\ Len(functionFlags) < MaxFlags

(* ZEND_DECLARE_FUNCTION and ZEND_DECLARE_CLASS dump what they declare. *)
DumpFunction(f, flags) ==
  /\ Dumping /\ NestingBound /\ f \in loaded \cap Functions
  /\ DumpWithFlags(f, flags)
  /\ UNCHANGED <<phase, calls, pool, current, names, gsLocks, script, seen, found>>

DumpClass(c) ==
  /\ Dumping /\ NestingBound /\ c \in loaded \cap Classes
  /\ EnterClass(c)
  /\ UNCHANGED <<phase, seen>>

-----------------------------------------------------------------------------
(* FreeStackToPool *)

(* LOCK_GS; the stack is unlinked wherever it is. *)
UnlinkStack ==
  /\ Dumping
  /\ gsLocks' = gsLocks + 1
  /\ LET s == Top(calls).stack
     IN  \/ \E k \in DOMAIN useList : useList[k] = s /\ useList' = Unlinked(useList, k)
         \/ s \notin Elems(useList) /\ UNCHANGED useList
  /\ calls' = [calls EXCEPT ![Len(calls)].step = "clear"]
  /\ UNCHANGED <<phase, entry, live, freeList, table, current, names, functionFlags,
                 script, seen, found>>

(* A slip in FreeVariables: the variables stay. *)
FreeVariablesKept ==
  /\ AtStep("clear")
  /\ calls' = [calls EXCEPT ![Len(calls)].step = "give"]
  /\ UNCHANGED <<phase, entry, pool, current, names, functionFlags, gsLocks, script,
                 seen, found>>

(* The variables of all tables are freed. *)
FreeVariables ==
  /\ AtStep("clear")
  /\ table' = [table EXCEPT ![Top(calls).stack] = {}]
  /\ calls' = [calls EXCEPT ![Len(calls)].step = "give"]
  /\ UNCHANGED <<phase, entry, live, freeList, useList, current, names, functionFlags,
                 gsLocks, script, seen, found>>

(* A slip in GiveBack: the stack does not enter the free list. *)
GiveBackForgotten ==
  /\ AtStep("give")
  /\ gsLocks' = gsLocks - 1
  /\ calls' = [calls EXCEPT ![Len(calls)].step = "unname"]
  /\ UNCHANGED <<phase, entry, pool, current, names, functionFlags, script, seen, found>>

(* The stack is free again; UNLOCK_GS. *)
GiveBack ==
  /\ AtStep("give")
  /\ freeList' = Append(freeList, Top(calls).stack)
  /\ gsLocks' = gsLocks - 1
  /\ calls' = [calls EXCEPT ![Len(calls)].step = "unname"]
  /\ UNCHANGED <<phase, entry, live, useList, table, current, names, functionFlags,
                 script, seen, found>>

(* pop_function_name in dump_op_array_ex *)
PopFunctionName ==
  /\ AtStep("unname")
  /\ functionName' = PopName(functionName)
  /\ calls' = [calls EXCEPT ![Len(calls)].step = "pop"]
  /\ UNCHANGED <<phase, entry, pool, current, className, fileName, functionFlags,
                 gsLocks, script, seen, found>>

(* A slip in PopSetStack: the count is taken for the one after the pop. *)
PopSetStackAfter ==
  /\ ptrList' = IF ptrList = <<>> THEN <<>> ELSE Popped(ptrList)
  /\ gsStack' = IF Len(ptrList') > 1 THEN Top(ptrList') ELSE gsStack

(* POP_SET_GS_STACK: StackPopU returns the count before the pop. *)
PopSetStack ==
  /\ ptrList' = IF ptrList = <<>> THEN <<>> ELSE Popped(ptrList)
  /\ gsStack' = IF Len(ptrList) > 1 THEN Top(ptrList') ELSE gsStack

LeaveOpArray ==
  /\ AtStep("pop")
  /\ PopSetStack
  /\ calls' = Popped(calls)
  /\ UNCHANGED <<phase, entry, pool, names, functionFlags, gsLocks, script, seen, found>>
-----------------------------------------------------------------------------
(* The __except block logs and the dump of the script ends: whatever the
   active calls have pushed, locked or taken from a list stays so. *)
Exception ==
  /\ "exception" \in Faults
  /\ phase \in Trying /\ ~NoCall
  /\ calls' = <<>> /\ entry' = NoEntry /\ phase' = "tail" /\ found' = NULL
  /\ UNCHANGED <<pool, current, names, functionFlags, gsLocks, script, seen>>

MainDone ==
  /\ phase = "main" /\ NoCall
  /\ phase' = "tail"
  /\ UNCHANGED <<calls, entry, pool, current, names, functionFlags, gsLocks, script, seen, found>>

(* "Pop function name", "Pop file name": both call pop_function_name. *)
EndScript ==
  /\ phase = "tail"
  /\ phase' = "idle"
  /\ functionName' = PopName(PopName(functionName))
  /\ UNCHANGED <<calls, entry, pool, current, className, fileName, functionFlags,
                 gsLocks, script, seen, found>>

(* UninitGlobalSetting: FreeStack for every entry of StackList, then of
   FreeStackList. *)
Uninit ==
  /\ phase = "idle"
  /\ phase' = "done"
  /\ live' = live \ (Elems(useList) \cup Elems(freeList))
  /\ useList' = <<>> /\ freeList' = <<>>
  /\ table' = [s \in Stacks |-> {}]
  /\ ptrList' = <<>> /\ seen' = {}
  /\ functionName' = <<>> /\ className' = <<>> /\ fileName' = <<>>
  /\ functionFlags' = <<>> /\ found' = NULL
  /\ UNCHANGED <<calls, entry, gsStack, gsLocks, script>>

(* The process has ended. *)
Exited == phase = "done" /\ UNCHANGED vars

Next ==
  \/ \E file \in Files : StartScript(file)
  \/ \E c \in Classes : DumpClassTable(c) \/ DumpClass(c)
  \/ \E f \in Functions : DumpFunctionTable(f) \/ \E flags \in Flags : DumpFunction(f, flags)
  \/ \E m \in Methods, flags \in Flags : DumpMethod(m, flags)
  \/ ClassTableDone \/ ClassHeader \/ LeaveClass
  \/ RemoveFree \/ AllocateStack \/ InsertFree \/ AllocateStackFails \/ InsertInUse
  \/ DumpMain \/ PushStack \/ PushFunctionName \/ ScanOpArray \/ InsertVariable
  \/ UnlinkStack \/ FreeVariables \/ GiveBack \/ PopFunctionName \/ LeaveOpArray
  \/ Exception \/ MainDone \/ EndScript \/ Uninit \/ Exited

Spec == Init /\ [][Next]_vars
-----------------------------------------------------------------------------
OpNames    == Functions \cup Methods \cup {Main}
OpFrame    == [kind : {"op"}, name : OpNames,
               step : {"name", "scan", "dump", "clear", "give", "unname", "pop"},
               stack : Stacks, pushed : Flags \cup {NULL}, popped : Flags \cup {NULL}]
ClassFrame == [kind : {"class"}, name : Classes, step : {"head", "body"},
               todo : SUBSET Methods]
Entries    == [step : {"none", "take"}, name : OpNames, pushed : Flags \cup {NULL},
               stack : {NULL}]
              \cup [step : {"new", "post", "enter"}, name : OpNames,
                    pushed : Flags \cup {NULL}, stack : Stacks]

(* Each variable holds what the code can put there: in particular the stack of
   a failed allocation never becomes Setting->Stack or enters a list.  No stack
   is in both lists or twice in one, and the lock is never left more often than
   it is entered, wherever exceptions have abandoned the calls. *)
TypeOK ==
  /\ phase \in {"idle", "tail", "done"} \cup Trying
  /\ calls \in Seq(OpFrame \cup ClassFrame) /\ entry \in Entries
  /\ live \in SUBSET Stacks
  /\ freeList \in Seq(Stacks) /\ useList \in Seq(Stacks)
  /\ Elems(freeList) \cup Elems(useList) \subseteq live
  /\ Elems(freeList) \cap Elems(useList) = {}
  /\ NoDuplicates(freeList) /\ NoDuplicates(useList)
  /\ table \in [Stacks -> SUBSET OpNames]
  /\ gsStack \in Stacks /\ ptrList \in Seq(Stacks)
  /\ functionName \in Seq(OpNames)
  /\ className \in Seq(Classes \cup {Main}) /\ fileName \in Seq(Files)
  /\ functionFlags \in Seq(Flags) /\ gsLocks \in Nat
  /\ majorId \in MajorIds
  /\ loaded \in SUBSET (Classes \cup Functions)
  /\ seen \in SUBSET (Classes \cup Functions)
  /\ scripts \in 0 .. MaxScripts

(* The active calls of dump_op_array_ex, and the innermost of them. *)
OpCalls == {i \in DOMAIN calls : calls[i].kind = "op"}
Innermost(i) == i \in OpCalls /\ \A j \in OpCalls : j <= i

(* Whatever a nested declaration, a failed allocation or an earlier exception
   did, the handlers of the innermost dump_op_array_ex find its own stack in
   Setting->Stack and its own name in FunctionNamePtr. *)
CurrentCall ==
  \A i \in DOMAIN calls : Innermost(i) /\ calls[i].step \in {"scan", "dump"} =>
    /\ gsStack = calls[i].stack
    /\ ptrList # <<>> /\ Top(ptrList) = gsStack
    /\ functionName # <<>> /\ Top(functionName) = calls[i].name

(* Every active call has a stack of its own, linked in StackList until it gives
   it back, and only variables of its own op array in it; a free stack has
   none, and so has the one a new call takes. *)
Owning == {"name", "scan", "dump"}

OwnVariables ==
  /\ \A i, j \in OpCalls : /\ {calls[i].step, calls[j].step} \subseteq Owning
                           /\ calls[i].stack = calls[j].stack
                         => i = j
  /\ \A i \in OpCalls : calls[i].step \in Owning =>
       /\ calls[i].stack \in Elems(useList)
       /\ table[calls[i].stack] \subseteq {calls[i].name}
  /\ \A s \in Elems(freeList) : table[s] = {}
  /\ entry.stack # NULL => table[entry.stack] = {}

(* The stacks on their way between the lists, and those that are in neither
   list with no call left to put them back. *)
InTransit ==
  {entry.stack : k \in {entry.step} \cap {"new", "post"}}
  \cup {calls[i].stack : i \in {j \in OpCalls : calls[j].step \in {"clear", "give"}}}
Lost == live \ (Elems(freeList) \cup Elems(useList) \cup InTransit)

(* An exception inside AllocateStackFromPool or FreeStackToPool loses a stack
   that even UninitGlobalSetting does not free; nothing else does, and no
   exception loses more than one. *)
LostOnce == Cardinality(Lost) <= scripts

(* A function's header is written with the flags its caller pushed, although
   failed dumps and scripts with an old MajorId leave flags behind. *)
OwnFlags ==
  \A i \in OpCalls :
    calls[i].step = "dump" /\ calls[i].name # Main /\ majorId > EXTENSION_ID_1
      => calls[i].popped = calls[i].pushed

(* A script that is dumped without a fault leaves the stacks, the flags and the
   lock as it found them, whatever earlier faults have left there; only the
   second pop_function_name of dump_op_array takes a name of theirs.  An empty
   stack of names and one with the default name are the same. *)
Named(stack) == IF stack = <<>> THEN <<Main>> ELSE stack

Balanced ==
  phase = "idle" /\ found # NULL =>
    /\ useList = found.useList /\ ptrList = found.ptrList
    /\ functionName = PopName(found.functionName)
    /\ Named(className) = Named(found.className)
    /\ functionFlags = found.functionFlags /\ gsLocks = found.gsLocks

(* dump_op_array, "Pop file name": the name pushed for the script leaves the
   stack with it (pop_file_name keeps one default name). *)
FileNamePopped == phase = "idle" => Len(fileName) <= 1
=============================================================================
