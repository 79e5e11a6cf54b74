--------------------------- MODULE TimerStackList ---------------------------
(***************************************************************************)
(* The timer stack list of src/common/TimerStackList.c: items of threads,  *)
(* each with a time-out and a cancel routine, in a stack sorted by thread  *)
(* id under one lock.  A thread queues and dequeues its item; a timer      *)
(* calls TimerStackListRoutine again and again, which cancels and removes  *)
(* what has timed out.                                                     *)
(*                                                                         *)
(* The stack is the array of slots of SlotStack: a removal moves pointers  *)
(* down and leaves the last one above Top, where the next push finds it:   *)
(* the slot that it takes may be that of an item which is still in the     *)
(* list.  The model does what the code does, and remembers it.             *)
(***************************************************************************)
EXTENDS Integers, FiniteSets, SequencesExt

CONSTANTS
  Items,      (* what threads queue, each once                             *)
  ThreadId,   (* the id that each item is queued with                      *)
  Routed,     (* the items that are queued with a cancel routine           *)
  Half,       (* ids are compared as numbers from -Half to Half - 1        *)
  Timeouts,   (* relative time-outs that are asked for,                    *)
  Deadlines,  (* and absolute ones, past or to come                        *)
  MaxTime,    (* bound: the last time                                      *)
  NULL

ASSUME TimerAssumption ==
  /\ ThreadId \in [Items -> Nat] /\ Routed \subseteq Items /\ Half \in Nat \ {0}
  /\ Timeouts \subseteq Nat \ {0} /\ Deadlines \subseteq Nat /\ MaxTime \in Nat
  /\ IsFiniteSet(Items) /\ NULL \notin Items

VARIABLES
  time,       (* KeQuerySystemTime                                         *)
  state,      (* of each item, for its thread                              *)
  due,        (* TimerStackCtx.Timeout, computed before the lock is taken  *)
  elements,   (* Elements, the pointers above Top included                 *)
  top,
  content,    (* the item in each slot                                     *)
  round,      (* the call of TimerStackListRoutine: its Time and Iter; or  *)
              (* NULL                                                      *)
  cancelled,  (* history: the items whose cancel routine has run, in order *)
  damaged     (* history: has a push overwritten an item of the list?      *)

stack == <<elements, top, content>>
vars  == <<time, state, due, stack, round, cancelled, damaged>>

Permanent == -1

(* The list's lock is the routine's while a round is on (Iter counts from  *)
(* 1 here, 0 before the lock is had); every other critical section is one  *)
(* step.                                                                   *)
LockFree == round # NULL => round.iter = 0

-----------------------------------------------------------------------------
(* A LONG: the difference of two ids wraps round. *)
Long(n) == ((n + Half) % (2 * Half)) - Half

CompareContext(i, j) == Long(ThreadId[i] - ThreadId[j])

At(k) == content[elements[k]]

(* StackFindAscT: the place of an item with that id, or 0. *)
StackFindAscT(i) ==
  LET find[r \in (0 .. top) \X (0 .. top)] ==  (* Start and End          *)
        LET mid  == (r[1] + r[2]) \div 2
            sign == CompareContext(i, At(mid + 1))
        IN  IF r[1] >= r[2] THEN 0
            ELSE IF sign > 0 THEN find[<<mid + 1, r[2]>>]
            ELSE IF sign < 0 THEN find[<<r[1], mid>>]
            ELSE mid + 1
  IN  find[<<0, top>>]

(* A plausible slip: the pointer stays where it is. *)
StackPushAtTop(i) ==
  LET used == IF top < Len(elements) THEN elements
              ELSE Append(elements, Len(elements) + 1)
  IN  /\ elements' = used /\ top' = top + 1
      /\ content' = IF used[top + 1] \in DOMAIN content
                    THEN [content EXCEPT ![used[top + 1]] = i] ELSE Append(content, i)

(* StackPushAscT: the structure goes to the slot at Top, a new one if there*)
(* is none, and its pointer sinks while the next one is larger.            *)
StackPushAscT(i) ==
  LET used == IF top < Len(elements) THEN elements
              ELSE Append(elements, Len(elements) + 1)
      slot == used[top + 1]
      new  == IF slot \in DOMAIN content
              THEN [content EXCEPT ![slot] = i] ELSE Append(content, i)
      stop == {k \in 1 .. top : CompareContext(i, new[used[k]]) >= 0}
      to   == 1 + (IF stop = {} THEN 0 ELSE Max(stop))
  IN  /\ content' = new
      /\ elements' = [k \in DOMAIN used |->
                        IF k < to \/ k > top + 1 THEN used[k]
                        ELSE IF k = to THEN slot ELSE used[k - 1]]
      /\ top' = top + 1

(* A plausible slip: one pointer too few is moved. *)
StackRemoveIndexShort(k) ==
  /\ elements' = [j \in DOMAIN elements |->
                    IF k <= j /\ j < top - 1 THEN elements[j + 1] ELSE elements[j]]
  /\ top' = top - 1
  /\ UNCHANGED content

(* memcpy moves the pointers behind the index down; the last stays too.    *)
StackRemoveIndexT(k) ==
  /\ elements' = [j \in DOMAIN elements |->
                    IF k <= j /\ j < top THEN elements[j + 1] ELSE elements[j]]
  /\ top' = top - 1
  /\ UNCHANGED content

-----------------------------------------------------------------------------
(* A plausible slip: a relative time-out keeps its sign. *)
RequestNegative(i) ==
  /\ state[i] = "new"
  /\ state' = [state EXCEPT ![i] = "asked"]
  /\ \E t \in Timeouts : due' = [due EXCEPT ![i] = -t]
  /\ UNCHANGED <<time, stack, round, cancelled, damaged>>

(* QueueTimerStackItem(Ex) up to the lock: a relative time-out counts from *)
(* now, an absolute one stays, no time-out (the form without Ex gives      *)
(* none, and no routine) is permanent.                                     *)
RequestTimer(i) ==
  /\ state[i] = "new"
  /\ state' = [state EXCEPT ![i] = "asked"]
  /\ \E d \in {time + t : t \in Timeouts} \cup Deadlines \cup {Permanent} :
       due' = [due EXCEPT ![i] = d]
  /\ UNCHANGED <<time, stack, round, cancelled, damaged>>

(* The slot that the next push takes is an item's that is in the list. *)
Overwrites ==
  /\ top < Len(elements)
  /\ \E k \in 1 .. top : elements[k] = elements[top + 1]

(* A push that gets no memory changes nothing. *)
Queue(i) ==
  /\ LockFree /\ state[i] = "asked"
  /\ StackPushAscT(i)
  /\ damaged' = (damaged \/ Overwrites)
  /\ state' = [state EXCEPT ![i] = "queued"]
  /\ UNCHANGED <<time, due, round, cancelled>>

(* An item leaves the list; its routine, if it has one, runs first. *)
CancelAndRemove(k) ==
  /\ cancelled' = IF At(k) \in Routed THEN Append(cancelled, At(k)) ELSE cancelled
  /\ state' = [state EXCEPT ![At(k)] = "cancelled"]
  /\ StackRemoveIndexT(k)

(* A plausible slip: the flag is not looked at. *)
DequeueCancels(i, cancel) ==
  /\ LockFree /\ state[i] = "queued"
  /\ LET k == StackFindAscT(i) IN
       /\ k \in 1 .. top
       /\ cancelled' = Append(cancelled, At(k))
       /\ state' = [state EXCEPT ![At(k)] = IF cancel THEN "cancelled" ELSE "dequeued"]
       /\ StackRemoveIndexT(k)
  /\ UNCHANGED <<time, due, round, damaged>>

(* DequeueTimerStackItemEx; the form without Ex never cancels.  The thread *)
(* is answered by what is found under its id; when nothing is, nothing     *)
(* changes.                                                                *)
Dequeue(i, cancel) ==
  /\ LockFree /\ state[i] = "queued"
  /\ LET k == StackFindAscT(i) IN
       /\ k \in 1 .. top
       /\ \/ cancel /\ CancelAndRemove(k)
          \/ /\ ~cancel
             /\ state' = [state EXCEPT ![At(k)] = "dequeued"]
             /\ StackRemoveIndexT(k)
             /\ UNCHANGED cancelled
  /\ UNCHANGED <<time, due, round, damaged>>

-----------------------------------------------------------------------------
(* TimerStackListRoutine: its caller reads the time, *)
ReadTime ==
  /\ round = NULL
  /\ round' = [time |-> time, iter |-> 0]
  /\ UNCHANGED <<time, state, due, stack, cancelled, damaged>>

(* and then the routine waits for the lock. *)
StartRound ==
  /\ round # NULL /\ LockFree
  /\ round' = [round EXCEPT !.iter = 1]
  /\ UNCHANGED <<time, state, due, stack, cancelled, damaged>>

(* Plausible slips: permanent items are forgotten, or late rounds. *)
TimedOutOrPermanent(k) == round.time > due[At(k)]
TimedOutExactly(k) == due[At(k)] # Permanent /\ round.time = due[At(k)] + 1

TimedOut(k) == due[At(k)] # Permanent /\ round.time > due[At(k)]

(* One turn of the loop.  Iter goes on after a removal too. *)
Turn ==
  /\ ~LockFree /\ round.iter <= top
  /\ IF TimedOut(round.iter)
     THEN CancelAndRemove(round.iter)
     ELSE UNCHANGED <<state, stack, cancelled>>
  /\ round' = [round EXCEPT !.iter = @ + 1]
  /\ UNCHANGED <<time, due, damaged>>

EndRound ==
  /\ ~LockFree /\ round.iter > top
  /\ round' = NULL
  /\ UNCHANGED <<time, state, due, stack, cancelled, damaged>>

Tick ==
  /\ time < MaxTime
  /\ time' = time + 1
  /\ UNCHANGED <<state, due, stack, round, cancelled, damaged>>

Init ==
  /\ time = 0
  /\ state = [i \in Items |-> "new"] /\ due = [i \in Items |-> Permanent]
  /\ elements = <<>> /\ top = 0 /\ content = <<>>
  /\ round = NULL /\ cancelled = <<>> /\ damaged = FALSE

Next ==
  \/ \E i \in Items : RequestTimer(i) \/ Queue(i)
  \/ \E i \in Items, cancel \in BOOLEAN : Dequeue(i, cancel)
  \/ ReadTime \/ StartRound \/ Turn \/ EndRound
  \/ Tick

(* Time goes on, the timer calls the routine, and a call gets the lock and *)
(* runs to its end.  Threads need not do anything; the lock they hold for  *)
(* one step.                                                               *)
Fairness ==
  /\ WF_vars(Tick) /\ WF_vars(ReadTime)
  /\ WF_vars(StartRound) /\ WF_vars(Turn) /\ WF_vars(EndRound)

Spec == Init /\ [][Next]_vars /\ Fairness

-----------------------------------------------------------------------------
(* The state has its type; a time-out is a time or none.  As long as no    *)
(* push has overwritten an item of the list, through removals and pushes   *)
(* into slots used before: the list has the items whose threads have       *)
(* queued them and have had no answer, each once, and a thread finds its   *)
(* own by its id, for the list is sorted and the ids compare as numbers.   *)
TypeOK ==
  /\ time \in 0 .. MaxTime
  /\ state \in [Items -> {"new", "asked", "queued", "dequeued", "cancelled"}]
  /\ due \in [Items -> {Permanent} \cup Deadlines \cup
                       {t + n : t \in 0 .. MaxTime, n \in Timeouts}]
  /\ content \in Seq(Items) /\ elements \in Seq(DOMAIN content)
  /\ top \in 0 .. Len(elements)
  /\ round \in {NULL} \cup [time : 0 .. time, iter : Nat]
  /\ cancelled \in Seq(Items) /\ damaged \in BOOLEAN
  /\ ~damaged =>
       /\ \A j, k \in 1 .. top : At(j) = At(k) => j = k
       /\ {At(k) : k \in 1 .. top} = {i \in Items : state[i] = "queued"}
       /\ \A k \in 1 .. top : StackFindAscT(At(k)) = k

(* As long as no push has overwritten an item of the list: a cancel        *)
(* routine runs once at most, and only for an item that its thread still   *)
(* waits for, so a round and a dequeue never both answer; a round runs     *)
(* none before its time-out, and none of a permanent item; and an item     *)
(* that is cancelled has had its routine run, if it has one.               *)
AnsweredOnce ==
  [][~damaged =>
       /\ cancelled' # cancelled =>
            \E i \in Items :
              /\ cancelled' = Append(cancelled, i) /\ i \notin Range(cancelled)
              /\ state[i] = "queued" /\ state'[i] = "cancelled"
              /\ LockFree \/ (due[i] # Permanent /\ due[i] < time)
       /\ \A i \in Items : state[i] # "cancelled" /\ state'[i] = "cancelled" =>
            (i \in Routed <=> cancelled' # cancelled)]_vars

(* An item with a time-out does not stay for ever, although a round misses *)
(* the item behind each one it removes: another round comes.  It may be    *)
(* overwritten, or hidden by a list out of order, once a push has hit an   *)
(* item of the list.                                                       *)
AnsweredInTime ==
  \A i \in Items :
    state[i] = "queued" /\ due[i] # Permanent /\ due[i] < MaxTime ~>
      state[i] # "queued" \/ damaged
=============================================================================
