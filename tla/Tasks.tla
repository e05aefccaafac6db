------------------------------- MODULE Tasks -------------------------------
(* The data of the FreeRTOS scheduler (kernel/tasks.c on kernel/list.c), as   *)
(* FreeRTOSConfig.h configures it: one core, dynamic allocation, no mutexes,  *)
(* no timers, no task deletion.  The scheduler's file-scope variables are one *)
(* record k and every kernel function is an operator from that record to the  *)
(* next one, because the functions call each other: xTaskResumeAll runs       *)
(* xTaskIncrementTick, which moves list items, and may end in a switch.       *)
(*                                                                            *)
(* A list is the sequence of its members from xListEnd on; index is pxIndex   *)
(* (0 is xListEnd).  A task has two list items: where names the list holding  *)
(* its xStateListItem and evt the one holding its xEventListItem.             *)
EXTENDS Integers, Sequences, FiniteSets, SequencesExt

CONSTANTS
  Task,            \* the tasks, the idle task among them
  Idle,            \* the idle task
  MAX_PRIORITIES,  \* configMAX_PRIORITIES
  TickMod,         \* 2^32: the tick count wraps to 0 here
  OverflowMod,     \* 2^32: the width of the count of those wraps
  EventLists       \* the wait lists of the queues, <<"rx", q>> and <<"tx", q>>

Priorities == 0 .. MAX_PRIORITIES - 1

ASSUME TasksAssumption ==
  /\ Idle \in Task
  /\ IsFiniteSet(Task)
  /\ MAX_PRIORITIES \in Nat \ {0}
  /\ TickMod \in Nat \ {0, 1, 2} /\ OverflowMod \in Nat \ {0}
  /\ EventLists \subseteq {"rx", "tx"} \X Nat

TickType == 0 .. TickMod - 1
portMAX_DELAY == TickMod - 1

Ready(p) == <<"ready", p>>
Delayed(i) == <<"delayed", i>>
Suspended == <<"suspended", 0>>
Pending == <<"pending", 0>>
None == <<"none", 0>>
StateLists == {Ready(p) : p \in Priorities} \cup {Delayed(0), Delayed(1), Suspended}
Lists == StateLists \cup EventLists \cup {Pending}

(* The notification state of a task, taskNOT_WAITING_NOTIFICATION and so on.  *)
NotWaiting == 0
Waiting == 1
Received == 2

(* A loop of the code over the sequence s: Op on base and each member in turn. *)
ForEach(Op(_, _), base, s) ==
  LET after[n \in 0 .. Len(s)] == IF n = 0 THEN base ELSE Op(after[n - 1], s[n])
  IN after[Len(s)]
-----------------------------------------------------------------------------
(* list.c *)

Container(k, l, t, c) ==
  IF l \in StateLists THEN [k EXCEPT !.where[t] = c] ELSE [k EXCEPT !.evt[t] = c]

(* vListInsertEnd puts the item just behind pxIndex: it is the last one that  *)
(* listGET_OWNER_OF_NEXT_ENTRY comes to.                                      *)
vListInsertEnd(k, l, t) ==
  LET i == k.index[l]
      inserted == IF i = 0 THEN [k EXCEPT !.list[l] = Append(@, t)]
                  ELSE [k EXCEPT !.list[l] = InsertAt(@, i, t), !.index[l] = i + 1]
  IN Container(inserted, l, t, l)

(* xItemValue: the wake time in a delayed list, else the inverted priority,   *)
(* which vTaskPrioritySet keeps up to date without sorting the list again.    *)
ItemValue(k, l, t) ==
  IF l[1] = "delayed" THEN k.wake[t] ELSE MAX_PRIORITIES - k.prio[t]

vListInsert(k, l, t) ==
  LET s == k.list[l]
      later == {j \in DOMAIN s : ItemValue(k, l, s[j]) > ItemValue(k, l, t)}
      at == IF later = {} THEN Len(s) + 1 ELSE Min(later)
  IN Container([k EXCEPT !.list[l] = InsertAt(@, at, t)], l, t, l)

\* Slip: pxIndex is left on the item that leaves the list.
RemoveKeepsIndex(k, l, t) ==
  Container([k EXCEPT !.list[l] = Remove(@, t)], l, t, None)

(* uxListRemove, and the inline listREMOVE_ITEM: pxIndex steps back from the  *)
(* item that leaves.  A wake time means nothing outside the delayed lists.    *)
TakeAt(k, l, t, at) ==
  [k EXCEPT !.list[l] = RemoveAt(@, at),
            !.index[l] = IF @ >= at THEN @ - 1 ELSE @,
            !.wake[t] = IF l[1] = "delayed" THEN 0 ELSE @,
            !.left[t] = IF l[1] = "delayed" THEN 0 ELSE @]
uxListRemove(k, l, t) ==
  Container(TakeAt(k, l, t, SelectInSeq(k.list[l], LAMBDA u : u = t)), l, t, None)

RemoveState(k, t) == uxListRemove(k, k.where[t], t)
RemoveEvent(k, t) == IF k.evt[t] = None THEN k ELSE uxListRemove(k, k.evt[t], t)

-----------------------------------------------------------------------------
(* tasks.c: the ready lists and the choice of the running task *)

configASSERT(k, holds) == IF holds THEN k ELSE [k EXCEPT !.fault = 1]

prvAddTaskToReadyList(k, t) ==
  vListInsertEnd([k EXCEPT !.top = IF k.prio[t] > @ THEN k.prio[t] ELSE @],
                 Ready(k.prio[t]), t)

(* taskSELECT_HIGHEST_PRIORITY_TASK: down from uxTopReadyPriority to the      *)
(* first list with a member, then the next member of that list in turn.       *)
taskSELECT_HIGHEST_PRIORITY_TASK(k) ==
  LET found == {p \in 0 .. k.top : k.list[Ready(p)] # <<>>}
      p == CHOOSE q \in found : \A r \in found : r <= q
      s == k.list[Ready(p)]
      next == (k.index[Ready(p)] % Len(s)) + 1
  IN IF found = {} THEN [k EXCEPT !.fault = 1]
     ELSE [k EXCEPT !.top = p, !.index[Ready(p)] = next, !.cur = s[next]]

\* Slip: a switch asked for while the scheduler is suspended is forgotten.
SwitchForgets(k) ==
  IF k.susp # 0 THEN k ELSE taskSELECT_HIGHEST_PRIORITY_TASK([k EXCEPT !.yield = 0])

vTaskSwitchContext(k) ==
  IF k.susp # 0 THEN [k EXCEPT !.yield = 1]
  ELSE taskSELECT_HIGHEST_PRIORITY_TASK([k EXCEPT !.yield = 0])

(* taskYIELD_..._IF_USING_PREEMPTION: the ecall traps at once, even inside a  *)
(* critical section.                                                          *)
YieldIfPreempting(k) == IF k.preempt = 1 THEN vTaskSwitchContext(k) ELSE k
YieldIfAbove(k, t) == IF k.prio[k.cur] < k.prio[t] THEN YieldIfPreempting(k) ELSE k
-----------------------------------------------------------------------------
(* tasks.c: time *)

\* Slip: xNextTaskUnblockTime always says that nobody waits.
ResetToNever(k) == [k EXCEPT !.unblock = portMAX_DELAY]

prvResetNextTaskUnblockTime(k) ==
  LET s == k.list[Delayed(k.del)]
  IN [k EXCEPT !.unblock = IF s = <<>> THEN portMAX_DELAY ELSE k.wake[Head(s)]]

(* prvAddCurrentTaskToDelayedList: for ever is the suspended list; a wake     *)
(* time past the wrap of the tick count goes to the overflow list.  left      *)
(* counts the ticks the task has still to wait (no variable of the code).     *)
prvAddCurrentTaskToDelayedList(k, n, canBlockForEver) ==
  LET t == k.cur
      r == RemoveState(k, t)
      wake == (k.tick + n) % TickMod
      timed == [r EXCEPT !.wake[t] = wake, !.left[t] = n]
  IN IF n = portMAX_DELAY /\ canBlockForEver THEN vListInsertEnd(r, Suspended, t)
     ELSE IF wake < k.tick THEN vListInsert(timed, Delayed(1 - k.del), t)
     ELSE [vListInsert(timed, Delayed(k.del), t) EXCEPT !.unblock = IF wake < @ THEN wake ELSE @]

(* taskSWITCH_DELAYED_LISTS, when the tick count wraps. *)
taskSWITCH_DELAYED_LISTS(k) ==
  prvResetNextTaskUnblockTime(
    [configASSERT(k, k.list[Delayed(k.del)] = <<>>)
       EXCEPT !.del = 1 - @, !.overflows = (@ + 1) % OverflowMod])

(* One task whose time has come, made ready by xTaskIncrementTick. *)
WakeOne(r, t) ==
  LET readied == prvAddTaskToReadyList(RemoveEvent(RemoveState(r.k, t), t), t)
  IN [k |-> readied,
      switch |-> r.switch \/ (r.k.preempt = 1 /\ r.k.prio[t] > r.k.prio[r.k.cur])]

WakeAll(k, due) == ForEach(WakeOne, [k |-> k, switch |-> FALSE], due)

(* The loop over the delayed list, which stops at its end or at the first     *)
(* member that is not yet due, and notes the time of that member.             *)
WakeDue(k) ==
  LET s == k.list[Delayed(k.del)]
      early == {j \in DOMAIN s : k.wake[s[j]] > k.tick}
      due == IF early = {} THEN s ELSE SubSeq(s, 1, Min(early) - 1)
  IN IF k.tick < k.unblock THEN [k |-> k, switch |-> FALSE]
     ELSE IF s = <<>> THEN [k |-> [k EXCEPT !.unblock = portMAX_DELAY], switch |-> FALSE]
     ELSE [WakeAll(k, due) EXCEPT !.k = prvResetNextTaskUnblockTime(@)]

(* switch is the value xTaskIncrementTick returns: a task above the running   *)
(* one became ready, the running one has a peer to share time with, or a      *)
(* switch was already pending.                                                *)
SwitchNeeded(r) ==
  LET k == r.k
      peers == Len(k.list[Ready(k.prio[k.cur])]) > 1
  IN [r EXCEPT !.switch = @ \/ (k.preempt = 1 /\ ((k.slicing = 1 /\ peers) \/ k.yield # 0))]

(* While the scheduler is suspended the tick is only remembered. *)
xTaskIncrementTick(k) ==
  IF k.susp # 0 THEN [k |-> [k EXCEPT !.pended = @ + 1], switch |-> FALSE]
  ELSE LET t1 == (k.tick + 1) % TickMod
           waiting == {t \in Task : k.where[t] \in {Delayed(0), Delayed(1)}}
           counted == [k EXCEPT !.tick = t1,
                         !.left = [t \in Task |-> IF t \in waiting THEN @[t] - 1 ELSE @[t]]]
       IN SwitchNeeded(WakeDue(IF t1 = 0 THEN taskSWITCH_DELAYED_LISTS(counted) ELSE counted))
-----------------------------------------------------------------------------
(* tasks.c: the suspended scheduler *)

vTaskSuspendAll(k) == [k EXCEPT !.susp = @ + 1]

(* One member of xPendingReadyList moved to its ready list. *)
ReadyPended(k, t) ==
  LET readied == prvAddTaskToReadyList(RemoveState(RemoveEvent(k, t), t), t)
  IN [readied EXCEPT !.yield = IF k.prio[t] > k.prio[k.cur] THEN 1 ELSE @]

\* One tick counted late.
NoteSwitch(r) == [r.k EXCEPT !.yield = IF r.switch THEN 1 ELSE @]
PendedTick(k, n) == NoteSwitch(xTaskIncrementTick(k))

ReadyAllPended(k) ==
  IF k.list[Pending] = <<>> THEN k
  ELSE prvResetNextTaskUnblockTime(ForEach(ReadyPended, k, k.list[Pending]))
CountPended(k) == [ForEach(PendedTick, k, [i \in 1 .. k.pended |-> i]) EXCEPT !.pended = 0]
YieldIfNoted(k) ==
  [k |-> IF k.yield = 0 THEN k ELSE YieldIfPreempting(k), yielded |-> k.yield # 0 /\ k.preempt = 1]

\* Slip: the ticks counted meanwhile are not replayed.
ResumeForgetsTicks(k) ==
  LET open == [k EXCEPT !.susp = @ - 1]
  IN IF open.susp # 0 THEN [k |-> open, yielded |-> FALSE]
     ELSE YieldIfNoted([ReadyAllPended(open) EXCEPT !.pended = 0])

(* xTaskResumeAll: the tasks woken meanwhile become ready, the ticks that     *)
(* came meanwhile are counted, and a switch one of them asked for is made,    *)
(* all in one critical section.                                               *)
xTaskResumeAll(k) ==
  LET open == [configASSERT(k, k.susp # 0) EXCEPT !.susp = @ - 1]
  IN IF open.susp # 0 THEN [k |-> open, yielded |-> FALSE]
     ELSE YieldIfNoted(CountPended(ReadyAllPended(open)))
-----------------------------------------------------------------------------
(* tasks.c: waiting for an event *)

vTaskPlaceOnEventList(k, l, n) ==
  prvAddCurrentTaskToDelayedList(vListInsert(k, l, k.cur), n, TRUE)

(* The end of every wake-up: the task becomes ready, or, with the scheduler   *)
(* suspended, is left for xTaskResumeAll.                                     *)
ReadyOrPend(k, t) ==
  IF k.susp = 0 THEN prvAddTaskToReadyList(RemoveState(k, t), t)
  ELSE vListInsertEnd(k, Pending, t)

NoteHigher(k, t) == [k EXCEPT !.yield = IF k.prio[t] > k.prio[k.cur] THEN 1 ELSE @]

xTaskRemoveFromEventList(k, l) ==
  LET t == Head(k.list[l])
  IN [k |-> NoteHigher(ReadyOrPend(uxListRemove(k, l, t), t), t),
      woken |-> k.prio[t] > k.prio[k.cur]]

vTaskMissedYield(k) == [k EXCEPT !.yield = 1]

\* Slip: the wait ends one tick early.
TimeOutEarly(k, w) ==
  LET elapsed == (k.tick - w.entry) % TickMod
  IN IF w.ticks = portMAX_DELAY THEN [w |-> w, timedOut |-> FALSE]
     ELSE [w |-> w, timedOut |-> elapsed + 1 >= w.ticks]

(* xTaskCheckForTimeOut on the time of entry w.entry, w.overflows and the     *)
(* ticks w.ticks still to wait.                                               *)
xTaskCheckForTimeOut(k, w) ==
  LET elapsed == (k.tick - w.entry) % TickMod
      out == [w EXCEPT !.ticks = 0]
  IN IF w.ticks = portMAX_DELAY THEN [w |-> w, timedOut |-> FALSE]
     ELSE IF k.overflows # w.overflows /\ k.tick >= w.entry THEN [w |-> out, timedOut |-> TRUE]
     ELSE IF elapsed < w.ticks
     THEN [w |-> [w EXCEPT !.ticks = @ - elapsed, !.entry = k.tick, !.overflows = k.overflows],
           timedOut |-> FALSE]
     ELSE [w |-> out, timedOut |-> TRUE]
-----------------------------------------------------------------------------
(* tasks.c: creation and start *)

(* Before the first task: prvInitialiseTaskLists, on the zeroed variables of  *)
(* the program.  preempt and slicing are the two configuration switches.      *)
prvInitialiseTaskLists(preempt, slicing) ==
  [list |-> [l \in Lists |-> <<>>], index |-> [l \in Lists |-> 0],
   where |-> [t \in Task |-> None], evt |-> [t \in Task |-> None],
   prio |-> [t \in Task |-> 0], wake |-> [t \in Task |-> 0], left |-> [t \in Task |-> 0],
   state |-> [t \in Task |-> NotWaiting], value |-> [t \in Task |-> 0],
   cur |-> Idle, started |-> 0, del |-> 0, tick |-> 0, overflows |-> 0, unblock |-> 0,
   top |-> 0, susp |-> 0, pended |-> 0, yield |-> 0, fault |-> 0,
   preempt |-> preempt, slicing |-> slicing]

(* The tasks that have been created: their state item is in some list. *)
Created(k) == {t \in Task : k.where[t] # None}

prvInitialiseNewTask(k, t, p) ==
  [k EXCEPT !.prio[t] = p, !.state[t] = NotWaiting, !.value[t] = 0]

(* The critical section of prvAddNewTaskToReadyList: before the scheduler     *)
(* starts, the last created of the highest priority is the task to run.       *)
prvAddNewTaskToReadyList(k, t, p) ==
  LET takes == Created(k) = {} \/ (k.started = 0 /\ k.prio[k.cur] <= p)
      new == prvInitialiseNewTask(k, t, p)
  IN prvAddTaskToReadyList([new EXCEPT !.cur = IF takes THEN t ELSE @], t)

prvCreateIdleTasks(k) == prvAddNewTaskToReadyList(k, Idle, 0)

(* vTaskStartScheduler: the idle task is created and the first task entered,  *)
(* without a choice of the scheduler's.                                       *)
vTaskStartScheduler(k) ==
  [prvCreateIdleTasks(k)
     EXCEPT !.unblock = portMAX_DELAY, !.started = 1, !.tick = 0]
-----------------------------------------------------------------------------
(* The inductive invariant of the scheduler's data.  Every function above     *)
(* that is called in a state with the first three parts leaves one with them, *)
(* also in the middle of another function; the other parts hold between two   *)
(* critical sections.                                                         *)

Fields == {"list", "index", "where", "evt", "prio", "wake", "left", "state", "value", "cur",
           "started", "del", "tick", "overflows", "unblock", "top", "susp", "pended", "yield",
           "fault", "preempt", "slicing"}
DelayedLists == {Delayed(0), Delayed(1)}

Shape(x) ==
  /\ DOMAIN x = Fields
  /\ x.list \in [Lists -> Seq(Task)] /\ x.index \in [Lists -> Nat]
  /\ x.where \in [Task -> StateLists \cup {None}]
  /\ x.evt \in [Task -> EventLists \cup {Pending, None}]
  /\ x.prio \in [Task -> Priorities] /\ x.wake \in [Task -> TickType] /\ x.left \in [Task -> Int]
  /\ x.state \in [Task -> {NotWaiting, Waiting, Received}]
  /\ x.cur \in Task /\ x.del \in {0, 1} /\ x.tick \in TickType /\ x.unblock \in TickType
  /\ x.overflows \in 0 .. OverflowMod - 1 /\ x.top \in Priorities
  /\ x.susp \in Nat /\ x.pended \in Nat /\ x.yield \in {0, 1} /\ x.fault \in {0, 1}

(* A list has the tasks whose item says so, each once. *)
Holds(x, l, t) == IF l \in StateLists THEN x.where[t] = l ELSE x.evt[t] = l
Agree(x) ==
  \A l \in Lists :
    /\ x.index[l] <= Len(x.list[l])
    /\ \A i, j \in DOMAIN x.list[l] : x.list[l][i] = x.list[l][j] => i = j
    /\ \A t \in Task : (\E i \in DOMAIN x.list[l] : x.list[l][i] = t) <=> Holds(x, l, t)

(* The delayed lists are in the order of the wake times. *)
Sorted(x) ==
  \A l \in DelayedLists : \A i, j \in DOMAIN x.list[l] :
    i <= j => x.wake[x.list[l][i]] <= x.wake[x.list[l][j]]

(* A ready task is in the list of its priority, which is not above uxTopReadyPriority. *)
Right(x) ==
  \A t \in Task, p \in Priorities : x.where[t] = Ready(p) => p = x.prio[t] /\ p <= x.top

(* A delayed task is on the right side of the wrap of the tick count; nobody  *)
(* has been passed over, nor will be.                                         *)
Left(x) ==
  \A t \in Task :
    /\ x.where[t] = Delayed(x.del) => x.wake[t] >= x.tick /\ x.left[t] = x.wake[t] - x.tick
    /\ x.where[t] = Delayed(1 - x.del) =>
         x.wake[t] < x.tick /\ x.left[t] = x.wake[t] - x.tick + TickMod
Early(x) ==
  \A t \in Task : x.where[t] = Delayed(x.del) => x.wake[t] > x.tick /\ x.unblock <= x.wake[t]

Data(x) == Shape(x) /\ Agree(x) /\ Sorted(x) /\ Right(x) /\ Left(x) /\ Early(x)
=============================================================================
