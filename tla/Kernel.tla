------------------------------- MODULE Kernel -------------------------------
(* The FreeRTOS scheduler at work: tasks that call the API of tasks.c in any  *)
(* order, the tick interrupt and an application's interrupt handler that come *)
(* between any two critical sections.  One step is one critical section, or a *)
(* piece of code nothing can interfere with; pc[t] is the place of task t in  *)
(* the call it is making, <<"run", 0>> in its own code and <<"locked", 0>> in *)
(* its own code between vTaskSuspendAll and xTaskResumeAll.                   *)
EXTENDS Tasks

CONSTANTS
  Apps,       \* the applications: what main creates (boot), the functions of
              \* the API that each task (calls) and the interrupt handler (isr)
              \* call, and the numbers of ticks each task asks to wait (delays)
  MaxPended,  \* bound: ticks that come while the scheduler is suspended
  MaxValue    \* bound: notification values

ASSUME KernelAssumption ==
  /\ \A p \in Apps : /\ p.boot \in Seq((Task \ {Idle}) \X Priorities) /\ p.boot # <<>>
                     /\ \A i, j \in DOMAIN p.boot : p.boot[i][1] = p.boot[j][1] => i = j
                     /\ DOMAIN p.calls = Task /\ p.delays \in [Task -> SUBSET TickType]
  /\ MaxPended \in Nat /\ MaxValue \in Nat

VARIABLES
  app,    \* the application (never changes)
  k,      \* the variables of tasks.c
  pc,     \* the place of each task
  last,   \* *pxPreviousWakeTime of each task
  ticks,  \* tick interrupts taken, modulo 2^32 (no variable of the code)
  held    \* the tasks vTaskSuspend stopped, until one resumes them (likewise)
vars == <<app, k, pc, last, ticks, held>>

At(t, place) == k.fault = 0 /\ k.cur = t /\ pc[t][1] = place
InTask(t) == At(t, "run") \/ At(t, "locked")
Goto(t, place, n) == pc' = [pc EXCEPT ![t] = <<place, n>>]
Users == Task \ {Idle}

\* main creates a task, with its priority.
CreateOne(x, b) == prvAddNewTaskToReadyList(x, b[1], b[2])

Init ==
  /\ app \in Apps
  /\ k = vTaskStartScheduler(
           ForEach(CreateOne, prvInitialiseTaskLists(1, 1), app.boot))
  /\ pc = [t \in Task |-> <<"run", 0>>]
  /\ last = [t \in Task |-> 0]
  /\ ticks = 0
  /\ held = {}

-----------------------------------------------------------------------------
(* Interrupts *)

(* freertos_risc_v_trap_handler on the machine timer interrupt. *)
TickInterrupt ==
  /\ k.fault = 0 /\ k.pended < MaxPended
  /\ LET r == xTaskIncrementTick(k)
     IN k' = IF r.switch THEN vTaskSwitchContext(r.k) ELSE r.k
  /\ ticks' = (ticks + 1) % TickMod
  /\ UNCHANGED <<pc, last, held>>

(* What the handler an application links in place of the weak                 *)
(* freertos_risc_v_application_interrupt_handler does last:                   *)
(* portYIELD_FROM_ISR, or nothing.                                            *)
EndOfIsr(k1, woken) ==
  \/ k' = k1
  \/ woken /\ k' = vTaskSwitchContext(k1)

Above(t) == k.prio[t] > k.prio[k.cur]

(* ecall: taskYIELD in a task's own code. *)
taskYIELD(t) ==
  /\ "taskYIELD" \in app.calls[t] /\ InTask(t)
  /\ k' = vTaskSwitchContext(k)
  /\ UNCHANGED <<pc, last, ticks, held>>

(* The idle task gives way to another task of priority 0 (configIDLE_SHOULD_YIELD). *)
prvIdleTask ==
  /\ At(Idle, "run") /\ Len(k.list[Ready(0)]) > 1
  /\ k' = vTaskSwitchContext(k)
  /\ UNCHANGED <<pc, last, ticks, held>>
-----------------------------------------------------------------------------
(* Delays *)

(* vTaskDelay up to xTaskResumeAll: nobody else runs meanwhile. *)
vTaskDelay(t, n) ==
  /\ "vTaskDelay" \in app.calls[t] /\ At(t, "run") /\ n > 0
  /\ k' = prvAddCurrentTaskToDelayedList(vTaskSuspendAll(k), n, FALSE)
  /\ Goto(t, "delay", 0)
  /\ UNCHANGED <<last, ticks, held>>

xTaskDelayUntil(t, n) ==
  LET wake == (last[t] + n) % TickMod
      delays == IF k.tick < last[t] THEN wake < last[t] /\ wake > k.tick
                ELSE wake < last[t] \/ wake > k.tick
      locked == vTaskSuspendAll(k)
  IN /\ "xTaskDelayUntil" \in app.calls[t] /\ At(t, "run") /\ n > 0
     /\ k' = IF delays
             THEN prvAddCurrentTaskToDelayedList(locked, (wake - k.tick) % TickMod, FALSE)
             ELSE locked
     /\ last' = [last EXCEPT ![t] = wake]
     /\ Goto(t, "delay", 0)
     /\ UNCHANGED <<ticks, held>>

(* The end of both: xTaskResumeAll, then a yield unless that one yielded. *)
DelayResumes(t) ==
  /\ At(t, "delay")
  /\ LET r == xTaskResumeAll(k)
     IN k' = r.k /\ Goto(t, IF r.yielded THEN "run" ELSE "yield", 0)
  /\ UNCHANGED <<last, ticks, held>>

Yields(t) ==
  /\ At(t, "yield")
  /\ k' = vTaskSwitchContext(k)
  /\ Goto(t, "run", 0)
  /\ UNCHANGED <<last, ticks, held>>
-----------------------------------------------------------------------------
(* Suspending the scheduler, suspending and resuming tasks, priorities *)

SuspendAll(t) ==
  /\ "vTaskSuspendAll" \in app.calls[t] /\ At(t, "run")
  /\ k' = vTaskSuspendAll(k)
  /\ Goto(t, "locked", 0)
  /\ UNCHANGED <<last, ticks, held>>

(* xTaskCatchUpTicks, not to be called with the scheduler suspended: n ticks  *)
(* are added to the remembered ones.                                          *)
xTaskCatchUpTicks(t, n) ==
  /\ "xTaskCatchUpTicks" \in app.calls[t] /\ At(t, "run") /\ n <= MaxPended
  /\ k' = [vTaskSuspendAll(k) EXCEPT !.pended = @ + n]
  /\ ticks' = (ticks + n) % TickMod
  /\ Goto(t, "catchup", 0)
  /\ UNCHANGED <<last, held>>

ResumeAll(t) ==
  /\ At(t, "locked") \/ At(t, "catchup")
  /\ k' = xTaskResumeAll(k).k
  /\ Goto(t, "run", 0)
  /\ UNCHANGED <<last, ticks, held>>

\* Slip: the task keeps its place in the list it waits for an event on.
SuspendKeepsEvent(x) ==
  [vListInsertEnd(RemoveState(k, x), Suspended, x)
     EXCEPT !.state[x] = IF @ = Waiting THEN NotWaiting ELSE @]

(* The first critical section of vTaskSuspend. *)
SuspendedTask(x) ==
  [vListInsertEnd(RemoveEvent(RemoveState(k, x), x), Suspended, x)
     EXCEPT !.state[x] = IF @ = Waiting THEN NotWaiting ELSE @]

(* vTaskSuspend: its two critical sections, and the yield when the task       *)
(* suspended itself, which it may not do with the scheduler suspended.        *)
vTaskSuspend(t, x) ==
  /\ "vTaskSuspend" \in app.calls[t] /\ InTask(t)
  /\ x \in Created(k) \ {Idle} /\ (x = t => At(t, "run"))
  /\ k' = SuspendedTask(x)
  /\ held' = held \cup {x}
  /\ Goto(t, IF x = t THEN "suspend" ELSE IF At(t, "run") THEN "reset" ELSE "resetlocked", 0)
  /\ UNCHANGED <<last, ticks>>

SuspendEnds(t) ==
  LET reset == prvResetNextTaskUnblockTime(k)
  IN /\ \/ At(t, "suspend") /\ k' = vTaskSwitchContext(reset) /\ Goto(t, "run", 0)
        \/ At(t, "reset") /\ k' = reset /\ Goto(t, "run", 0)
        \/ At(t, "resetlocked") /\ k' = reset /\ Goto(t, "locked", 0)
     /\ UNCHANGED <<last, ticks, held>>

prvTaskIsTaskSuspended(x) ==
  k.where[x] = Suspended /\ k.evt[x] = None /\ k.state[x] # Waiting

vTaskResume(t, x) ==
  /\ "vTaskResume" \in app.calls[t] /\ InTask(t) /\ x \in Created(k) \ {t}
  /\ prvTaskIsTaskSuspended(x)
  /\ k' = YieldIfAbove(prvAddTaskToReadyList(RemoveState(k, x), x), x)
  /\ held' = held \ {x}
  /\ UNCHANGED <<pc, last, ticks>>

xTaskResumeFromISR(x) ==
  /\ "xTaskResumeFromISR" \in app.isr /\ k.fault = 0 /\ x \in Created(k)
  /\ prvTaskIsTaskSuspended(x)
  /\ LET open == k.susp = 0
         noted == IF open /\ Above(x) THEN [k EXCEPT !.yield = 1] ELSE k
     IN EndOfIsr(ReadyOrPend(noted, x), open /\ Above(x))
  /\ held' = held \ {x}
  /\ UNCHANGED <<pc, last, ticks>>

(* The critical section of vTaskPrioritySet, for a priority that differs. *)
PrioritySet(x, p) ==
  LET old == k.prio[x]
      yields == IF p > old THEN x # k.cur /\ p > k.prio[k.cur] ELSE x = k.cur
      set == [k EXCEPT !.prio[x] = p]
      moved == IF k.where[x] = Ready(old)
               THEN prvAddTaskToReadyList(RemoveState(set, x), x) ELSE set
  IN IF yields THEN YieldIfPreempting(moved) ELSE moved

vTaskPrioritySet(t, x, p) ==
  /\ "vTaskPrioritySet" \in app.calls[t] /\ InTask(t)
  /\ x \in Created(k) \ {Idle} /\ p # k.prio[x]
  /\ k' = PrioritySet(x, p)
  /\ UNCHANGED <<pc, last, ticks, held>>
-----------------------------------------------------------------------------
(* xTaskCreate while the scheduler runs.  The two allocations suspend the     *)
(* scheduler and resume it: the steps of one of them stand for both.          *)
xTaskCreate(t) ==
  /\ "xTaskCreate" \in app.calls[t] /\ At(t, "run") /\ Created(k) # Task
  /\ k' = vTaskSuspendAll(k)
  /\ Goto(t, "malloc", 0)
  /\ UNCHANGED <<last, ticks, held>>

CreateGoesOn(t) ==
  /\ \/ At(t, "malloc") /\ k' = xTaskResumeAll(k).k /\ Goto(t, "create", 0)
     \/ \E x \in Task \ Created(k), p \in Priorities :
          /\ At(t, "create")
          /\ k' = prvAddNewTaskToReadyList(k, x, p)
          /\ Goto(t, "created", p)
     \/ /\ At(t, "create") /\ Created(k) = Task  \* another task took the last one
        /\ k' = k /\ Goto(t, "run", 0)
     \/ /\ At(t, "created")
        /\ k' = IF k.prio[t] < pc[t][2] THEN YieldIfPreempting(k) ELSE k
        /\ Goto(t, "run", 0)
  /\ UNCHANGED <<last, ticks, held>>
-----------------------------------------------------------------------------
(* Task notifications *)

(* xTaskGenericNotify's update of ulNotifiedValue. *)
NotifiedValue(x, action, v) ==
  CASE action = "eSetBits" -> IF k.value[x] % 2 = 0 THEN k.value[x] + (v % 2) ELSE k.value[x]
    [] action = "eIncrement" -> k.value[x] + 1
    [] action = "eSetValueWithOverwrite" -> v
    [] action = "eSetValueWithoutOverwrite" -> IF k.state[x] = Received THEN k.value[x] ELSE v
    [] action = "eNoAction" -> k.value[x]

eNotifyAction == {"eSetBits", "eIncrement", "eSetValueWithOverwrite",
                  "eSetValueWithoutOverwrite", "eNoAction"}

(* What a notification with any action and value can make of task x. *)
NotifiedValues(x) ==
  {NotifiedValue(x, a, w) : a \in eNotifyAction, w \in 0 .. MaxValue} \cap (0 .. MaxValue)
Notified(x) ==
  {[k EXCEPT !.state[x] = Received, !.value[x] = v] : v \in NotifiedValues(x)}

(* Only tasks that wait for notifications are notified. *)
CanNotify(x) ==
  /\ k.fault = 0 /\ x \in Created(k)
  /\ {"ulTaskGenericNotifyTake", "xTaskGenericNotifyWait"} \cap app.calls[x] # {}

(* xTaskGenericNotify: a task that waits becomes ready at once. *)
xTaskGenericNotify(t, x) ==
  /\ "xTaskGenericNotify" \in app.calls[t] /\ InTask(t) /\ CanNotify(x)
  /\ \E n \in Notified(x) :
     LET ready == prvAddTaskToReadyList(RemoveState(n, x), x)
     IN k' = IF k.state[x] = Waiting
             THEN YieldIfAbove(configASSERT(ready, ready.evt[x] = None), x) ELSE n
  /\ UNCHANGED <<pc, last, ticks, held>>

\* Slip: with the scheduler suspended the interrupt only records the notification.
IsrForgets(n, x) ==
  IF n.susp = 0 THEN prvAddTaskToReadyList(RemoveState(n, x), x) ELSE n

(* How an interrupt readies a task: by xTaskResumeAll if the scheduler is     *)
(* suspended.                                                                 *)
IsrReadies(n, x) == ReadyOrPend(n, x)

(* A notification by an interrupt that leaves task x as in n. *)
IsrNotifies(n, x) ==
  /\ CanNotify(x)
  /\ IF k.state[x] = Waiting
     THEN EndOfIsr(NoteHigher(IsrReadies(configASSERT(n, k.evt[x] = None), x), x), Above(x))
     ELSE k' = n
  /\ UNCHANGED <<pc, last, ticks, held>>

xTaskGenericNotifyFromISR(x) ==
  "xTaskGenericNotifyFromISR" \in app.isr /\ \E n \in Notified(x) : IsrNotifies(n, x)

vTaskGenericNotifyGiveFromISR(x) ==
  /\ "vTaskGenericNotifyGiveFromISR" \in app.isr /\ k.value[x] < MaxValue
  /\ IsrNotifies([k EXCEPT !.state[x] = Received, !.value[x] = @ + 1], x)

(* ulTaskGenericNotifyTake ("take") and xTaskGenericNotifyWait ("wait"): the  *)
(* first critical section, with the scheduler suspended.  A task that does    *)
(* not wait is marked as waiting all the same.                                *)
NotifyTake(t, n) ==
  /\ "ulTaskGenericNotifyTake" \in app.calls[t] /\ At(t, "run")
  /\ IF k.value[t] = 0
     THEN /\ k' = [vTaskSuspendAll(k) EXCEPT !.state[t] = Waiting]
          /\ IF n > 0 THEN Goto(t, "block_take", n) ELSE Goto(t, "nowait", "take")
     ELSE k' = vTaskSuspendAll(k) /\ Goto(t, "nowait", "take")
  /\ UNCHANGED <<last, ticks, held>>

(* The bits cleared on entry are all of the value or none. *)
NotifyWait(t, n, clearsOnEntry) ==
  /\ "xTaskGenericNotifyWait" \in app.calls[t] /\ At(t, "run")
  /\ IF k.state[t] # Received
     THEN /\ k' = [vTaskSuspendAll(k) EXCEPT !.state[t] = Waiting,
                                             !.value[t] = IF clearsOnEntry THEN 0 ELSE @]
          /\ IF n > 0 THEN Goto(t, "block_wait", n) ELSE Goto(t, "nowait", "wait")
     ELSE k' = vTaskSuspendAll(k) /\ Goto(t, "nowait", "wait")
  /\ UNCHANGED <<last, ticks, held>>

(* The middle of both: an interrupt may already have answered. *)
NotifyBlocks(t) ==
  /\ \/ At(t, "block_take") /\ Goto(t, "blocked", "take")
     \/ At(t, "block_wait") /\ Goto(t, "blocked", "wait")
  /\ k' = prvAddCurrentTaskToDelayedList(k, pc[t][2], TRUE)
  /\ UNCHANGED <<last, ticks, held>>

NotifyResumes(t) ==
  /\ LET r == xTaskResumeAll(k)
     IN \/ /\ At(t, "blocked") /\ k' = r.k
           /\ Goto(t, IF r.yielded THEN "collect" ELSE "handover", pc[t][2])
        \/ At(t, "nowait") /\ k' = r.k /\ Goto(t, "collect", pc[t][2])
  /\ UNCHANGED <<last, ticks, held>>

NotifyHandsOver(t) ==
  /\ At(t, "handover")
  /\ k' = vTaskSwitchContext(k)
  /\ Goto(t, "collect", pc[t][2])
  /\ UNCHANGED <<last, ticks, held>>

(* The last critical section: take clears the count or lowers it by one.      *)
TakeCollects(t) ==
  /\ At(t, "collect") /\ pc[t][2] = "take"
  /\ \E v \in {0, k.value[t] - 1} \cap Nat :
       k' = [k EXCEPT !.value[t] = v, !.state[t] = NotWaiting]
  /\ Goto(t, "run", 0)
  /\ UNCHANGED <<last, ticks, held>>

(* The bits wait clears on exit are all of the value or none, and only those  *)
(* of a notification.                                                         *)
WaitCollects(t) ==
  /\ At(t, "collect") /\ pc[t][2] = "wait"
  /\ \E v \in IF k.state[t] = Received THEN {0, k.value[t]} ELSE {k.value[t]} :
       k' = [k EXCEPT !.value[t] = v, !.state[t] = NotWaiting]
  /\ Goto(t, "run", 0)
  /\ UNCHANGED <<last, ticks, held>>

xTaskGenericNotifyStateClear(t, x) ==
  /\ "xTaskGenericNotifyStateClear" \in app.calls[t] /\ InTask(t) /\ k.state[x] = Received
  /\ k' = [k EXCEPT !.state[x] = NotWaiting]
  /\ UNCHANGED <<pc, last, ticks, held>>

(* All the bits of the value, or the lowest one. *)
ulTaskGenericNotifyValueClear(t, x) ==
  /\ "ulTaskGenericNotifyValueClear" \in app.calls[t] /\ InTask(t)
  /\ \E v \in {0, 2 * (k.value[x] \div 2)} : k' = [k EXCEPT !.value[x] = v]
  /\ UNCHANGED <<pc, last, ticks, held>>
-----------------------------------------------------------------------------
Call(t) ==
  \/ taskYIELD(t) \/ SuspendAll(t) \/ ResumeAll(t) \/ SuspendEnds(t)
  \/ DelayResumes(t) \/ Yields(t)
  \/ xTaskCreate(t) \/ CreateGoesOn(t)
  \/ NotifyBlocks(t) \/ NotifyResumes(t) \/ NotifyHandsOver(t)
  \/ TakeCollects(t) \/ WaitCollects(t)
  \/ \E n \in app.delays[t] : \/ vTaskDelay(t, n) \/ xTaskDelayUntil(t, n) \/ NotifyTake(t, n)
                       \/ xTaskCatchUpTicks(t, n)
                       \/ \E b \in BOOLEAN : NotifyWait(t, n, b)
  \/ \E x \in Task : \/ vTaskSuspend(t, x) \/ vTaskResume(t, x) \/ xTaskGenericNotify(t, x)
                     \/ xTaskGenericNotifyStateClear(t, x) \/ ulTaskGenericNotifyValueClear(t, x)
                     \/ \E p \in Priorities : vTaskPrioritySet(t, x, p)

Interrupt ==
  \/ TickInterrupt
  \/ \E x \in Task : xTaskResumeFromISR(x) \/ xTaskGenericNotifyFromISR(x) \/ vTaskGenericNotifyGiveFromISR(x)

Next == (Interrupt \/ prvIdleTask \/ \E t \in Users : Call(t)) /\ UNCHANGED app
Spec == Init /\ [][Next]_vars
-----------------------------------------------------------------------------
(* What the scheduler keeps true *)

TypeOK ==
  /\ k.cur \in Task /\ k.prio \in [Task -> Priorities]
  /\ k.tick \in TickType /\ k.unblock \in TickType /\ k.overflows \in 0 .. OverflowMod - 1
  /\ k.where \in [Task -> StateLists \cup {None}]
  /\ k.evt \in [Task -> EventLists \cup {Pending, None}]
  /\ k.susp \in 0 .. 1 /\ k.pended \in 0 .. MaxPended /\ k.yield \in {0, 1}
  /\ k.state \in [Task -> {NotWaiting, Waiting, Received}]
  /\ last \in [Task -> TickType] /\ held \subseteq Users

(* Every list holds exactly the items that name it as their container, each   *)
(* once, and pxIndex is a member of its list or the end marker.  The list     *)
(* functions of list.c trust this: an item in two lists is how a scheduler is *)
(* corrupted.                                                                 *)
ListsAgree ==
  \A l \in Lists :
    /\ \A t \in Task : Cardinality({i \in DOMAIN k.list[l] : k.list[l][i] = t})
                         = IF l \in {k.where[t], k.evt[t]} THEN 1 ELSE 0
    /\ k.index[l] \in 0 .. Len(k.list[l])

(* No configASSERT of the modelled functions fails: the delayed list is empty *)
(* when the tick count wraps (tasks.c:4703), a waiting task has no event item *)
(* (tasks.c:7913, 8052), a task to run is always found (tasks.c:5114).        *)
NoAssertFails == k.fault = 0

(* The processor belongs to a ready task that no ready task is above, once    *)
(* the running task is back in its own code and no switch is pending.         *)
HighestReadyRuns ==
  pc[k.cur][1] = "run" /\ k.susp = 0 /\ k.yield = 0 =>
    /\ k.where[k.cur] = Ready(k.prio[k.cur])
    /\ \A t \in Task : k.where[t] = Ready(k.prio[t]) => k.prio[t] <= k.prio[k.cur]

(* uxTopReadyPriority is never below a ready task: the search of              *)
(* taskSELECT_HIGHEST_PRIORITY_TASK starts there and goes down only.          *)
TopIsHighest == \A p \in Priorities : k.list[Ready(p)] # <<>> => p <= k.top

(* The scheduler's data are sound: the lists, the cached top priority, the     *)
(* types, and with them every configASSERT of tasks.c.                         *)
SchedulerIsSound == TypeOK /\ ListsAgree /\ TopIsHighest /\ NoAssertFails

(* A task in a delayed list is woken by the very tick it asked for, across    *)
(* the wrap of the tick count: its wake time is as many ticks away as it has  *)
(* still to wait, it is in the list that belongs to that side of the wrap,    *)
(* and xNextTaskUnblockTime is not after it.                                  *)
WakesOnTime ==
  \A t \in Task :
    LET away == (k.wake[t] - k.tick) % TickMod
    IN /\ k.where[t] = Delayed(k.del) =>
            k.wake[t] > k.tick /\ k.left[t] = away /\ k.unblock <= k.wake[t]
       /\ k.where[t] = Delayed(1 - k.del) => k.wake[t] <= k.tick /\ k.left[t] = away

(* Every tick interrupt is counted, at once or by xTaskResumeAll. *)
NoTickIsLost == (k.tick + k.pended) % TickMod = ticks

(* A notification ends the wait it is for: a task blocked for one is, once it *)
(* is notified, already on its way to the ready list.                         *)
NoNotificationIsLost ==
  \A t \in Users \ held :
    pc[t][1] \in {"blocked", "handover", "collect"} /\ k.state[t] = Received =>
      k.where[t] = Ready(k.prio[t]) \/ k.evt[t] = Pending

(* A task that vTaskSuspend stopped stays out of the ready lists until        *)
(* somebody resumes it, and can be resumed.                                   *)
SuspendedStaysOut ==
  \A t \in held : k.where[t] = Suspended /\ (k.cur # t => prvTaskIsTaskSuspended(t))
-----------------------------------------------------------------------------
(* The inductive invariant *)

(* The places of a task that has suspended the scheduler; the last five are   *)
(* those of a blocking call of queue.c.                                       *)
Locking == {"delay", "locked", "catchup", "resetlocked", "malloc", "block_take", "block_wait",
            "blocked", "nowait", "lock", "place", "unlock_tx", "unlock_rx", "resume_all"}

(* Where the running task may be out of the ready list, and where it is about *)
(* to give way.                                                               *)
Leaving == {"delay", "blocked", "yield", "handover", "suspend", "unlock_tx", "unlock_rx",
            "resume_all", "give_way"}
Yielding == {"yield", "handover", "suspend", "give_way"}

(* The places of a wait for a notification. *)
Notifying == {"block_take", "block_wait", "blocked", "nowait", "handover", "collect"}

(* Only the running task has suspended the scheduler, once. *)
PlacesInv ==
  /\ DOMAIN pc = Task
  /\ \A t \in Task : pc[t][1] \in Locking => t = k.cur
  /\ k.susp = IF pc[k.cur][1] \in Locking THEN 1 ELSE 0
  /\ \A t \in Task : /\ pc[t][1] \in {"block_take", "block_wait"} => pc[t][2] \in TickType \ {0}
                     /\ pc[t][1] = "created" => pc[t][2] \in Priorities

(* A task whose event item is in a list is not waiting for a notification.    *)
(* The item is in xPendingReadyList only while the scheduler is suspended,    *)
(* and on a wait list only while the task is out of the ready list.           *)
Parked(x) ==
  \A t \in Task :
    /\ x.evt[t] # None => x.where[t] # None /\ x.state[t] # Waiting
    /\ x.evt[t] = Pending => x.susp = 1
    /\ x.evt[t] \in EventLists => x.where[t] \in DelayedLists \cup {Suspended}

ItemsInv ==
  /\ Parked(k) /\ k.where[k.cur] # None /\ k.where[Idle] = Ready(0) /\ k.prio[Idle] = 0
  /\ k.state[Idle] # Waiting

TimeInv ==
  /\ k.pended \in 0 .. MaxPended /\ (k.susp = 0 => k.pended = 0)
  /\ last \in [Task -> TickType] /\ ticks = (k.tick + k.pended) % TickMod

HeldInv ==
  /\ held \subseteq Users /\ (k.cur \in held => pc[k.cur][1] = "suspend")
  /\ \A t \in held : k.where[t] = Suspended /\ k.evt[t] = None /\ k.state[t] # Waiting

(* The running task is ready except where it is about to give way, and while  *)
(* no switch is pending nobody above it is ready, except perhaps the task it  *)
(* has just created.                                                          *)
RunsInv ==
  /\ pc[k.cur][1] \notin Leaving => k.where[k.cur] = Ready(k.prio[k.cur])
  /\ k.yield = 0 /\ pc[k.cur][1] \notin Yielding =>
       \A t \in Task : k.where[t] = Ready(k.prio[t]) =>
         \/ k.prio[t] <= k.prio[k.cur]
         \/ pc[k.cur][1] = "created" /\ k.prio[t] <= pc[k.cur][2]

(* A task on its way through a wait for a notification is marked as waiting   *)
(* for one, or on its way to the ready list.                                  *)
NotesInv ==
  /\ \A t \in Users \ held :
       pc[t][1] \in {"blocked", "handover", "collect"} /\ k.state[t] # Waiting =>
         k.where[t] = Ready(k.prio[t]) \/ k.evt[t] = Pending
  /\ \A t \in Task :
       pc[t][1] \in {"block_take", "block_wait"} /\ k.state[t] # Waiting => k.evt[t] = Pending

SchedInv ==
  /\ app \in Apps /\ Data(k) /\ k.fault = 0 /\ k.preempt = 1 /\ k.started = 1
  /\ PlacesInv /\ ItemsInv /\ TimeInv /\ HeldInv /\ RunsInv /\ NotesInv
=============================================================================
