------------------------------- MODULE Queue -------------------------------
(* kernel/queue.c on the scheduler of Kernel: one queue, or one semaphore     *)
(* (a queue of items without size), between tasks and an interrupt handler.   *)
(* A blocking call is a loop of critical sections.  While a task is between   *)
(* finding the queue full (empty) and being on its wait list the scheduler is *)
(* suspended and the queue locked: an interrupt then leaves the wait lists    *)
(* alone and counts in cTxLock or cRxLock what prvUnlockQueue has to make up  *)
(* for.                                                                       *)
EXTENDS Kernel

CONSTANT Item  \* what is sent

(* An application also says with which length and item size (1, or 0 for a    *)
(* semaphore) it creates its queue, and what it sends (items).                *)
ASSUME QueueAssumption ==
  /\ {<<"rx", 0>>, <<"tx", 0>>} \subseteq EventLists
  /\ \A p \in Apps : p.length \in Nat \ {0} /\ p.size \in {0, 1} /\ p.items \subseteq Item

VARIABLES
  q,    \* the Queue_t, and got, the item last copied out (no member of it)
  w     \* for each task, its blocking call: the variables of the function
qvars == <<vars, q, w>>

Rx == <<"rx", 0>>
Tx == <<"tx", 0>>
queueUNLOCKED == -1

NoCall == [call |-> "none"]

(* xQueueGenericCreate: xQueueGenericReset of a new queue.  write and read are *)
(* pcWriteTo and pcReadFrom.                                                  *)
QueueInit ==
  /\ Init
  /\ \E i \in app.items :
       q = [length |-> app.length, size |-> app.size, n |-> 0, got |-> i,
            buf |-> [j \in 0 .. app.length - 1 |-> i], write |-> 0, read |-> app.length - 1,
            tx |-> queueUNLOCKED, rx |-> queueUNLOCKED, reset |-> 0]
  /\ w = [t \in Task |-> NoCall]
-----------------------------------------------------------------------------
(* The storage *)

prvIsQueueEmpty == q.n = 0
prvIsQueueFull == q.n = q.length

\* Slip: the write position runs past the end of the storage before it turns.
CopyWrapsLate(item, position) ==
  LET stored == [q EXCEPT !.buf = [@ EXCEPT ![q.write] = item],
                          !.write = IF @ = q.length THEN 0 ELSE @ + 1]
  IN [stored EXCEPT !.n = @ + 1]

prvCopyDataToQueue(item, position) ==
  LET back == [q EXCEPT !.buf[q.write] = item, !.write = (@ + 1) % q.length]
      front == [q EXCEPT !.buf[q.read] = item, !.read = (@ - 1) % q.length]
      stored == IF q.size = 0 THEN q ELSE IF position = "back" THEN back ELSE front
  IN [stored EXCEPT !.n = IF q.size # 0 /\ position = "overwrite" /\ @ > 0 THEN @ ELSE @ + 1]

prvCopyDataFromQueue ==
  LET at == (q.read + 1) % q.length
  IN IF q.size = 0 THEN q ELSE [q EXCEPT !.read = at, !.got = q.buf[at]]
-----------------------------------------------------------------------------
(* Waking those who wait *)

WakeFirst(k1, l) ==
  IF k1.list[l] = <<>> THEN [k |-> k1, woken |-> FALSE] ELSE xTaskRemoveFromEventList(k1, l)

(* From a task, which gives way at once. *)
WakeAndYield(l) ==
  LET r == WakeFirst(k, l) IN IF r.woken THEN YieldIfPreempting(r.k) ELSE r.k

(* prvIncrementQueueTxLock, prvIncrementQueueRxLock: one more wake-up to make *)
(* up for, but never more than there are tasks.                               *)
IncrementLock(lock) == IF lock < Cardinality(Created(k)) THEN lock + 1 ELSE lock

prvLockQueue ==
  [q EXCEPT !.tx = IF @ = queueUNLOCKED THEN 0 ELSE @, !.rx = IF @ = queueUNLOCKED THEN 0 ELSE @]

\* Slip: what happened while the queue was locked is forgotten.
UnlockForgets(l, lock) == k

(* One half of prvUnlockQueue: as many wake-ups as interrupts left out. *)
MakeUpForOne(k1, l) ==
  LET r == WakeFirst(k1, l) IN IF r.woken THEN vTaskMissedYield(r.k) ELSE r.k
LeftOut(lock) == IF lock > 0 THEN lock ELSE 0
MakeUpFor(l, lock) ==
  ForEach(LAMBDA k1, i : MakeUpForOne(k1, l), k, [i \in 1 .. LeftOut(lock) |-> i])
-----------------------------------------------------------------------------
(* The calls.  A blocking call keeps the ticks it may still wait and the time *)
(* it started waiting; asked and waited are the ticks it was given and the    *)
(* tick interrupts since it found the queue not ready (no variables of code). *)

Sends(c) == c.call \in {"back", "front", "overwrite"}
NotReady(c) == IF Sends(c) THEN prvIsQueueFull /\ c.call # "overwrite" ELSE prvIsQueueEmpty
WaitList(c) == IF Sends(c) THEN Tx ELSE Rx

(* What the first critical section does to a queue that is ready. *)
Done(c) ==
  CASE Sends(c) -> prvCopyDataToQueue(c.item, c.call)
    [] c.call = "receive" -> [prvCopyDataFromQueue EXCEPT !.n = @ - 1]
    [] c.call = "peek" -> [prvCopyDataFromQueue EXCEPT !.read = q.read]

(* Whom that wakes: a peek leaves the item, so that another receiver may go.  *)
Wakes(c) == IF c.call = "receive" THEN Tx ELSE Rx

(* The time of entry, which nobody looks at if the wait is for ever. *)
vTaskInternalSetTimeOutState(c) ==
  IF c.ticks = portMAX_DELAY THEN c
  ELSE [c EXCEPT !.entry = k.tick, !.overflows = k.overflows]

(* The first critical section of xQueueGenericSend, xQueueReceive, xQueuePeek *)
(* and xQueueSemaphoreTake (a receive of no data).                            *)
Try(t, c) ==
  IF ~NotReady(c)
  THEN /\ q' = Done(c) /\ k' = WakeAndYield(Wakes(c))
       /\ Goto(t, "run", 0) /\ w' = [w EXCEPT ![t] = NoCall]
  ELSE IF c.ticks = 0
  THEN Goto(t, "failed", 0) /\ w' = [w EXCEPT ![t] = c] /\ UNCHANGED <<k, q>>
  ELSE /\ Goto(t, "suspend_all", 0) /\ UNCHANGED <<k, q>>
       /\ w' = [w EXCEPT ![t] = IF c.set = 1 THEN c
                                ELSE [vTaskInternalSetTimeOutState(c) EXCEPT !.set = 1]]

QueueCalls(t) ==
  [call : {"back", "front", "overwrite"}, item : app.items, ticks : app.delays[t]]
    \cup [call : {"receive", "peek"}, item : {q.got}, ticks : app.delays[t]]

(* A call from a task's own code, with the arguments the API allows: data is  *)
(* peeked at only in a queue, and only a queue of one item is overwritten.    *)
QueueCall(t, c) ==
  /\ c.call \in app.calls[t] /\ At(t, "run")
  /\ c.call = "overwrite" => q.length = 1
  /\ q.size = 0 => c.call \in {"back", "receive"}
  /\ Try(t, [call |-> c.call, item |-> c.item, ticks |-> c.ticks, set |-> 0, entry |-> 0,
             overflows |-> 0, asked |-> c.ticks, waited |-> 0, out |-> "retry"])
  /\ UNCHANGED <<last, ticks, held>>

TryAgain(t) ==
  /\ At(t, "again") /\ Try(t, w[t])
  /\ UNCHANGED <<last, ticks, held>>

(* The caller goes on with errQUEUE_FULL or errQUEUE_EMPTY. *)
Fails(t) ==
  /\ At(t, "failed") /\ Goto(t, "run", 0) /\ w' = [w EXCEPT ![t] = NoCall]
  /\ UNCHANGED <<k, q, last, ticks, held>>

QueueSuspendsAll(t) ==
  /\ At(t, "suspend_all") /\ k' = vTaskSuspendAll(k) /\ Goto(t, "lock", 0)
  /\ UNCHANGED <<q, w, last, ticks, held>>

(* prvLockQueue and xTaskCheckForTimeOut. *)
LockAndCheck(t) ==
  /\ At(t, "lock")
  /\ LET r == xTaskCheckForTimeOut(k, w[t])
     IN IF r.timedOut
        THEN w' = [w EXCEPT ![t] = [r.w EXCEPT !.out = "timeout"]] /\ Goto(t, "unlock_tx", 0)
        ELSE w' = [w EXCEPT ![t] = r.w] /\ Goto(t, "place", 0)
  /\ q' = prvLockQueue
  /\ UNCHANGED <<k, last, ticks, held>>

(* prvIsQueueFull or prvIsQueueEmpty, and vTaskPlaceOnEventList.  An          *)
(* interrupt between the two changes neither the wait lists nor the place.    *)
Place(t) ==
  /\ At(t, "place") /\ Goto(t, "unlock_tx", 0)
  /\ IF NotReady(w[t])
     THEN /\ k' = vTaskPlaceOnEventList(k, WaitList(w[t]), w[t].ticks)
          /\ w' = [w EXCEPT ![t].out = "wait"]
     ELSE k' = k /\ w' = [w EXCEPT ![t].out = "retry"]
  /\ UNCHANGED <<q, last, ticks, held>>

(* prvUnlockQueue, two critical sections. *)
UnlockTx(t) ==
  /\ At(t, "unlock_tx") /\ Goto(t, "unlock_rx", 0)
  /\ k' = MakeUpFor(Rx, q.tx) /\ q' = [q EXCEPT !.tx = queueUNLOCKED]
  /\ UNCHANGED <<w, last, ticks, held>>

UnlockRx(t) ==
  /\ At(t, "unlock_rx") /\ Goto(t, "resume_all", 0)
  /\ k' = MakeUpFor(Tx, q.rx) /\ q' = [q EXCEPT !.rx = queueUNLOCKED]
  /\ UNCHANGED <<w, last, ticks, held>>

(* xTaskResumeAll: a task that is to wait gives way, and tries again when it  *)
(* comes back; a send that timed out fails, a receive looks once more.        *)
QueueResumesAll(t) ==
  /\ At(t, "resume_all")
  /\ LET r == xTaskResumeAll(k)
     IN /\ k' = r.k
        /\ Goto(t, CASE w[t].out = "wait" -> IF r.yielded THEN "again" ELSE "give_way"
                     [] w[t].out = "retry" -> "again"
                     [] w[t].out = "timeout" -> IF Sends(w[t]) THEN "failed" ELSE "look", 0)
  /\ UNCHANGED <<q, w, last, ticks, held>>

GiveWay(t) ==
  /\ At(t, "give_way") /\ k' = vTaskSwitchContext(k) /\ Goto(t, "again", 0)
  /\ UNCHANGED <<q, w, last, ticks, held>>

LookOnceMore(t) ==
  /\ At(t, "look") /\ Goto(t, IF prvIsQueueEmpty THEN "failed" ELSE "again", 0)
  /\ UNCHANGED <<k, q, w, last, ticks, held>>

(* xQueueGenericReset by a task: one sender is woken, however much room there *)
(* is now.                                                                    *)
xQueueGenericReset(t) ==
  /\ "reset" \in app.calls[t] /\ At(t, "run")
  /\ q' = [q EXCEPT !.n = 0, !.write = 0, !.read = q.length - 1, !.reset = 1,
                    !.tx = queueUNLOCKED, !.rx = queueUNLOCKED]
  /\ k' = WakeAndYield(Tx)
  /\ UNCHANGED <<pc, w, last, ticks, held>>
-----------------------------------------------------------------------------
(* The interrupt handler *)

(* The queue is filled: a receiver is woken, or prvUnlockQueue will do it. *)
IsrFills(filled) ==
  /\ k.fault = 0
  /\ LET r == WakeFirst(k, Rx)
     IN IF q.tx = queueUNLOCKED
        THEN q' = filled /\ EndOfIsr(r.k, r.woken)
        ELSE q' = [filled EXCEPT !.tx = IncrementLock(@)] /\ k' = k
  /\ UNCHANGED <<pc, w, last, ticks, held>>

xQueueGenericSendFromISR(item, position) ==
  /\ position \in app.isr /\ q.size # 0
  /\ IF position = "overwrite" THEN q.length = 1 ELSE ~prvIsQueueFull
  /\ IsrFills(prvCopyDataToQueue(item, position))

(* For a semaphore *)
xQueueGiveFromISR ==
  /\ "back" \in app.isr /\ q.size = 0 /\ q.n < q.length
  /\ IsrFills([q EXCEPT !.n = @ + 1])

xQueueReceiveFromISR ==
  /\ "receive" \in app.isr /\ k.fault = 0 /\ ~prvIsQueueEmpty
  /\ LET taken == [prvCopyDataFromQueue EXCEPT !.n = @ - 1]
         r == WakeFirst(k, Tx)
     IN IF q.rx = queueUNLOCKED
        THEN q' = taken /\ EndOfIsr(r.k, r.woken)
        ELSE q' = [taken EXCEPT !.rx = IncrementLock(@)] /\ k' = k
  /\ UNCHANGED <<pc, w, last, ticks, held>>

QueueTick ==
  /\ TickInterrupt
  /\ w' = [t \in Task |-> IF w[t] # NoCall /\ w[t].set = 1 /\ w[t].asked # portMAX_DELAY
                             /\ w[t].waited < w[t].asked
                          THEN [w[t] EXCEPT !.waited = @ + 1] ELSE w[t]]
  /\ UNCHANGED q
-----------------------------------------------------------------------------
QueueStep(t) ==
  \/ TryAgain(t) \/ Fails(t) \/ QueueSuspendsAll(t) \/ LockAndCheck(t) \/ Place(t)
  \/ UnlockTx(t) \/ UnlockRx(t) \/ QueueResumesAll(t) \/ GiveWay(t) \/ LookOnceMore(t)
  \/ xQueueGenericReset(t)
  \/ \E c \in QueueCalls(t) : QueueCall(t, c)

QueueInterrupt ==
  \/ QueueTick \/ xQueueReceiveFromISR \/ xQueueGiveFromISR
  \/ \E i \in app.items, p \in {"back", "front", "overwrite"} : xQueueGenericSendFromISR(i, p)

QueueNext ==
  /\ \/ QueueInterrupt
     \/ \E t \in Users : QueueStep(t)
     \/ (prvIdleTask \/ \E t \in Users : Call(t)) /\ UNCHANGED <<q, w>>
  /\ UNCHANGED app
QueueSpec == QueueInit /\ [][QueueNext]_qvars
-----------------------------------------------------------------------------
(* The tasks in a blocking call that will look at the queue again, and need   *)
(* nobody to wake them for it (one that vTaskSuspend stopped, when it is      *)
(* resumed).                                                                  *)
Looking(t) ==
  /\ w[t] # NoCall /\ k.evt[t] \notin {Rx, Tx}
  /\ pc[t][1] \notin {"failed", "run"}

(* What prvUnlockQueue will make up for: a lock count that has reached the    *)
(* number of tasks is enough for all of them.                                 *)
MadeUpFor(lock, looking, there) ==
  \/ there <= LeftOut(lock) + Cardinality(looking)
  \/ lock >= Cardinality(Created(k))

(* No wake-up is lost between an interrupt and a task about to wait: a task   *)
(* on xTasksWaitingToReceive sleeps beside an item only if there are as many  *)
(* receivers on their way as items, or prvUnlockQueue will make up for it.    *)
NoReceiverForgotten ==
  k.list[Rx] # <<>> => MadeUpFor(q.tx, {t \in Users : Looking(t) /\ ~Sends(w[t])}, q.n)

(* The same for room in the queue and the tasks on xTasksWaitingToSend, until *)
(* xQueueGenericReset frees many places at once.                              *)
NoSenderForgotten ==
  k.list[Tx] # <<>> /\ q.reset = 0 =>
    MadeUpFor(q.rx, {t \in Users : Looking(t) /\ Sends(w[t])}, q.length - q.n)

(* A blocking call fails only after as many ticks as it was given, however    *)
(* often it was woken in vain and the tick count wrapped.                     *)
TimeoutIsHonest ==
  \A t \in Users : pc[t][1] = "failed" =>
    w[t].waited >= w[t].asked /\ w[t].asked # portMAX_DELAY

(* The queue is locked only by the running task, which has suspended the      *)
(* scheduler, and nobody else is in the middle of waiting.                    *)
LockIsHeldAlone ==
  q.tx # queueUNLOCKED \/ q.rx # queueUNLOCKED =>
    k.susp = 1 /\ pc[k.cur][1] \in {"place", "unlock_tx", "unlock_rx"}

(* Nobody sleeps beside what he waits for: neither a receiver beside an item  *)
(* nor a sender beside a place, with the lock of the queue in one hand and    *)
(* its event lists in order (queue.c, prvUnlockQueue and the ISR functions).  *)
WaitersAreServed == ListsAgree /\ LockIsHeldAlone /\ NoReceiverForgotten /\ NoSenderForgotten

Oldest == [j \in 1 .. q.n |-> IF q.size = 0 THEN q.got ELSE q.buf[(q.read + j) % q.length]]
F(length) == INSTANCE Fifo WITH items <- Oldest, got <- q.got, Length <- length

(* The ring buffer with its two positions is a first-in first-out queue,      *)
(* whatever mix of sends to either end, overwrites, peeks and resets tasks    *)
(* and interrupts make of it.                                                 *)
IsFifo == [][\E length \in {q.length} : F(length)!Next]_<<Oldest, q.got>>
-----------------------------------------------------------------------------
(* The inductive invariant of the storage.  It says nothing of the scheduler: *)
(* the ring is sound whoever runs, and whenever.                              *)

QueueFields == {"length", "size", "n", "got", "buf", "write", "read", "tx", "rx", "reset"}
CallFields == {"call", "item", "ticks", "set", "entry", "overflows", "asked", "waited", "out"}

(* pcWriteTo is one place behind the last of the items that follow pcReadFrom. *)
RingInv ==
  /\ DOMAIN q = QueueFields
  /\ q.length \in Nat \ {0} /\ q.size \in {0, 1} /\ q.n \in 0 .. q.length /\ q.got \in Item
  /\ q.read \in 0 .. q.length - 1 /\ q.write \in 0 .. q.length - 1
  /\ q.buf \in [0 .. q.length - 1 -> Item]
  /\ q.size = 1 => q.write = (q.read + q.n + 1) % q.length

(* A task between the critical sections of a blocking call has its arguments, *)
(* and they are what the API allows.                                          *)
Lawful(c) ==
  /\ c.call \in {"back", "front", "overwrite", "receive", "peek"} /\ c.item \in Item
  /\ c.call = "overwrite" => q.length = 1
  /\ q.size = 0 => c.call \in {"back", "receive"}

Calling == {"failed", "suspend_all", "lock", "place", "unlock_tx", "unlock_rx", "resume_all",
            "give_way", "again", "look"}
CallInv ==
  /\ DOMAIN w = Task /\ DOMAIN pc = Task
  /\ \A t \in Task : pc[t][1] \in Calling => DOMAIN w[t] = CallFields /\ Lawful(w[t])

StorageInv == app \in Apps /\ RingInv /\ CallInv

\* What the step leaves alone of t's call: its kind, item and ticks asked for.
SameArguments(t) ==
  /\ w'[t].call = w[t].call /\ w'[t].item = w[t].item
  /\ w'[t].asked = w[t].asked

(* A call that was interrupted or went to sleep comes back with the arguments *)
(* it was made with: from its first critical section to its return the loop   *)
(* of xQueueGenericSend, xQueueReceive, xQueuePeek and xQueueSemaphoreTake    *)
(* neither turns into another call nor sends another item, though it writes   *)
(* the ticks it may still wait into its own parameter.                        *)
CallsKeepTheirArguments ==
  [][\A t \in Task : pc[t][1] \in Calling /\ pc'[t][1] \in Calling => SameArguments(t)]_qvars
-----------------------------------------------------------------------------
(* The inductive invariant of the calls that wait *)

(* A task in a blocking call is on the list of what it waits for only from    *)
(* vTaskPlaceOnEventList until it looks at the queue again, and one that was  *)
(* not put on it is ready as long as it holds the queue.                      *)
Asleep == {"unlock_tx", "unlock_rx", "resume_all", "give_way", "again"}
Waits(t) ==
  /\ w[t] # NoCall <=> pc[t][1] \in Calling
  /\ k.state[t] = Waiting => pc[t][1] \in Notifying
  /\ k.evt[t] \in EventLists => pc[t][1] \in Calling /\ k.evt[t] = WaitList(w[t])
  /\ pc[t][1] \in Calling =>
       /\ t # Idle /\ w[t].call # "overwrite"
       /\ w[t].ticks \in TickType /\ w[t].entry \in TickType
       /\ w[t].out \in {"wait", "retry", "timeout"}
       /\ k.evt[t] # None => pc[t][1] \in Asleep /\ w[t].out = "wait"
       /\ pc[t][1] = "place" => w[t].ticks # 0
       /\ pc[t][1] = "give_way" => w[t].out # "timeout"
       /\ pc[t][1] \in {"unlock_tx", "unlock_rx", "resume_all"} /\ w[t].out # "wait" =>
            k.where[t] = Ready(k.prio[t])
WaitInv == \A t \in Task : Waits(t)

(* The two locks, and the task that has them. *)
LockInv ==
  /\ q.tx \in Int /\ q.tx >= -1 /\ q.rx \in Int /\ q.rx >= -1
  /\ q.tx # queueUNLOCKED <=> \E t \in Task : pc[t][1] \in {"place", "unlock_tx"}
  /\ q.rx # queueUNLOCKED <=> \E t \in Task : pc[t][1] \in {"place", "unlock_tx", "unlock_rx"}

(* The tasks that will try before they may fail: what they found the last     *)
(* time does not count any more.                                              *)
Eager(t) ==
  /\ pc[t][1] \in Asleep /\ k.evt[t] \notin {Rx, Tx}
  /\ pc[t][1] \in {"unlock_tx", "unlock_rx", "resume_all"} => w[t].out # "timeout"
Will(l) == {t \in Users : Eager(t) /\ WaitList(w[t]) = l}

(* Of each wait list: the wake-ups left out, and the items or places there.   *)
LockOf(l) == IF l = Rx THEN q.tx ELSE q.rx
There(l) == IF l = Rx THEN q.n ELSE q.length - q.n
Served(l) == (\E t \in Task : k.evt[t] = l) => MadeUpFor(LockOf(l), Will(l), There(l))
ServeInv == Served(Rx) /\ (q.reset = 0 => Served(Tx))

(* The ticks a call was given, those it has still to wait since its entry     *)
(* time, and those counted since then; e is 1 if the count has wrapped.       *)
Elapsed(x, c) == c.waited - (c.asked - c.ticks) - x.pended
Punctual(x, c) ==
  /\ Elapsed(x, c) >= 0
  /\ \E e \in {0, 1} : /\ x.tick = c.entry + Elapsed(x, c) - e * TickMod
                       /\ x.overflows = (c.overflows + e) % OverflowMod
Timely(x, c) ==
  /\ c.asked \in TickType /\ c.ticks \in 0 .. c.asked /\ c.waited \in 0 .. c.asked
  /\ c.asked = portMAX_DELAY => c.ticks = portMAX_DELAY
  /\ c.ticks = 0 => c.waited = c.asked /\ c.asked # portMAX_DELAY
  /\ c.out = "timeout" => c.ticks = 0
  /\ c.set = 1 /\ c.asked # portMAX_DELAY =>
       /\ c.entry \in TickType /\ c.overflows \in 0 .. OverflowMod - 1
       /\ c.waited < c.asked => Punctual(x, c)
Honest(t) ==
  pc[t][1] \in Calling =>
    /\ Timely(k, w[t]) /\ (pc[t][1] # "failed" => w[t].set = 1)
    /\ pc[t][1] \in {"failed", "look"} => w[t].ticks = 0
HonestInv == \A t \in Task : Honest(t)

QueueInv == SchedInv /\ StorageInv /\ WaitInv /\ LockInv /\ ServeInv /\ HonestInv
=============================================================================
