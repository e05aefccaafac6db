--------------------------- MODULE Portable_proofs ---------------------------
(* Proofs about the kernel's portable layer: the RISC-V port and the preemption *)
(* test, for any width of the timer's words, any tick period and any number of  *)
(* switches the test asks for; then the allocator heap_4, for any number of     *)
(* tasks, any requests and a heap of any size that holds a block at all.  The   *)
(* two models share no state.                                                   *)
EXTENDS Port, Heap4, FiniteSetTheorems, WellFoundedInduction, SequenceTheorems, TLAPS

-----------------------------------------------------------------------------
(* The scheduler under the test *)

\* vTaskSwitchContext goes round the two tasks of the test.
LEMMA SwitchKeeps ==
  ASSUME NEW x, Sched(x)
  PROVE  LET y == vTaskSwitchContext(x)
         IN  Sched(y) /\ y.preempt = x.preempt /\ y.slicing = x.slicing
<1> DEFINE y == [x EXCEPT !.yield = 0]
           found == {p \in 0 .. y.top : y.list[Ready(p)] # <<>>}
           s == y.list[Ready(1)]
           next == (y.index[Ready(1)] % Len(s)) + 1
           z == [y EXCEPT !.top = 1, !.index[Ready(1)] = next, !.cur = s[next]]
<1>1. /\ DOMAIN y = Fields /\ DOMAIN y.index = Lists
      /\ y.list = x.list /\ y.index = x.index /\ y.cur = x.cur /\ y.prio = x.prio
      /\ y.top = 1 /\ y.susp = 0 /\ y.yield = 0 /\ y.del = x.del
      /\ y.preempt = x.preempt /\ y.slicing = x.slicing
  BY DEF Sched, Fields, prvInitialiseTaskLists
<1> HIDE DEF y
<1>2. y.list[Ready(1)] = <<0, 1>> /\ y.index[Ready(1)] \in Nat
  BY <1>1 DEF Sched
<1>3. (CHOOSE q \in found : \A r \in found : r <= q) = 1 /\ found # {}
  <2>1. 1 \in found /\ \A r \in found : r \in 0 .. 1
    <3>1. <<0, 1>> # <<>> OBVIOUS
    <3>2. y.list[Ready(1)] # <<>> BY <1>2, <3>1, Zenon
    <3>3. QED BY <1>1, <3>2
  <2> HIDE DEF found
  <2>2. QED BY <2>1
<1>4. next \in 1 .. 2 /\ s[next] \in Spin
  <2>1. Len(s) = 2 /\ s[1] = 0 /\ s[2] = 1 BY <1>2
  <2>2. next \in 1 .. 2 BY <1>2, <2>1
  <2> HIDE DEF next, s
  <2>3. QED BY <2>1, <2>2 DEF Spin
<1>5. vTaskSwitchContext(x) = z
  BY <1>1, <1>3 DEF vTaskSwitchContext, taskSELECT_HIGHEST_PRIORITY_TASK, Sched, y
<1> HIDE DEF next, s
<1>6. /\ DOMAIN z = Fields /\ z.list = y.list /\ z.cur = s[next] /\ z.prio = y.prio
      /\ z.index = [y.index EXCEPT ![Ready(1)] = next]
      /\ z.top = 1 /\ z.susp = 0 /\ z.yield = 0 /\ z.del = y.del
      /\ z.preempt = y.preempt /\ z.slicing = y.slicing
  BY <1>1 DEF Fields, prvInitialiseTaskLists
<1>7. z.index[Ready(1)] \in Nat /\ DOMAIN z.index = Lists
  BY <1>1, <1>2, <1>4, <1>6
<1>8. QED
  BY <1>1, <1>2, <1>4, <1>5, <1>6, <1>7 DEF Sched

\* Nobody waits in a delayed list: a tick only moves the time, and asks for a
\* switch exactly in a build that slices time (xTaskIncrementTick).
LEMMA TickKeeps ==
  ASSUME NEW x, Sched(x)
  PROVE  LET r == xTaskIncrementTick(x)
         IN  /\ Sched(r.k) /\ r.k.preempt = x.preempt /\ r.k.slicing = x.slicing
             /\ r.k.cur = x.cur
             /\ r.switch <=> (x.preempt = 1 /\ x.slicing = 1)
<1> DEFINE waiting == {t \in Task : x.where[t] \in {Delayed(0), Delayed(1)}}
           t1 == (x.tick + 1) % TickMod
           y == [x EXCEPT !.tick = t1,
                   !.left = [t \in Task |-> IF t \in waiting THEN @[t] - 1 ELSE @[t]]]
           z == IF t1 = 0 THEN taskSWITCH_DELAYED_LISTS(y) ELSE y
           w == WakeDue(z)
<1>1. Sched(y) /\ y.preempt = x.preempt /\ y.slicing = x.slicing /\ y.cur = x.cur
  <2>1. /\ DOMAIN y = Fields /\ y.index = x.index
        /\ y.list = x.list /\ y.cur = x.cur /\ y.prio = x.prio
        /\ y.top = x.top /\ y.susp = x.susp /\ y.yield = x.yield /\ y.del = x.del
        /\ y.preempt = x.preempt /\ y.slicing = x.slicing
    BY DEF Sched, Fields, prvInitialiseTaskLists
  <2> HIDE DEF y
  <2>2. QED BY <2>1 DEF Sched
<1> HIDE DEF y, t1
<1>2. Sched(z) /\ z.preempt = x.preempt /\ z.slicing = x.slicing /\ z.cur = x.cur
  <2> DEFINE a == [y EXCEPT !.del = 1 - @, !.overflows = (@ + 1) % OverflowMod]
             b == prvResetNextTaskUnblockTime(a)
  <2>1. y.list[Delayed(y.del)] = <<>>
    BY <1>1 DEF Sched
  <2>2. taskSWITCH_DELAYED_LISTS(y) = b
    BY <2>1 DEF taskSWITCH_DELAYED_LISTS, configASSERT
  <2>3. /\ DOMAIN a = Fields /\ a.index = y.index
        /\ a.list = y.list /\ a.cur = y.cur /\ a.prio = y.prio
        /\ a.top = y.top /\ a.susp = y.susp /\ a.yield = y.yield /\ a.del = 1 - y.del
        /\ a.preempt = y.preempt /\ a.slicing = y.slicing
    BY <1>1 DEF Sched, Fields, prvInitialiseTaskLists
  <2> HIDE DEF a
  <2>4. /\ DOMAIN b = Fields /\ b.index = a.index
        /\ b.list = a.list /\ b.cur = a.cur /\ b.prio = a.prio
        /\ b.top = a.top /\ b.susp = a.susp /\ b.yield = a.yield /\ b.del = a.del
        /\ b.preempt = a.preempt /\ b.slicing = a.slicing
    BY <2>3 DEF prvResetNextTaskUnblockTime, Fields, prvInitialiseTaskLists
  <2> HIDE DEF b
  <2>5. Sched(b) /\ b.preempt = x.preempt /\ b.slicing = x.slicing /\ b.cur = x.cur
    BY <1>1, <2>3, <2>4 DEF Sched
  <2>6. QED BY <1>1, <2>2, <2>5
<1> HIDE DEF z
<1>3. /\ Sched(w.k) /\ w.k.preempt = x.preempt /\ w.k.slicing = x.slicing
      /\ w.k.cur = x.cur /\ w.switch = FALSE
      /\ w = [k |-> w.k, switch |-> w.switch]
  <2> DEFINE c == [z EXCEPT !.unblock = portMAX_DELAY]
  <2>1. /\ DOMAIN c = Fields /\ c.index = z.index
        /\ c.list = z.list /\ c.cur = z.cur /\ c.prio = z.prio
        /\ c.top = z.top /\ c.susp = z.susp /\ c.yield = z.yield /\ c.del = z.del
        /\ c.preempt = z.preempt /\ c.slicing = z.slicing
    BY <1>2 DEF Sched, Fields, prvInitialiseTaskLists
  <2> HIDE DEF c
  <2>2. Sched(c) /\ c.preempt = x.preempt /\ c.slicing = x.slicing /\ c.cur = x.cur
    BY <1>2, <2>1 DEF Sched
  <2>3. z.list[Delayed(z.del)] = <<>>
    BY <1>2 DEF Sched
  <2>4. w = [k |-> z, switch |-> FALSE] \/ w = [k |-> c, switch |-> FALSE]
    BY <2>3 DEF WakeDue, c
  <2>5. QED BY <1>2, <2>2, <2>4
<1> HIDE DEF w
<1>4. xTaskIncrementTick(x) = SwitchNeeded(w)
  BY DEF xTaskIncrementTick, Sched, w, z, y, t1
<1>5. Len(w.k.list[Ready(w.k.prio[w.k.cur])]) > 1 /\ w.k.yield = 0
  <2>1. w.k.list[Ready(w.k.prio[w.k.cur])] = <<0, 1>> /\ w.k.yield = 0
    BY <1>3 DEF Sched
  <2>2. QED BY <2>1
<1>6. /\ SwitchNeeded(w).k = w.k
      /\ SwitchNeeded(w).switch <=> (w.k.preempt = 1 /\ w.k.slicing = 1)
  BY <1>3, <1>5 DEF SwitchNeeded
<1>7. QED BY <1>3, <1>4, <1>6

\* The lists the tasks of the program are in and out of are different lists.
LEMMA ListFacts ==
  /\ Ready(0) \in Lists /\ Ready(1) \in Lists /\ Delayed(0) \in Lists /\ Delayed(1) \in Lists
  /\ Ready(0) \in StateLists /\ Ready(1) \in StateLists
  /\ Ready(0) # Ready(1) /\ Ready(0) # None /\ Ready(1) # None
  /\ \A p : Ready(p) # Delayed(0) /\ Ready(p) # Delayed(1)
<1>1. 0 \in Priorities /\ 1 \in Priorities
  BY PortAssumption, TasksAssumption DEF PortAssumption, TasksAssumption, Priorities
<1>2. QED BY <1>1 DEF Lists, StateLists, Ready, Delayed, None

\* A task created before the scheduler starts goes to the end of the ready list
\* of its priority.
LEMMA AddNew ==
  ASSUME NEW x, DOMAIN x = Fields, DOMAIN x.list = Lists, DOMAIN x.prio = Task,
         DOMAIN x.where = Task, NEW t \in Task, NEW p \in {0, 1},
         x.index[Ready(p)] = 0, x.started = 0
  PROVE  LET y == prvAddNewTaskToReadyList(x, t, p)
         IN  /\ DOMAIN y = Fields
             /\ y.list = [x.list EXCEPT ![Ready(p)] = Append(@, t)]
             /\ y.index = x.index
             /\ y.prio = [x.prio EXCEPT ![t] = p]
             /\ y.where = [x.where EXCEPT ![t] = Ready(p)]
             /\ y.top = IF p > x.top THEN p ELSE x.top
             /\ y.cur = IF Created(x) = {} \/ x.prio[x.cur] <= p THEN t ELSE x.cur
             /\ y.started = x.started /\ y.susp = x.susp /\ y.yield = x.yield
             /\ y.del = x.del /\ y.preempt = x.preempt /\ y.slicing = x.slicing
<1> DEFINE takes == Created(x) = {} \/ (x.started = 0 /\ x.prio[x.cur] <= p)
           a == [prvInitialiseNewTask(x, t, p) EXCEPT !.cur = IF takes THEN t ELSE @]
           b == [a EXCEPT !.top = IF a.prio[t] > @ THEN a.prio[t] ELSE @]
           c == [b EXCEPT !.list[Ready(p)] = Append(@, t)]
           d == [c EXCEPT !.where[t] = Ready(p)]
<1>1. /\ DOMAIN a = Fields /\ a.list = x.list /\ a.index = x.index
      /\ a.prio = [x.prio EXCEPT ![t] = p] /\ a.where = x.where
      /\ a.top = x.top /\ a.cur = (IF takes THEN t ELSE x.cur)
      /\ a.started = x.started /\ a.susp = x.susp /\ a.yield = x.yield
      /\ a.del = x.del /\ a.preempt = x.preempt /\ a.slicing = x.slicing
  BY DEF prvInitialiseNewTask, Fields, prvInitialiseTaskLists
<1>2. a.prio[t] = p
  BY <1>1
<1> HIDE DEF a
<1>3. /\ DOMAIN b = Fields /\ b.list = a.list /\ b.index = a.index
      /\ b.prio = a.prio /\ b.where = a.where
      /\ b.top = (IF p > a.top THEN p ELSE a.top) /\ b.cur = a.cur
      /\ b.started = a.started /\ b.susp = a.susp /\ b.yield = a.yield
      /\ b.del = a.del /\ b.preempt = a.preempt /\ b.slicing = a.slicing
  BY <1>1, <1>2 DEF Fields, prvInitialiseTaskLists
<1> HIDE DEF b
<1>4. /\ DOMAIN c = Fields /\ c.list = [b.list EXCEPT ![Ready(p)] = Append(@, t)]
      /\ c.index = b.index
      /\ c.prio = b.prio /\ c.where = b.where /\ c.top = b.top /\ c.cur = b.cur
      /\ c.started = b.started /\ c.susp = b.susp /\ c.yield = b.yield
      /\ c.del = b.del /\ c.preempt = b.preempt /\ c.slicing = b.slicing
  BY <1>3 DEF Fields, prvInitialiseTaskLists
<1> HIDE DEF c
<1>5. /\ DOMAIN d = Fields /\ d.list = c.list /\ d.index = c.index
      /\ d.prio = c.prio /\ d.where = [c.where EXCEPT ![t] = Ready(p)]
      /\ d.top = c.top /\ d.cur = c.cur
      /\ d.started = c.started /\ d.susp = c.susp /\ d.yield = c.yield
      /\ d.del = c.del /\ d.preempt = c.preempt /\ d.slicing = c.slicing
  BY <1>4 DEF Fields, prvInitialiseTaskLists
<1> HIDE DEF d
<1>6. prvAddNewTaskToReadyList(x, t, p) = prvAddTaskToReadyList(a, t)
  BY DEF prvAddNewTaskToReadyList, a
<1>7. prvAddTaskToReadyList(a, t) = vListInsertEnd(b, Ready(p), t)
  BY <1>2 DEF prvAddTaskToReadyList, b
<1>8. vListInsertEnd(b, Ready(p), t) = d
  <2>1. b.index[Ready(p)] = 0
    BY <1>1, <1>3
  <2>2. Ready(p) \in StateLists
    BY ListFacts
  <2>3. QED BY <2>1, <2>2 DEF vListInsertEnd, Container, c, d
<1>9. prvAddNewTaskToReadyList(x, t, p) = d
  BY <1>6, <1>7, <1>8
<1>10. takes <=> Created(x) = {} \/ x.prio[x.cur] <= p
  OBVIOUS
<1> HIDE DEF takes
<1>11. QED BY <1>1, <1>3, <1>4, <1>5, <1>9, <1>10

\* main creates the two tasks, the scheduler the idle task; task 1 runs first.
LEMMA InitSched ==
  ASSUME Init
  PROVE  /\ Sched(k) /\ k.preempt = build.preempt /\ k.slicing = build.slicing
         /\ k.cur = 1
<1> DEFINE x0 == prvInitialiseTaskLists(build.preempt, build.slicing)
           x1 == prvAddNewTaskToReadyList(x0, 0, 1)
           x2 == prvAddNewTaskToReadyList(x1, 1, 1)
           x3 == prvAddNewTaskToReadyList(x2, Idle, 0)
<1>0. 0 \in Task /\ 1 \in Task /\ Idle \in Task /\ Idle # 0 /\ Idle # 1
  BY PortAssumption DEF PortAssumption
<1>1. /\ DOMAIN x0 = Fields /\ x0.list = [l \in Lists |-> <<>>]
      /\ x0.index = [l \in Lists |-> 0]
      /\ x0.where = [t \in Task |-> None] /\ x0.prio = [t \in Task |-> 0]
      /\ x0.cur = Idle /\ x0.started = 0 /\ x0.del = 0 /\ x0.top = 0
      /\ x0.susp = 0 /\ x0.yield = 0
      /\ x0.preempt = build.preempt /\ x0.slicing = build.slicing
  BY DEF Fields, prvInitialiseTaskLists
<1>2. Created(x0) = {}
  BY <1>1 DEF Created
<1> HIDE DEF x0
<1>3. /\ DOMAIN x1 = Fields
      /\ x1.list = [x0.list EXCEPT ![Ready(1)] = Append(@, 0)]
      /\ x1.index = x0.index /\ x1.prio = [x0.prio EXCEPT ![0] = 1]
      /\ x1.where = [x0.where EXCEPT ![0] = Ready(1)]
      /\ x1.top = 1 /\ x1.cur = 0
      /\ x1.started = 0 /\ x1.susp = 0 /\ x1.yield = 0 /\ x1.del = 0
      /\ x1.preempt = build.preempt /\ x1.slicing = build.slicing
  <2>1. x0.index[Ready(1)] = 0
    BY <1>1, ListFacts
  <2>2. DOMAIN x0.list = Lists /\ DOMAIN x0.prio = Task /\ DOMAIN x0.where = Task
    BY <1>1
  <2> HIDE DEF x1
  <2>3. /\ DOMAIN x1 = Fields
        /\ x1.list = [x0.list EXCEPT ![Ready(1)] = Append(@, 0)]
        /\ x1.index = x0.index
        /\ x1.prio = [x0.prio EXCEPT ![0] = 1]
        /\ x1.where = [x0.where EXCEPT ![0] = Ready(1)]
        /\ x1.top = IF 1 > x0.top THEN 1 ELSE x0.top
        /\ x1.cur = IF Created(x0) = {} \/ x0.prio[x0.cur] <= 1 THEN 0 ELSE x0.cur
        /\ x1.started = x0.started /\ x1.susp = x0.susp /\ x1.yield = x0.yield
        /\ x1.del = x0.del /\ x1.preempt = x0.preempt /\ x1.slicing = x0.slicing
    <3>1. 1 \in {0, 1} OBVIOUS
    <3>2. QED BY <3>1, <1>0, <1>1, <2>1, <2>2, AddNew, Zenon DEF x1
  <2>4. QED BY <1>1, <1>2, <2>3
<1>4. x1.prio[x1.cur] = 1
  BY <1>0, <1>1, <1>3
<1> HIDE DEF x1
<1>5. /\ DOMAIN x2 = Fields
      /\ x2.list = [x1.list EXCEPT ![Ready(1)] = Append(@, 1)]
      /\ x2.index = x0.index /\ x2.prio = [x1.prio EXCEPT ![1] = 1]
      /\ x2.where = [x1.where EXCEPT ![1] = Ready(1)]
      /\ x2.top = 1 /\ x2.cur = 1
      /\ x2.started = 0 /\ x2.susp = 0 /\ x2.yield = 0 /\ x2.del = 0
      /\ x2.preempt = build.preempt /\ x2.slicing = build.slicing
  <2>1. x1.index[Ready(1)] = 0
    BY <1>1, <1>3, ListFacts
  <2>2. DOMAIN x1.list = Lists /\ DOMAIN x1.prio = Task /\ DOMAIN x1.where = Task
    BY <1>1, <1>3
  <2> HIDE DEF x2
  <2>3. /\ DOMAIN x2 = Fields
        /\ x2.list = [x1.list EXCEPT ![Ready(1)] = Append(@, 1)]
        /\ x2.index = x1.index
        /\ x2.prio = [x1.prio EXCEPT ![1] = 1]
        /\ x2.where = [x1.where EXCEPT ![1] = Ready(1)]
        /\ x2.top = IF 1 > x1.top THEN 1 ELSE x1.top
        /\ x2.cur = IF Created(x1) = {} \/ x1.prio[x1.cur] <= 1 THEN 1 ELSE x1.cur
        /\ x2.started = x1.started /\ x2.susp = x1.susp /\ x2.yield = x1.yield
        /\ x2.del = x1.del /\ x2.preempt = x1.preempt /\ x2.slicing = x1.slicing
    <3>1. 1 \in {0, 1} OBVIOUS
    <3>2. QED BY <3>1, <1>0, <1>3, <2>1, <2>2, AddNew, ZenonT(40) DEF x2
  <2>4. QED BY <1>3, <1>4, <2>3
<1>6. x2.prio[x2.cur] = 1 /\ Created(x2) # {}
  <2>1. x2.prio[x2.cur] = 1
    BY <1>0, <1>1, <1>3, <1>5
  <2>2. x2.where[1] # None
    BY <1>0, <1>1, <1>3, <1>5, ListFacts
  <2>3. QED BY <1>0, <2>1, <2>2 DEF Created
<1> HIDE DEF x2
<1>7. /\ DOMAIN x3 = Fields
      /\ x3.list = [x2.list EXCEPT ![Ready(0)] = Append(@, Idle)]
      /\ x3.index = x0.index /\ x3.prio = [x2.prio EXCEPT ![Idle] = 0]
      /\ x3.top = 1 /\ x3.cur = 1
      /\ x3.susp = 0 /\ x3.yield = 0 /\ x3.del = 0
      /\ x3.preempt = build.preempt /\ x3.slicing = build.slicing
  <2>1. x2.index[Ready(0)] = 0
    BY <1>1, <1>5, ListFacts
  <2>2. DOMAIN x2.list = Lists /\ DOMAIN x2.prio = Task /\ DOMAIN x2.where = Task
    BY <1>1, <1>3, <1>5
  <2> HIDE DEF x3
  <2>3. /\ DOMAIN x3 = Fields
        /\ x3.list = [x2.list EXCEPT ![Ready(0)] = Append(@, Idle)]
        /\ x3.index = x2.index
        /\ x3.prio = [x2.prio EXCEPT ![Idle] = 0]
        /\ x3.where = [x2.where EXCEPT ![Idle] = Ready(0)]
        /\ x3.top = IF 0 > x2.top THEN 0 ELSE x2.top
        /\ x3.cur = IF Created(x2) = {} \/ x2.prio[x2.cur] <= 0 THEN Idle ELSE x2.cur
        /\ x3.started = x2.started /\ x3.susp = x2.susp /\ x3.yield = x2.yield
        /\ x3.del = x2.del /\ x3.preempt = x2.preempt /\ x3.slicing = x2.slicing
    <3>1. 0 \in {0, 1} OBVIOUS
    <3>2. QED BY <3>1, <1>0, <1>5, <2>1, <2>2, AddNew, ZenonT(40) DEF x3
  <2>4. QED BY <1>5, <1>6, <2>3
<1> HIDE DEF x3
<1>8. k = [x3 EXCEPT !.unblock = portMAX_DELAY, !.started = 1, !.tick = 0]
  BY DEF Init, vTaskStartScheduler, prvCreateIdleTasks, x0, x1, x2, x3
<1>9. /\ DOMAIN k = Fields /\ k.list = x3.list /\ k.index = x3.index /\ k.prio = x3.prio
      /\ k.top = 1 /\ k.cur = 1 /\ k.susp = 0 /\ k.yield = 0 /\ k.del = 0
      /\ k.preempt = build.preempt /\ k.slicing = build.slicing
  BY <1>7, <1>8 DEF Fields, prvInitialiseTaskLists
<1>10. k.list[Ready(1)] = <<0, 1>>
  <2>1. x0.list[Ready(1)] = <<>> BY <1>1, ListFacts
  <2>2. x1.list[Ready(1)] = Append(x0.list[Ready(1)], 0) BY <1>1, <1>3, ListFacts
  <2>3. x2.list[Ready(1)] = Append(x1.list[Ready(1)], 1)
    BY <1>1, <1>3, <1>5, ListFacts
  <2>4. k.list[Ready(1)] = x2.list[Ready(1)]
    BY <1>1, <1>3, <1>5, <1>7, <1>9, ListFacts
  <2>5. Append(Append(<<>>, 0), 1) = <<0, 1>>
    <3>1. ASSUME NEW s \in Seq(Nat), NEW e \in Nat
          PROVE  /\ Append(s, e) \in Seq(Nat) /\ Len(Append(s, e)) = Len(s) + 1
                 /\ \A i \in 1 .. Len(s) : Append(s, e)[i] = s[i]
                 /\ Append(s, e)[Len(s) + 1] = e
      OBVIOUS
    <3>2. PICK n \in Seq(Nat) : n = <<>> /\ Len(n) = 0
      <4>1. <<>> \in Seq(Nat) /\ Len(<<>>) = 0 OBVIOUS
      <4>2. QED BY <4>1, Zenon
    <3>3. PICK s \in Seq(Nat) : s = Append(n, 0) /\ Len(s) = 1 /\ s[1] = 0
      <4>1. Append(n, 0) \in Seq(Nat) /\ Len(Append(n, 0)) = 1 /\ Append(n, 0)[1] = 0
        BY <3>1, <3>2
      <4>2. QED BY <4>1, Zenon
    <3>4. PICK u \in Seq(Nat) : u = Append(s, 1) /\ Len(u) = 2 /\ u[1] = 0 /\ u[2] = 1
      <4>1. /\ Append(s, 1) \in Seq(Nat) /\ Len(Append(s, 1)) = 2
            /\ Append(s, 1)[1] = 0 /\ Append(s, 1)[2] = 1
        BY <3>1, <3>3
      <4>2. QED BY <4>1, Zenon
    <3>5. PICK v \in Seq(Nat) : v = <<0, 1>> /\ Len(v) = 2 /\ v[1] = 0 /\ v[2] = 1
      <4>1. /\ <<0, 1>> \in Seq(Nat) /\ Len(<<0, 1>>) = 2
            /\ <<0, 1>>[1] = 0 /\ <<0, 1>>[2] = 1
        OBVIOUS
      <4>2. QED BY <4>1, Zenon
    <3>6. \A i \in 1 .. Len(u) : u[i] = v[i]
      BY <3>4, <3>5
    <3>7. u = v
      BY <3>4, <3>5, <3>6, SeqEqual
    <3>8. QED BY <3>2, <3>3, <3>4, <3>5, <3>7, Zenon
  <2>6. QED BY <2>1, <2>2, <2>3, <2>4, <2>5, Zenon
<1>11. k.list[Delayed(0)] = <<>> /\ k.list[Delayed(1)] = <<>>
  <2>1. ASSUME NEW l \in {Delayed(0), Delayed(1)} PROVE k.list[l] = <<>>
    <3>0. l \in Lists /\ l # Ready(0) /\ l # Ready(1)
      BY ListFacts
    <3>1. x0.list[l] = <<>> BY <1>1, <3>0
    <3>2. x1.list[l] = x0.list[l] BY <1>1, <1>3, <3>0
    <3>3. x2.list[l] = x1.list[l] BY <1>1, <1>3, <1>5, <3>0
    <3>4. k.list[l] = x2.list[l] BY <1>1, <1>3, <1>5, <1>7, <1>9, <3>0
    <3>5. QED BY <3>1, <3>2, <3>3, <3>4, Zenon
  <2>2. QED BY <2>1
<1>12. k.index[Ready(1)] \in Nat /\ DOMAIN k.index = Lists
  BY <1>1, <1>7, <1>9, ListFacts
<1>13. \A t \in Spin : k.prio[t] = 1
  BY <1>0, <1>1, <1>3, <1>5, <1>7, <1>9 DEF Spin
<1>14. QED BY <1>9, <1>10, <1>11, <1>12, <1>13 DEF Sched, Spin

-----------------------------------------------------------------------------
(* The machine timer *)

\* The two-word addition of portUPDATE_MTIMER_COMPARE_REGISTER adds one period:
\* the sum of the low words wrapped exactly if it is less than a summand.
LEMMA PlusAdds ==
  ASSUME NEW x \in Times
  PROVE  Plus(x) \in Times /\ Val(Plus(x)) = Val(x) + Increment
<1>1. PICK W \in Nat, I \in Nat : W = WordMod /\ I = Increment /\ 0 < I /\ I < W
  BY PortAssumption DEF PortAssumption
<1>2. PICK h \in Int, l \in 0 .. W - 1 : h = x.hi /\ l = x.lo
  BY <1>1 DEF Times, Word
<1>3. CASE l + I < W
  <2>1. (l + I) % W = l + I BY <1>1, <1>3
  <2>2. Plus(x) = [lo |-> l + I, hi |-> h]
    BY <1>1, <1>2, <2>1 DEF Plus
  <2>3. QED BY <1>1, <1>2, <1>3, <2>2 DEF Val, Times, Word
<1>4. CASE l + I >= W
  <2>1. (l + I) % W = l + I - W BY <1>1, <1>4
  <2>2. Plus(x) = [lo |-> l + I - W, hi |-> h + 1]
    BY <1>1, <1>2, <2>1 DEF Plus
  <2>3. (h + 1) * W = h * W + W BY <1>1
  <2>4. QED BY <1>1, <1>2, <1>4, <2>2, <2>3 DEF Val, Times, Word
<1>5. QED BY <1>1, <1>3, <1>4

\* A carry of the clock lowers a time by the whole low word.
LEMMA AgedVal ==
  ASSUME NEW x \in Times
  PROVE  Aged(x) \in Times /\ Val(Aged(x)) = Val(x) - WordMod
<1>1. PICK W \in Nat : W = WordMod
  BY PortAssumption DEF PortAssumption
<1>2. PICK h \in Int, l \in Word : h = x.hi /\ l = x.lo /\ l \in Int
  BY <1>1 DEF Times, Word
<1>3. Aged(x) = [hi |-> h - 1, lo |-> l]
  BY <1>2 DEF Aged, Times
<1>4. (h - 1) * W = h * W - W BY <1>1
<1>5. QED BY <1>1, <1>2, <1>3, <1>4 DEF Val, Times

\* The comparator's two words are compared as one number.
LEMMA ComparesAsOne ==
  ASSUME TimeType
  PROVE  MTIP <=> Val(clint.cmp) <= clint.lo
<1>1. PICK W \in Nat : W = WordMod /\ W > 0
  BY PortAssumption DEF PortAssumption
<1>2. PICK h \in Int, l \in 0 .. W - 1, c \in 0 .. W - 1 :
        h = clint.cmp.hi /\ l = clint.cmp.lo /\ c = clint.lo
  BY <1>1 DEF TimeType, Times, Word
<1>3. CASE h < 0
  <2>1. PICK m \in Nat : h = -1 - m BY <1>3
  <2>2. h * W = -W - m * W /\ m * W >= 0 BY <1>1, <2>1
  <2>3. h * W + l <= c BY <1>1, <1>2, <2>2
  <2>4. QED BY <1>1, <1>2, <1>3, <2>3 DEF MTIP, Val
<1>4. CASE h = 0
  BY <1>1, <1>2, <1>4 DEF MTIP, Val
<1>5. CASE h > 0
  <2>1. PICK m \in Nat : h = 1 + m BY <1>5
  <2>2. h * W = W + m * W /\ m * W >= 0 BY <1>1, <2>1
  <2>3. ~(h * W + l <= c) BY <1>1, <1>2, <2>2
  <2>4. QED BY <1>1, <1>2, <1>5, <2>3 DEF MTIP, Val
<1>6. QED BY <1>3, <1>4, <1>5

\* MTIP is set exactly when a tick is due.
LEMMA PendingIsDue ==
  ASSUME TimeType, ClockInv, ~InSetup
  PROVE  MTIP <=> late.owed > 0
<1>1. PICK I \in Nat, r \in Nat, o \in Nat :
        I = Increment /\ r = late.rest /\ o = late.owed /\ r < I
  <2>1. Increment \in Nat /\ late.rest \in 0 .. Increment - 1 /\ late.owed \in Nat
    BY PortAssumption DEF PortAssumption, TimeType
  <2>2. QED BY <2>1
<1>2. PICK v \in Int, c \in Nat : v = Val(clint.cmp) /\ c = clint.lo
  BY PortAssumption DEF PortAssumption, TimeType, Val, Times, Word
<1>3. v + (o * I + r) = c + I
  BY <1>1, <1>2 DEF ClockInv, Elapsed
<1>4. CASE o = 0
  BY <1>1, <1>2, <1>3, <1>4, ComparesAsOne
<1>5. CASE o > 0
  <2>1. PICK m \in Nat : o = 1 + m BY <1>5
  <2>2. o * I = I + m * I /\ m * I >= 0 BY <1>1, <2>1
  <2>3. v <= c BY <1>1, <1>2, <1>3, <2>2
  <2>4. QED BY <1>1, <1>2, <1>5, <2>3, ComparesAsOne
<1>6. QED BY <1>4, <1>5

-----------------------------------------------------------------------------
(* Contexts *)

\* A trap leaves every context well formed: the hart has the context of the task
\* chosen, the task interrupted has what the hart had.
LEMMA TrapKeeps ==
  ASSUME ContextInv, Started, NEW k1, NEW mepc \in Places, Trap(k1, mepc), build' = build,
         Sched(k1), k1.preempt = k.preempt, k1.slicing = k.slicing,
         build.main = "test" => hart.nesting = 0 /\ mepc \notin InCritical
  PROVE  /\ ContextInv' /\ hart'.pc \in Places
         /\ \A t \in Spin : PcOf(t)' = IF t = k.cur THEN mepc ELSE PcOf(t)
<1>0. Spin \subseteq Task /\ k.cur \in Spin /\ k1.cur \in Spin
  BY PortAssumption DEF PortAssumption, Spin, ContextInv, Sched
<1> DEFINE saved == [hart EXCEPT !.pc = mepc]
<1>1. /\ hart.mie \in {0, 1} /\ hart.nesting \in Nat
      /\ hart \in [pc : Places \cup Before \cup {"halt"}, mie : {0, 1}, nesting : Nat]
      /\ frame \in [Task -> [pc : Places, mie : {0, 1}, nesting : Nat]]
      /\ hart.mie = 1 <=> hart.nesting = 0
      /\ \A t \in Task : frame[t].mie = 1 <=> frame[t].nesting = 0
  BY DEF ContextInv, MaskMatchesNesting
<1>2. /\ saved \in [pc : Places, mie : {0, 1}, nesting : Nat]
      /\ saved.pc = mepc /\ saved.mie = hart.mie /\ saved.nesting = hart.nesting
  BY <1>1
<1> HIDE DEF saved
<1>3. k' = k1 /\ frame' = [frame EXCEPT ![k.cur] = saved] /\ hart' = frame'[k1.cur]
  BY DEF Trap, saved
<1>4. /\ frame' \in [Task -> [pc : Places, mie : {0, 1}, nesting : Nat]]
      /\ \A t \in Task : frame'[t] = IF t = k.cur THEN saved ELSE frame[t]
  BY <1>0, <1>1, <1>2, <1>3
<1>5. hart' \in [pc : Places, mie : {0, 1}, nesting : Nat] /\ hart'.pc \in Places
  BY <1>0, <1>3, <1>4
<1>6. \A t \in Task : frame'[t].mie = 1 <=> frame'[t].nesting = 0
  BY <1>1, <1>2, <1>4
<1>7. MaskMatchesNesting'
  BY <1>0, <1>3, <1>6 DEF MaskMatchesNesting
<1>8. build.main = "test" =>
        \A t \in Task : frame'[t].pc \notin InCritical /\ frame'[t].nesting = 0
  BY <1>2, <1>4 DEF ContextInv
<1>9. build.main = "test" =>
        hart'.nesting = IF hart'.pc \in InCritical THEN 1 ELSE 0
  BY <1>0, <1>3, <1>8
<1>10. Sched(k)' /\ k'.preempt = build'.preempt /\ k'.slicing = build'.slicing
  BY <1>3 DEF ContextInv, Sched
<1>11. hart' \in [pc : Places \cup Before \cup {"halt"}, mie : {0, 1}, nesting : Nat]
  BY <1>5
<1>12. ContextInv'
  BY <1>4, <1>7, <1>8, <1>9, <1>10, <1>11 DEF ContextInv
<1>13. ASSUME NEW t \in Spin PROVE PcOf(t)' = IF t = k.cur THEN mepc ELSE PcOf(t)
  <2>1. PcOf(t)' = frame'[t].pc
    BY <1>3 DEF PcOf
  <2>2. QED BY <1>0, <1>2, <1>4, <2>1 DEF PcOf
<1>14. QED BY <1>5, <1>12, <1>13

\* A step of the running task that is no trap: it stays the running task.
LEMMA StepKeeps ==
  ASSUME ContextInv, Started, hart'.pc \in Places \cup {"halt"},
         hart' \in [pc : Places \cup Before \cup {"halt"}, mie : {0, 1}, nesting : Nat],
         UNCHANGED <<build, k, frame>>,
         hart'.pc \in Places => (hart'.mie = 1 <=> hart'.nesting = 0),
         build.main = "test" /\ hart'.pc \in Places =>
           hart'.nesting = IF hart'.pc \in InCritical THEN 1 ELSE 0
  PROVE  /\ ContextInv'
         /\ \A t \in Spin : PcOf(t)' = IF t = k.cur THEN hart'.pc ELSE PcOf(t)
<1>1. Started' => hart'.pc \in Places
  BY DEF Started
<1>2. MaskMatchesNesting'
  BY <1>1 DEF ContextInv, MaskMatchesNesting
<1>3. Sched(k)' /\ k'.preempt = build'.preempt /\ k'.slicing = build'.slicing
  BY DEF ContextInv, Sched
<1>4. ContextInv'
  BY <1>1, <1>2, <1>3 DEF ContextInv
<1>5. hart'.pc \notin Before
  BY DEF Places, InCritical, Before
<1>6. QED BY <1>4, <1>5 DEF PcOf

\* The steps of the tasks that keep the hart: a critical section is entered and
\* left as portENTER_CRITICAL and portEXIT_CRITICAL count.
LEMMA StepMoves ==
  ASSUME ContextInv,
         \/ SpinCounts \/ SpinEnters \/ SpinTests \/ SpinUpdates \/ SpinExits
         \/ SpinPrints \/ SpinGoesOn \/ SpinReports \/ AnyEnters \/ AnyExits
  PROVE  /\ ContextInv' /\ Started /\ hart'.pc \in Places \cup {"halt"}
         /\ UNCHANGED <<build, k, frame, clint, late>>
         /\ \A t \in Spin : PcOf(t)' = IF t = k.cur THEN hart'.pc ELSE PcOf(t)
<1>1. Started /\ UNCHANGED <<build, k, frame, clint, late>>
  BY DEF SpinCounts, SpinEnters, SpinTests, SpinUpdates, SpinExits, SpinPrints, SpinGoesOn,
         SpinReports, AnyEnters, AnyExits, At, AtAny, Started, InSetup, Stays
<1>2. /\ hart \in [pc : Places \cup Before \cup {"halt"}, mie : {0, 1}, nesting : Nat]
      /\ hart.mie = 1 <=> hart.nesting = 0
      /\ build.main = "test" => hart.nesting = IF hart.pc \in InCritical THEN 1 ELSE 0
  BY <1>1 DEF ContextInv, MaskMatchesNesting
<1>3. /\ "halt" \notin Places
      /\ \A p \in {"loop", "enter", "print", "check"} : p \in Places /\ p \notin InCritical
      /\ \A p \in {"test", "update", "exit"} : p \in Places /\ p \in InCritical
  BY DEF Places, InCritical
<1> DEFINE Ctx == [pc : Places \cup Before \cup {"halt"}, mie : {0, 1}, nesting : Nat]
           Good == /\ hart' \in Ctx /\ hart'.pc \in Places \cup {"halt"}
                   /\ hart'.pc \in Places => (hart'.mie = 1 <=> hart'.nesting = 0)
                   /\ build.main = "test" /\ hart'.pc \in Places =>
                        hart'.nesting = IF hart'.pc \in InCritical THEN 1 ELSE 0
<1> SUFFICES Good
  BY <1>1, StepKeeps
<1>4. ASSUME NEW p \in Places \cup {"halt"}, hart' = [hart EXCEPT !.pc = p],
             (hart.pc \in InCritical <=> p \in InCritical)
      PROVE  Good
  BY <1>2, <1>4
<1>5. CASE SpinCounts
  BY <1>3, <1>4, <1>5 DEF SpinCounts, At
<1>6. CASE SpinEnters
  <2>1. hart' = [pc |-> "test", mie |-> 0, nesting |-> hart.nesting + 1] /\ hart.pc = "enter"
        /\ build.main = "test"
    BY <1>6 DEF SpinEnters, portENTER_CRITICAL, At
  <2>2. QED BY <1>2, <1>3, <2>1
<1>7. CASE SpinTests
  BY <1>3, <1>4, <1>7 DEF SpinTests, At
<1>8. CASE SpinUpdates
  BY <1>3, <1>4, <1>8 DEF SpinUpdates, At
<1>9. CASE SpinExits
  <2>1. PICK p \in {"print", "check"} :
          hart' = [pc |-> p, nesting |-> hart.nesting - 1,
                   mie |-> IF hart.nesting = 1 THEN 1 ELSE hart.mie]
    BY <1>9 DEF SpinExits, portEXIT_CRITICAL
  <2>2. hart.pc = "exit" /\ build.main = "test"
    BY <1>9 DEF SpinExits, At
  <2>3. hart.nesting = 1
    BY <1>2, <1>3, <2>2
  <2>4. hart' = [pc |-> p, nesting |-> 0, mie |-> 1]
    BY <2>1, <2>3
  <2>5. QED BY <1>3, <2>4
<1>10. CASE SpinPrints
  BY <1>3, <1>4, <1>10 DEF SpinPrints, At
<1>11. CASE SpinGoesOn
  BY <1>3, <1>4, <1>11 DEF SpinGoesOn, At
<1>12. CASE SpinReports
  <2>1. hart' = [hart EXCEPT !.mie = 0, !.pc = "halt"]
    BY <1>12 DEF SpinReports
  <2>2. QED BY <1>2, <1>3, <2>1
<1>13. CASE AnyEnters
  <2>1. hart' = [pc |-> "loop", mie |-> 0, nesting |-> hart.nesting + 1] /\ build.main # "test"
    BY <1>13 DEF AnyEnters, portENTER_CRITICAL, AtAny
  <2>2. QED BY <1>2, <1>3, <2>1
<1>14. CASE AnyExits
  <2>1. /\ hart' = [pc |-> "loop", nesting |-> hart.nesting - 1,
                    mie |-> IF hart.nesting = 1 THEN 1 ELSE hart.mie]
        /\ hart.nesting > 0 /\ build.main # "test"
    BY <1>14 DEF AnyExits, portEXIT_CRITICAL, AtAny
  <2>2. QED BY <1>2, <1>3, <2>1
<1>15. QED
  BY <1>5, <1>6, <1>7, <1>8, <1>9, <1>10, <1>11, <1>12, <1>13, <1>14

\* A yield, which a task of the test only makes outside its critical section.
LEMMA YieldMoves ==
  ASSUME ContextInv, SpinYields \/ AnyYields
  PROVE  /\ ContextInv' /\ Started /\ hart'.pc \in Places
         /\ UNCHANGED <<build, clint, late, test>>
         /\ \A t \in Spin : PcOf(t)' = IF t = k.cur THEN "loop" ELSE PcOf(t)
<1>1. /\ Started /\ UNCHANGED <<build, clint, late, test>>
      /\ Trap(vTaskSwitchContext(k), "loop")
  BY DEF SpinYields, AnyYields, At, AtAny, Started, InSetup, Ecall
<1>2. "loop" \in Places /\ "loop" \notin InCritical /\ "check" \notin InCritical
  BY DEF Places, InCritical
<1>3. build.main = "test" => hart.nesting = 0
  <2>1. build.main = "test" => hart.pc = "check"
    BY DEF SpinYields, AnyYields, At, AtAny
  <2>2. QED BY <1>1, <1>2, <2>1 DEF ContextInv
<1>4. LET y == vTaskSwitchContext(k)
      IN  Sched(y) /\ y.preempt = k.preempt /\ y.slicing = k.slicing
  BY SwitchKeeps DEF ContextInv
<1>5. QED BY <1>1, <1>2, <1>3, <1>4, TrapKeeps

\* A tick: the context of the task interrupted is what it was, and the hart
\* changes hands only in a build that slices time.
LEMMA TickMoves ==
  ASSUME ContextInv, TimerInterrupt
  PROVE  /\ ContextInv' /\ Started /\ hart'.pc \in Places /\ build' = build
         /\ \A t \in Spin : PcOf(t)' = PcOf(t)
         /\ ~Slices => k'.cur = k.cur
         /\ test' = IF k'.cur = k.cur \/ test.forced = Target + 2 THEN test
                    ELSE [test EXCEPT !.forced = @ + 1]
<1> DEFINE r == xTaskIncrementTick(k)
           k1 == IF r.switch THEN vTaskSwitchContext(r.k) ELSE r.k
<1>1. /\ Sched(r.k) /\ r.k.preempt = k.preempt /\ r.k.slicing = k.slicing
      /\ r.k.cur = k.cur
      /\ r.switch <=> (k.preempt = 1 /\ k.slicing = 1)
  BY TickKeeps DEF ContextInv
<1>2. /\ Trap(k1, hart.pc) /\ Started /\ hart.mie = 1 /\ build' = build
      /\ test' = IF k1.cur = k.cur \/ test.forced = Target + 2 THEN test
                 ELSE [test EXCEPT !.forced = @ + 1]
  BY DEF TimerInterrupt
<1> HIDE DEF r
<1>3. Sched(k1) /\ k1.preempt = k.preempt /\ k1.slicing = k.slicing
  <2>1. LET y == vTaskSwitchContext(r.k)
        IN  Sched(y) /\ y.preempt = r.k.preempt /\ y.slicing = r.k.slicing
    BY <1>1, SwitchKeeps
  <2>2. QED BY <1>1, <2>1
<1>4. ~Slices => k1.cur = k.cur
  BY <1>1 DEF ContextInv, Slices
<1> HIDE DEF k1
<1>5. k' = k1
  BY <1>2 DEF Trap
<1>6. hart.nesting = 0 /\ hart.pc \in Places
  BY <1>2 DEF ContextInv, MaskMatchesNesting, Started, InSetup, Before
<1>7. build.main = "test" => hart.pc \notin InCritical
  BY <1>2, <1>6 DEF ContextInv
<1>8. /\ ContextInv' /\ hart'.pc \in Places
      /\ \A t \in Spin : PcOf(t)' = IF t = k.cur THEN hart.pc ELSE PcOf(t)
  BY <1>2, <1>3, <1>6, <1>7, TrapKeeps
<1>9. hart.pc \notin Before
  BY <1>6 DEF Places, InCritical, Before
<1>10. QED BY <1>2, <1>4, <1>5, <1>8, <1>9 DEF PcOf

\* The steps before the first task runs, and the first task's start: the task
\* entered is where its frame says.
LEMMA SetupMoves ==
  ASSUME ContextInv, Setup
  PROVE  /\ ContextInv' /\ hart.pc \in Before /\ UNCHANGED <<build, k, frame, test>>
         /\ hart'.pc \in Places \cup Before
         /\ \A t \in Spin : PcOf(t)' = PcOf(t)
<1>1. hart.pc \in Before /\ UNCHANGED <<build, k, frame, test>>
  BY DEF Setup, SetupReadHigh, SetupReadLow, SetupReadAgain, xPortStartFirstTask, Before
<1>2. Sched(k)' /\ k'.preempt = build'.preempt /\ k'.slicing = build'.slicing
  BY <1>1 DEF ContextInv, Sched
<1>3. k.cur \in Task /\ Spin \subseteq Task
  BY PortAssumption DEF PortAssumption, ContextInv, Sched, Spin
<1>4. CASE xPortStartFirstTask
  <2>1. hart' = frame[k.cur]
    BY <1>4 DEF xPortStartFirstTask
  <2>2. /\ hart' \in [pc : Places, mie : {0, 1}, nesting : Nat]
        /\ hart'.mie = 1 <=> hart'.nesting = 0
        /\ build.main = "test" => hart'.pc \notin InCritical /\ hart'.nesting = 0
    BY <1>3, <2>1 DEF ContextInv, MaskMatchesNesting
  <2>3. hart'.pc \in Places /\ hart'.pc \notin Before
    BY <2>2 DEF Places, InCritical, Before
  <2>4. MaskMatchesNesting'
    BY <1>1, <2>2 DEF ContextInv, MaskMatchesNesting
  <2>5. hart' \in [pc : Places \cup Before \cup {"halt"}, mie : {0, 1}, nesting : Nat]
    BY <2>2
  <2>6. ContextInv'
    BY <1>1, <1>2, <2>2, <2>4, <2>5 DEF ContextInv
  <2>7. QED BY <1>1, <2>1, <2>3, <2>6 DEF PcOf
<1>5. CASE SetupReadHigh \/ SetupReadLow \/ SetupReadAgain
  <2>1. hart' \in [pc : Places \cup Before \cup {"halt"}, mie : {0, 1}, nesting : Nat]
        /\ hart'.pc \in Before
    BY <1>5 DEF SetupReadHigh, SetupReadLow, SetupReadAgain, ContextInv, Before
  <2>2. ~Started'
    BY <2>1 DEF Started, InSetup, Before
  <2>3. MaskMatchesNesting'
    BY <1>1, <2>2 DEF ContextInv, MaskMatchesNesting
  <2>4. ContextInv'
    BY <1>1, <1>2, <2>1, <2>2, <2>3 DEF ContextInv
  <2>5. QED BY <1>1, <2>1, <2>4 DEF PcOf
<1>6. QED BY <1>4, <1>5 DEF Setup

\* Contexts while nothing but the clock moves.
LEMMA ClockMoves ==
  ASSUME ContextInv, UNCHANGED <<build, k, hart, frame>>
  PROVE  ContextInv' /\ \A t \in Spin : PcOf(t)' = PcOf(t)
  BY DEF ContextInv, MaskMatchesNesting, Started, InSetup, Sched, PcOf

-----------------------------------------------------------------------------
(* The invariant of the timer *)

\* One unit of time is one unit of what has elapsed since the clock was read.
LEMMA ClockAdvances ==
  ASSUME TimeType, Clock
  PROVE  /\ late' \in [rest : 0 .. Increment - 1, owed : Nat]
         /\ Elapsed' = Elapsed + 1
<1>1. PICK I \in Nat, r \in Nat, o \in Nat :
        I = Increment /\ r = late.rest /\ o = late.owed /\ r < I
  <2>1. Increment \in Nat /\ late.rest \in 0 .. Increment - 1 /\ late.owed \in Nat
    BY PortAssumption DEF PortAssumption, TimeType
  <2>2. QED BY <2>1
<1>2. PICK q \in Nat : q = o * I /\ (o + 1) * I = q + I
  <2>1. o * I \in Nat /\ (o + 1) * I = o * I + I OBVIOUS
  <2>2. QED BY <2>1
<1>3. Elapsed = q + r
  BY <1>1, <1>2 DEF Elapsed
<1>4. CASE r + 1 < I
  <2>1. late' = [late EXCEPT !.rest = r + 1]
    BY <1>1, <1>4 DEF Clock
  <2>2. late' = [rest |-> r + 1, owed |-> o]
    BY <1>1, <2>1 DEF TimeType
  <2>3. late'.rest = r + 1 /\ late'.owed = o /\ late' \in [rest : 0 .. Increment - 1, owed : Nat]
    BY <1>1, <1>4, <2>2
  <2>4. Elapsed' = q + (r + 1)
    BY <1>1, <1>2, <2>3 DEF Elapsed
  <2>5. QED BY <1>3, <2>3, <2>4
<1>5. CASE ~(r + 1 < I)
  <2>1. late' = [rest |-> 0, owed |-> o + 1]
    BY <1>1, <1>5 DEF Clock
  <2>2. late'.rest = 0 /\ late'.owed = o + 1 /\ late' \in [rest : 0 .. Increment - 1, owed : Nat]
    BY <1>1, <2>1
  <2>3. Elapsed' = q + I + 0
    BY <1>1, <1>2, <2>2 DEF Elapsed
  <2>4. r + 1 = I
    BY <1>1, <1>5
  <2>5. QED BY <1>3, <2>2, <2>3, <2>4
<1>6. QED BY <1>4, <1>5

\* The clock runs on, through a carry of the low word too, before and after the
\* comparator is armed.
LEMMA ClockStep ==
  ASSUME TimeType, ClockInv, Clock
  PROVE  TimeType' /\ ClockInv'
<1>1. PICK W \in Nat, I \in Nat : W = WordMod /\ I = Increment /\ 1 < W /\ 0 < I
  BY PortAssumption DEF PortAssumption
<1>2. /\ clint.lo \in 0 .. W - 1 /\ clint.cmp \in Times /\ clint.next \in Times
      /\ clint.read \in Times
      /\ clint = [lo |-> clint.lo, cmp |-> clint.cmp, next |-> clint.next, read |-> clint.read]
  BY <1>1 DEF TimeType, Word
<1>3. hart' = hart /\ (InSetup' <=> InSetup)
  BY DEF Clock, InSetup
<1>4. PICK e \in Int : e = Elapsed
  BY PortAssumption DEF PortAssumption, Elapsed, TimeType
<1>5. late' \in [rest : 0 .. Increment - 1, owed : Nat] /\ Elapsed' = e + 1
  BY <1>4, ClockAdvances
<1>6. PICK lo \in 0 .. W - 1, v \in Int, n \in Int, rh \in Int, rl \in Int :
        /\ lo = clint.lo /\ v = Val(clint.cmp) /\ n = Val(clint.next)
        /\ rh = clint.read.hi /\ rl = clint.read.lo
  <2>1. /\ Val(clint.cmp) \in Int /\ Val(clint.next) \in Int /\ clint.read.lo \in Int
        /\ clint.read.hi \in Int
    BY <1>1, <1>2 DEF Val, Times, Word
  <2>2. QED BY <1>2, <2>1, Zenon
<1>t. /\ W \in Nat /\ I \in Nat /\ e \in Int /\ lo \in 0 .. W - 1 /\ v \in Int /\ n \in Int
      /\ rh \in Int /\ rl \in Int
  BY <1>1, <1>4, <1>6
<1> USE <1>t
<1>7. /\ hart.pc \in {"setup_low", "setup_again"} => rh <= 0
      /\ ~InSetup => v + e = lo + I /\ n = v + I
  BY <1>1, <1>4, <1>6 DEF ClockInv
<1>8. hart.pc = "setup_again" => \E c \in Nat : c <= -rh /\ rl + e = lo + c * W
  <2> SUFFICES ASSUME hart.pc = "setup_again"
               PROVE  \E c \in Nat : c <= -rh /\ rl + e = lo + c * W
    OBVIOUS
  <2>1. PICK c \in 0 .. -rh : rl + e = lo + c * W
    BY <1>1, <1>4, <1>6 DEF ClockInv
  <2>2. c \in Nat /\ c <= -rh BY <2>1
  <2>3. QED BY <2>1, <2>2
\* What is to be shown of the new values, in plain numbers.
<1>9. ASSUME NEW lo1 \in 0 .. W - 1, NEW v1 \in Int, NEW n1 \in Int, NEW rh1 \in Int,
             clint' \in [lo : Word, cmp : Times, next : Times, read : Times],
             clint'.lo = lo1, Val(clint'.cmp) = v1, Val(clint'.next) = n1,
             clint'.read.hi = rh1, clint'.read.lo = rl,
             hart.pc \in {"setup_low", "setup_again"} => rh1 <= 0,
             ~InSetup => v1 + e + 1 = lo1 + I /\ n1 = v1 + I,
             hart.pc = "setup_again" =>
               \E c \in Nat : c <= -rh1 /\ rl + e + 1 = lo1 + c * W
      PROVE  TimeType' /\ ClockInv'
  <2>1. TimeType'
    BY <1>5, <1>9 DEF TimeType
  <2>2. hart'.pc = "setup_again" =>
          \E c \in 0 .. -clint'.read.hi :
             clint'.read.lo + Elapsed' = clint'.lo + c * WordMod
    <3> SUFFICES ASSUME hart.pc = "setup_again"
                 PROVE  \E c \in 0 .. -rh1 : rl + (e + 1) = lo1 + c * W
      BY <1>1, <1>3, <1>5, <1>9
    <3>1. PICK c \in Nat : c <= -rh1 /\ rl + e + 1 = lo1 + c * W
      BY <1>9
    <3>2. c \in 0 .. -rh1
      BY <1>9, <3>1
    <3>3. rl + (e + 1) = lo1 + c * W
      <4>1. rl + (e + 1) = rl + e + 1 OBVIOUS
      <4>2. QED BY <3>1, <4>1
    <3>4. QED BY <3>2, <3>3
  <2>3. ~InSetup' => /\ Val(clint'.cmp) + Elapsed' = clint'.lo + Increment
                     /\ Val(clint'.next) = Val(clint'.cmp) + Increment
    BY <1>1, <1>3, <1>5, <1>9
  <2>4. hart'.pc \in {"setup_low", "setup_again"} => clint'.read.hi <= 0
    BY <1>3, <1>9
  <2>5. QED BY <2>1, <2>2, <2>3, <2>4 DEF ClockInv
<1>10. CASE lo + 1 < W
  <2>1. clint' = [clint EXCEPT !.lo = lo + 1]
    BY <1>1, <1>6, <1>10 DEF Clock
  <2>2. /\ clint'.lo = lo + 1 /\ clint'.cmp = clint.cmp /\ clint'.next = clint.next
        /\ clint'.read = clint.read
        /\ clint' \in [lo : Word, cmp : Times, next : Times, read : Times]
    BY <1>1, <1>2, <1>10, <2>1 DEF Word
  <2>3. /\ Val(clint'.cmp) = v /\ Val(clint'.next) = n
        /\ clint'.read.hi = rh /\ clint'.read.lo = rl
    BY <1>6, <2>2
  <2>4. lo + 1 \in 0 .. W - 1
    BY <1>10
  <2>5. ~InSetup => v + e + 1 = (lo + 1) + I /\ n = v + I
    BY <1>7
  <2>6. hart.pc = "setup_again" =>
          \E c \in Nat : c <= -rh /\ rl + e + 1 = (lo + 1) + c * W
    <3> SUFFICES ASSUME hart.pc = "setup_again"
                 PROVE  \E c \in Nat : c <= -rh /\ rl + e + 1 = (lo + 1) + c * W
      OBVIOUS
    <3>1. PICK c \in Nat : c <= -rh /\ rl + e = lo + c * W
      BY <1>8
    <3>2. rl + e + 1 = (lo + 1) + c * W
      BY <3>1
    <3>3. QED BY <3>1, <3>2
  <2>7. QED BY <1>7, <1>9, <2>2, <2>3, <2>4, <2>5, <2>6
<1>11. CASE lo + 1 = W
  <2>0. (lo + 1) % W = 0 /\ 0 \in 0 .. W - 1
    BY <1>1, <1>11
  <2>1. CASE InSetup
    <3>1. clint' = [clint EXCEPT !.lo = 0, !.read = Aged(@)]
      BY <1>1, <1>6, <2>0, <2>1 DEF Clock
    <3>2. Aged(clint.read) \in Times
      BY <1>2, AgedVal
    <3>3. clint' = [lo |-> 0, cmp |-> clint.cmp, next |-> clint.next, read |-> Aged(clint.read)]
      BY <1>2, <3>1
    <3>4. /\ clint'.lo = 0 /\ clint'.cmp = clint.cmp /\ clint'.next = clint.next
          /\ clint'.read = Aged(clint.read)
          /\ clint' \in [lo : Word, cmp : Times, next : Times, read : Times]
      BY <1>1, <1>2, <2>0, <3>2, <3>3 DEF Word
    <3>5. /\ clint'.read.hi = rh - 1 /\ clint'.read.lo = rl
          /\ Val(clint'.cmp) = v /\ Val(clint'.next) = n
      BY <1>2, <1>6, <3>4 DEF Aged, Times
    <3>6. hart.pc = "setup_again" =>
            \E c \in Nat : c <= -(rh - 1) /\ rl + e + 1 = 0 + c * W
      <4> SUFFICES ASSUME hart.pc = "setup_again"
                   PROVE  \E c \in Nat : c <= -(rh - 1) /\ rl + e + 1 = 0 + c * W
        OBVIOUS
      <4>1. PICK c \in Nat : c <= -rh /\ rl + e = lo + c * W
        BY <1>8
      <4>2. (c + 1) * W = c * W + W
        BY <4>1
      <4>3. c + 1 \in Nat /\ c + 1 <= -(rh - 1) /\ rl + e + 1 = 0 + (c + 1) * W
        BY <1>11, <4>1, <4>2
      <4>4. QED BY <4>3
    <3>7. hart.pc \in {"setup_low", "setup_again"} => rh - 1 <= 0
      BY <1>7
    <3>8. rh - 1 \in Int
      OBVIOUS
    <3>9. QED BY <1>9, <2>0, <2>1, <3>4, <3>5, <3>6, <3>7, <3>8, ZenonT(40)
  <2>2. CASE ~InSetup
    <3>1. clint' = [clint EXCEPT !.lo = 0, !.cmp = Aged(@), !.next = Aged(@)]
      BY <1>1, <1>6, <2>0, <2>2 DEF Clock
    <3>2. /\ Aged(clint.cmp) \in Times /\ Val(Aged(clint.cmp)) = v - W
          /\ Aged(clint.next) \in Times /\ Val(Aged(clint.next)) = n - W
      BY <1>1, <1>2, <1>6, AgedVal
    <3>3. clint' = [lo |-> 0, cmp |-> Aged(clint.cmp), next |-> Aged(clint.next),
                    read |-> clint.read]
      BY <1>2, <3>1
    <3>4. /\ clint'.lo = 0 /\ clint'.cmp = Aged(clint.cmp) /\ clint'.next = Aged(clint.next)
          /\ clint'.read = clint.read
          /\ clint' \in [lo : Word, cmp : Times, next : Times, read : Times]
      BY <1>1, <1>2, <2>0, <3>2, <3>3 DEF Word
    <3>5. /\ Val(clint'.cmp) = v - W /\ Val(clint'.next) = n - W
          /\ clint'.read.hi = rh /\ clint'.read.lo = rl
      BY <1>6, <3>2, <3>4
    <3>6. (v - W) + e + 1 = 0 + I /\ n - W = (v - W) + I
      BY <1>7, <1>11, <2>2
    <3>7. hart.pc \notin {"setup_low", "setup_again"}
      BY <2>2 DEF InSetup
    <3>8. QED BY <1>9, <2>0, <3>4, <3>5, <3>6, <3>7
  <2>3. QED BY <2>1, <2>2
<1>12. QED BY <1>1, <1>10, <1>11

\* The clock is read and the comparator armed: a low word read after a carry is
\* not put together with a high word read before it.
LEMMA SetupStep ==
  ASSUME ContextInv, TimeType, ClockInv, Setup
  PROVE  TimeType' /\ ClockInv'
<1>1. PICK W \in Nat, I \in Nat : W = WordMod /\ I = Increment /\ 1 < W /\ 0 < I
  BY PortAssumption DEF PortAssumption
<1>2. /\ clint.lo \in 0 .. W - 1 /\ clint.cmp \in Times /\ clint.next \in Times
      /\ clint.read \in Times
      /\ clint = [lo |-> clint.lo, cmp |-> clint.cmp, next |-> clint.next, read |-> clint.read]
  BY <1>1 DEF TimeType, Word
<1>3. clint.read = [hi |-> clint.read.hi, lo |-> clint.read.lo]
  BY <1>2 DEF Times
<1>4. CASE SetupReadHigh
  <2>1. /\ hart'.pc = "setup_low" /\ late' = late
        /\ clint' = [clint EXCEPT !.read = [clint.read EXCEPT !.hi = 0]]
    BY <1>4 DEF SetupReadHigh, ContextInv
  <2>2. [clint.read EXCEPT !.hi = 0] \in Times /\ [clint.read EXCEPT !.hi = 0].hi = 0
    BY <1>2 DEF Times
  <2>3. /\ clint' \in [lo : Word, cmp : Times, next : Times, read : Times]
        /\ clint'.read.hi = 0
    BY <1>1, <1>2, <2>1, <2>2 DEF Word
  <2>4. QED BY <2>1, <2>3 DEF TimeType, ClockInv, InSetup
<1>5. CASE SetupReadLow
  <2>1. /\ hart'.pc = "setup_again" /\ late' = [rest |-> 0, owed |-> 0]
        /\ clint' = [clint EXCEPT !.read = [clint.read EXCEPT !.lo = clint.lo]]
        /\ hart.pc = "setup_low"
    BY <1>5 DEF SetupReadLow, ContextInv
  <2>2. PICK r \in Times : r = [clint.read EXCEPT !.lo = clint.lo]
                           /\ r.hi = clint.read.hi /\ r.lo = clint.lo /\ r.hi \in Int
    <3>1. [clint.read EXCEPT !.lo = clint.lo] = [hi |-> clint.read.hi, lo |-> clint.lo]
      BY <1>3
    <3>2. clint.read.hi \in Int /\ clint.lo \in Word
      BY <1>1, <1>2 DEF Times, Word
    <3>3. QED BY <3>1, <3>2 DEF Times
  <2>3. /\ clint' \in [lo : Word, cmp : Times, next : Times, read : Times]
        /\ clint'.read = r /\ clint'.lo = clint.lo
    BY <1>1, <1>2, <2>1, <2>2 DEF Word
  <2>4. r.hi <= 0
    BY <2>1, <2>2 DEF ClockInv
  <2>5. Elapsed' = 0
    <3>1. late'.owed = 0 /\ late'.rest = 0 BY <2>1
    <3>2. QED BY <1>1, <3>1 DEF Elapsed
  <2>6. \E c \in 0 .. -clint'.read.hi : clint'.read.lo + Elapsed' = clint'.lo + c * WordMod
    <3>1. 0 \in 0 .. -r.hi BY <2>2, <2>4
    <3>2. r.lo + 0 = clint.lo + 0 * W BY <1>1, <1>2, <2>2
    <3>3. QED BY <1>1, <2>3, <2>5, <3>1, <3>2
  <2>7. late' \in [rest : 0 .. Increment - 1, owed : Nat]
    BY <1>1, <2>1
  <2>8. QED BY <2>1, <2>3, <2>4, <2>6, <2>7 DEF TimeType, ClockInv, InSetup
<1>6. CASE SetupReadAgain /\ clint.read.hi # 0
  <2>1. hart'.pc = "setup" /\ UNCHANGED <<clint, late>>
    BY <1>6 DEF SetupReadAgain, ContextInv
  <2>2. QED BY <2>1 DEF TimeType, ClockInv, InSetup
<1>7. CASE SetupReadAgain /\ clint.read.hi = 0
  <2>1. /\ hart.pc = "setup_again" /\ hart'.pc = "first" /\ late' = late
        /\ clint' = [clint EXCEPT !.cmp = Plus(clint.read), !.next = Plus(Plus(clint.read)),
                                  !.read = Zero]
    BY <1>7 DEF SetupReadAgain, Armed, ContextInv
  <2>2. Zero \in Times
    BY <1>1 DEF Zero, Times, Word
  <2>3. /\ Plus(clint.read) \in Times /\ Val(Plus(clint.read)) = Val(clint.read) + I
        /\ Plus(Plus(clint.read)) \in Times
        /\ Val(Plus(Plus(clint.read))) = Val(Plus(clint.read)) + I
    BY <1>1, <1>2, PlusAdds
  <2>4. clint' = [lo |-> clint.lo, cmp |-> Plus(clint.read), next |-> Plus(Plus(clint.read)),
                  read |-> Zero]
    BY <1>2, <2>1
  <2>5. /\ clint' \in [lo : Word, cmp : Times, next : Times, read : Times]
        /\ clint'.lo = clint.lo /\ clint'.cmp = Plus(clint.read)
        /\ clint'.next = Plus(Plus(clint.read))
    BY <1>1, <1>2, <2>2, <2>3, <2>4 DEF Word
  <2>6. PICK e \in Int : e = Elapsed
    BY PortAssumption DEF PortAssumption, Elapsed, TimeType
  <2>7. Elapsed' = e
    BY <2>1, <2>6 DEF Elapsed
  <2>8. PICK rl \in Int, lo \in Int : rl = clint.read.lo /\ lo = clint.lo
    BY <1>1, <1>2 DEF Times, Word
  <2>9. rl + e = lo
    <3>1. PICK c \in 0 .. -clint.read.hi : clint.read.lo + Elapsed = clint.lo + c * WordMod
      BY <2>1 DEF ClockInv
    <3>2. c = 0 BY <1>7, <3>1
    <3>3. c * W = 0 BY <1>1, <3>2
    <3>4. QED BY <1>1, <2>6, <2>8, <3>1, <3>3
  <2>10. Val(clint.read) = rl
    BY <1>1, <1>7, <2>8 DEF Val
  <2>11. Val(clint'.cmp) = rl + I /\ Val(clint'.next) = (rl + I) + I
    BY <2>3, <2>5, <2>10
  <2>12. /\ Val(clint'.cmp) + Elapsed' = clint'.lo + Increment
         /\ Val(clint'.next) = Val(clint'.cmp) + Increment
    BY <1>1, <2>5, <2>6, <2>7, <2>8, <2>9, <2>11
  <2>13. QED BY <2>1, <2>5, <2>12 DEF TimeType, ClockInv
<1>8. CASE xPortStartFirstTask
  <2>1. hart'.pc \in Places /\ hart.pc = "first" /\ UNCHANGED <<clint, late>>
    BY <1>8, PortAssumption
       DEF xPortStartFirstTask, ContextInv, PortAssumption, Sched, Spin
  <2>2. QED BY <2>1 DEF TimeType, ClockInv, InSetup, Places, InCritical, Elapsed
<1>9. QED BY <1>4, <1>5, <1>6, <1>7, <1>8 DEF Setup

\* A tick moves the comparator by one period and pays one tick of what is owed.
LEMMA TickStep ==
  ASSUME TimeType, ClockInv, TimerInterrupt, hart'.pc \in Places
  PROVE  TimeType' /\ ClockInv'
<1>1. PICK I \in Nat, o \in Nat, r \in Nat :
        I = Increment /\ r = late.rest /\ o = late.owed /\ r < I
  <2>1. Increment \in Nat /\ late.rest \in 0 .. Increment - 1 /\ late.owed \in Nat
    BY PortAssumption DEF PortAssumption, TimeType
  <2>2. QED BY <2>1
<1>2. ~InSetup /\ MTIP /\ clint' = UpdateCompare /\ late' = [late EXCEPT !.owed = @ - 1]
  BY DEF TimerInterrupt, Started
<1>3. o > 0
  BY <1>1, <1>2, PendingIsDue
<1>4. /\ clint.lo \in Word /\ clint.cmp \in Times /\ clint.next \in Times
      /\ clint.read \in Times
      /\ clint = [lo |-> clint.lo, cmp |-> clint.cmp, next |-> clint.next, read |-> clint.read]
  BY DEF TimeType
<1>5. Plus(clint.next) \in Times /\ Val(Plus(clint.next)) = Val(clint.next) + I
  BY <1>1, <1>4, PlusAdds
<1>6. clint' = [lo |-> clint.lo, cmp |-> clint.next, next |-> Plus(clint.next),
                read |-> clint.read]
  BY <1>2, <1>4 DEF UpdateCompare
<1>7. /\ clint' \in [lo : Word, cmp : Times, next : Times, read : Times]
      /\ clint'.lo = clint.lo /\ clint'.cmp = clint.next /\ clint'.next = Plus(clint.next)
  BY <1>4, <1>5, <1>6
<1>8. late' = [rest |-> r, owed |-> o - 1]
  BY <1>1, <1>2 DEF TimeType
<1>9. late'.rest = r /\ late'.owed = o - 1 /\ late' \in [rest : 0 .. Increment - 1, owed : Nat]
  BY <1>1, <1>3, <1>8
<1>10. PICK e \in Int : e = Elapsed
  BY PortAssumption DEF PortAssumption, Elapsed, TimeType
<1>11. Elapsed' = e - I
  <2>1. PICK q \in Int : q = o * I /\ (o - 1) * I = q - I
    <3>1. o * I \in Int /\ (o - 1) * I = o * I - I BY <1>1
    <3>2. QED BY <3>1
  <2>2. e = q + r BY <1>1, <1>10, <2>1 DEF Elapsed
  <2>3. Elapsed' = (q - I) + r BY <1>1, <1>9, <2>1 DEF Elapsed
  <2>4. QED BY <1>1, <2>1, <2>2, <2>3
<1>12. PICK v \in Int, n \in Int, lo \in Int :
         v = Val(clint.cmp) /\ n = Val(clint.next) /\ lo = clint.lo
  <2>1. Val(clint.cmp) \in Int /\ Val(clint.next) \in Int /\ clint.lo \in Int
    BY PortAssumption, <1>4 DEF PortAssumption, Val, Times, Word
  <2>2. QED BY <2>1
<1>13. v + e = lo + I /\ n = v + I
  BY <1>1, <1>2, <1>10, <1>12 DEF ClockInv
<1>14. Val(clint'.cmp) = n /\ Val(clint'.next) = n + I /\ clint'.lo = lo
  BY <1>5, <1>7, <1>12
<1>15. n + (e - I) = lo + I /\ n + I = n + I
  BY <1>1, <1>10, <1>12, <1>13
<1>16. /\ Val(clint'.cmp) + Elapsed' = clint'.lo + Increment
       /\ Val(clint'.next) = Val(clint'.cmp) + Increment
  BY <1>1, <1>11, <1>14, <1>15
<1>17. hart'.pc \notin {"setup_low", "setup_again"}
  BY DEF Places, InCritical
<1>18. QED BY <1>7, <1>9, <1>16, <1>17 DEF TimeType, ClockInv

\* The steps of the tasks do not touch the timer.
LEMMA TaskKeepsTime ==
  ASSUME TimeType, ClockInv, Started, hart'.pc \in Places \cup {"halt"},
         UNCHANGED <<clint, late>>
  PROVE  TimeType' /\ ClockInv'
<1>1. ~InSetup /\ hart'.pc \notin {"setup_low", "setup_again"}
  BY DEF Started, Places, InCritical
<1>2. Elapsed' = Elapsed
  BY DEF Elapsed
<1>3. QED BY <1>1, <1>2 DEF TimeType, ClockInv

-----------------------------------------------------------------------------
(* The invariant of the test *)

\* What the steps of FREERTOS_preempt.c do to its variables.
LEMMA TestFacts ==
  ASSUME ContextInv, TestType
  PROVE  /\ k.cur \in Spin /\ Spin = {0, 1} /\ Target \in Nat \ {0}
         /\ test.ran \in [Spin -> {0, 1}] /\ test.lastRunner \in Spin \cup {-1}
         /\ test.switches \in Nat /\ test.done \in {0, 1} /\ test.seq \in [Spin -> Nat]
         /\ test.switched \in [Spin -> {0, 1}] /\ test.forced \in 0 .. Target + 2
         /\ test.exit \in {"none", "success"}
         /\ test = [ran |-> test.ran, lastRunner |-> test.lastRunner,
                    switches |-> test.switches, done |-> test.done, seq |-> test.seq,
                    switched |-> test.switched, forced |-> test.forced, exit |-> test.exit]
  BY PortAssumption DEF PortAssumption, ContextInv, Sched, Spin, TestType

\* The invariant of the count says the same of the same values: moving a task on
\* matters only where it ceases to be about to end the test.
LEMMA CountStands ==
  ASSUME ContextInv, TestType, CountInv, build' = build, test' = test, k'.cur = k.cur,
         NEW p, \A t \in Spin : PcOf(t)' = IF t = k.cur THEN p ELSE PcOf(t),
         p # "loop" => test.ran[k.cur] = 1,
         p \in {"exit", "print"} \/ Ends(k.cur) = 0,
         hart'.pc = "update" => test.done = 0 /\ test.lastRunner # k.cur
  PROVE  CountInv'
<1>0. k.cur \in Spin /\ Spin = {0, 1} /\ Target \in Nat /\ test.switches \in Nat
  BY TestFacts
<1>1. \A t \in Spin : Ends(t) \in {0, 1} /\ Ends(t)' \in {0, 1} /\ Ends(t)' >= Ends(t)
  BY <1>0 DEF Ends
<1>2. Unnoticed' = Unnoticed /\ (Slices' <=> Slices)
  BY DEF Unnoticed, Slices
<1>3. \A t \in Spin : PcOf(t)' # "loop" => test'.ran[t] = 1
  BY <1>0 DEF CountInv
<1>4. test'.done = 0 => /\ test'.switches < Target + Ends(0)' + Ends(1)'
                        /\ test'.switches + Unnoticed' <= test'.forced
  BY <1>0, <1>1, <1>2 DEF CountInv
<1>5. QED BY <1>2, <1>3, <1>4 DEF CountInv

\* A round of prvSpinTask begins: the task has run, and has nothing to print yet.
LEMMA CountsStep ==
  ASSUME ContextInv, TestType, CountInv, SpinCounts
  PROVE  TestType' /\ CountInv'
<1>0. k.cur \in Spin /\ Spin = {0, 1} /\ Target \in Nat \ {0} /\ test.switches \in Nat
  BY TestFacts
<1>1. /\ k' = k /\ build' = build /\ hart'.pc = "enter"
      /\ \A t \in Spin : PcOf(t)' = IF t = k.cur THEN "enter" ELSE PcOf(t)
  <2>1. hart'.pc = "enter"
    BY DEF SpinCounts, ContextInv
  <2>2. QED BY <2>1, StepMoves
<1>2. PcOf(k.cur) = "loop"
  BY DEF SpinCounts, At, PcOf, Before
<1>3. test' = [test EXCEPT !.ran = [@ EXCEPT ![k.cur] = 1], !.seq = [@ EXCEPT ![k.cur] = 0],
                           !.switched = [@ EXCEPT ![k.cur] = 0]]
  BY TestFacts DEF SpinCounts, Me
<1>4. /\ test'.ran = [test.ran EXCEPT ![k.cur] = 1] /\ test'.seq = [test.seq EXCEPT ![k.cur] = 0]
      /\ test'.switched = [test.switched EXCEPT ![k.cur] = 0]
      /\ test'.lastRunner = test.lastRunner /\ test'.switches = test.switches
      /\ test'.done = test.done /\ test'.forced = test.forced /\ test'.exit = test.exit
  BY <1>3, TestFacts
<1>5. /\ test'.ran \in [Spin -> {0, 1}] /\ test'.seq \in [Spin -> Nat]
      /\ test'.switched \in [Spin -> {0, 1}]
  BY <1>4, TestFacts
<1>6. TestType'
  <2>1. test' = [ran |-> test'.ran, lastRunner |-> test.lastRunner,
                 switches |-> test.switches, done |-> test.done, seq |-> test'.seq,
                 switched |-> test'.switched, forced |-> test.forced, exit |-> test.exit]
    BY <1>3, <1>4, TestFacts
  <2>2. QED BY <1>5, <2>1, TestFacts DEF TestType
<1>7. /\ \A t \in Spin : test'.ran[t] = IF t = k.cur THEN 1 ELSE test.ran[t]
      /\ \A t \in Spin : test'.seq[t] = IF t = k.cur THEN 0 ELSE test.seq[t]
      /\ \A t \in Spin : test'.switched[t] = IF t = k.cur THEN 0 ELSE test.switched[t]
  BY <1>0, <1>4, TestFacts
<1>8. \A t \in Spin : Ends(t)' = Ends(t)
  BY <1>0, <1>1, <1>2, <1>7 DEF Ends
<1>9. Unnoticed' = Unnoticed /\ (Slices' <=> Slices)
  BY <1>1, <1>4 DEF Unnoticed, Slices
<1>10. \A t \in Spin : test'.seq[t] <= test'.switches /\ (test'.seq[t] > 0 => test'.switched[t] = 1)
  BY <1>0, <1>4, <1>7 DEF CountInv
<1>11. /\ \A t \in Spin : PcOf(t)' # "loop" => test'.ran[t] = 1
       /\ test'.lastRunner \in Spin => test'.ran[test'.lastRunner] = 1
       /\ test'.switches > 0 => \A t \in Spin : test'.ran[t] = 1
  BY <1>1, <1>4, <1>7 DEF CountInv
<1>12. test'.done = 0 => /\ test'.switches < Target + Ends(0)' + Ends(1)'
                         /\ test'.switches + Unnoticed' <= test'.forced
  BY <1>0, <1>4, <1>8, <1>9 DEF CountInv
<1>13. CountInv'
  BY <1>1, <1>4, <1>9, <1>10, <1>11, <1>12 DEF CountInv
<1>14. QED BY <1>6, <1>13

\* A task counts the switch that gave it the hart: a tick forced it, since the
\* runner before it had the hart when it counted last.
LEMMA UpdatesStep ==
  ASSUME ContextInv, TestType, CountInv, SpinUpdates
  PROVE  TestType' /\ CountInv'
<1>0. k.cur \in Spin /\ Spin = {0, 1} /\ Target \in Nat \ {0} /\ test.switches \in Nat
      /\ test.lastRunner \in Spin \cup {-1} /\ test.forced \in Nat
  BY TestFacts
<1>1. /\ k' = k /\ build' = build /\ hart'.pc = "exit"
      /\ \A t \in Spin : PcOf(t)' = IF t = k.cur THEN "exit" ELSE PcOf(t)
  <2>1. hart'.pc = "exit"
    BY DEF SpinUpdates, ContextInv
  <2>2. QED BY <2>1, StepMoves
<1>2. hart.pc = "update" /\ PcOf(k.cur) = "update" /\ test.done = 0 /\ test.lastRunner # k.cur
  BY DEF SpinUpdates, At, PcOf, Before, CountInv
<1>3. PICK n \in Nat, q \in Nat :
        /\ n = test.switches + (IF test.lastRunner >= 0 THEN 1 ELSE 0)
        /\ q = IF test.lastRunner >= 0 THEN n ELSE 0
  BY <1>0
<1>4. test' = [test EXCEPT !.switched = [@ EXCEPT ![k.cur] = 1], !.lastRunner = k.cur,
                           !.switches = n, !.seq = [@ EXCEPT ![k.cur] = q]]
  BY <1>3, TestFacts DEF SpinUpdates, Me
<1>5. /\ test'.ran = test.ran /\ test'.seq = [test.seq EXCEPT ![k.cur] = q]
      /\ test'.switched = [test.switched EXCEPT ![k.cur] = 1]
      /\ test'.lastRunner = k.cur /\ test'.switches = n
      /\ test'.done = test.done /\ test'.forced = test.forced /\ test'.exit = test.exit
  BY <1>4, TestFacts
<1>6. test'.seq \in [Spin -> Nat] /\ test'.switched \in [Spin -> {0, 1}]
  BY <1>3, <1>5, TestFacts
<1>7. TestType'
  <2>1. test' = [ran |-> test.ran, lastRunner |-> k.cur,
                 switches |-> n, done |-> test.done, seq |-> test'.seq,
                 switched |-> test'.switched, forced |-> test.forced, exit |-> test.exit]
    BY <1>4, <1>5, TestFacts
  <2>2. QED BY <1>0, <1>3, <1>6, <2>1, TestFacts DEF TestType
<1>8. /\ \A t \in Spin : test'.seq[t] = IF t = k.cur THEN q ELSE test.seq[t]
      /\ \A t \in Spin : test'.switched[t] = IF t = k.cur THEN 1 ELSE test.switched[t]
      /\ \A t \in Spin : test.seq[t] \in Nat
  BY <1>0, <1>5, TestFacts
<1>9. /\ \A t \in Spin : t = k.cur => Ends(t) = 0 /\ Ends(t)' = IF q >= Target THEN 1 ELSE 0
      /\ \A t \in Spin : t # k.cur => Ends(t)' = Ends(t)
      /\ \A t \in Spin : Ends(t) \in {0, 1}
  BY <1>0, <1>1, <1>2, <1>8 DEF Ends
<1>10. test.switches < Target + Ends(0) + Ends(1) /\ test.switches + Unnoticed <= test.forced
  BY <1>2 DEF CountInv
<1>11. n < Target + Ends(0)' + Ends(1)'
  <2>0. /\ k.cur = 0 => Ends(0) = 0 /\ Ends(0)' = (IF q >= Target THEN 1 ELSE 0) /\ Ends(1)' = Ends(1)
        /\ k.cur = 1 => Ends(1) = 0 /\ Ends(1)' = (IF q >= Target THEN 1 ELSE 0) /\ Ends(0)' = Ends(0)
        /\ Ends(0) \in {0, 1} /\ Ends(1) \in {0, 1}
    BY <1>0, <1>9
  <2>1. CASE test.lastRunner >= 0
    <3>1. n = test.switches + 1 /\ q = n BY <1>3, <2>1
    <3>2. CASE k.cur = 0 BY <1>0, <1>3, <1>10, <2>0, <3>1, <3>2
    <3>3. CASE k.cur = 1 BY <1>0, <1>3, <1>10, <2>0, <3>1, <3>3
    <3>4. QED BY <1>0, <3>2, <3>3
  <2>2. CASE ~(test.lastRunner >= 0)
    <3>1. n = test.switches /\ q = 0 BY <1>0, <1>3, <2>2
    <3>2. CASE k.cur = 0 BY <1>0, <1>3, <1>10, <2>0, <3>1, <3>2
    <3>3. CASE k.cur = 1 BY <1>0, <1>3, <1>10, <2>0, <3>1, <3>3
    <3>4. QED BY <1>0, <3>2, <3>3
  <2>3. QED BY <2>1, <2>2
<1>12. Unnoticed' = 0 /\ n <= test.forced
  <2>1. Unnoticed' = 0 BY <1>1, <1>5 DEF Unnoticed
  <2>2. CASE test.lastRunner \in Spin
    <3>1. Unnoticed = 1 BY <1>2, <2>2 DEF Unnoticed
    <3>2. n = test.switches + 1 BY <1>0, <1>3, <2>2
    <3>3. QED BY <1>10, <2>1, <3>1, <3>2
  <2>3. CASE test.lastRunner \notin Spin
    <3>1. Unnoticed = 0 BY <2>3 DEF Unnoticed
    <3>2. n = test.switches BY <1>0, <1>3, <2>3
    <3>3. QED BY <1>0, <1>10, <2>1, <3>1, <3>2
  <2>4. QED BY <2>2, <2>3
<1>13. test.ran[k.cur] = 1 /\ (n > 0 => \A t \in Spin : test.ran[t] = 1)
  <2>1. test.ran[k.cur] = 1 BY <1>0, <1>2 DEF CountInv
  <2>2. CASE test.lastRunner \in Spin
    <3>1. test.ran[test.lastRunner] = 1 BY <2>2 DEF CountInv
    <3>2. QED BY <1>0, <1>2, <2>1, <2>2, <3>1
  <2>3. CASE test.lastRunner \notin Spin
    <3>1. n = 0 BY <1>0, <1>3, <2>3 DEF CountInv
    <3>2. QED BY <2>1, <3>1
  <2>4. QED BY <2>2, <2>3
<1>14. \A t \in Spin : test'.seq[t] <= n /\ (test'.seq[t] > 0 => test'.switched[t] = 1)
  <2>1. n >= test.switches /\ q <= n BY <1>0, <1>3
  <2>2. \A t \in Spin : test.seq[t] <= test.switches /\ (test.seq[t] > 0 => test.switched[t] = 1)
    BY DEF CountInv
  <2>3. QED BY <1>0, <1>3, <1>8, <2>1, <2>2
<1>15. \A t \in Spin : PcOf(t)' # "loop" => test'.ran[t] = 1
  BY <1>1, <1>5, <1>13 DEF CountInv
<1>16. ~Slices' => k'.cur = 1 /\ test'.lastRunner # 0 /\ test'.switches = 0 /\ test'.exit = "none"
  <2> SUFFICES ASSUME ~Slices PROVE k.cur = 1 /\ n = 0 /\ test.exit = "none"
    BY <1>1, <1>5 DEF Slices
  <2>1. k.cur = 1 /\ test.lastRunner # 0 /\ test.switches = 0 /\ test.exit = "none"
    BY DEF CountInv
  <2>2. test.lastRunner = -1 BY <1>0, <1>2, <2>1
  <2>3. QED BY <1>3, <2>1, <2>2
<1>17. CountInv'
  <2>1. test'.lastRunner # -1 BY <1>0, <1>5
  <2>2. test'.ran[test'.lastRunner] = 1 BY <1>5, <1>13
  <2>3. test'.done = 0 BY <1>2, <1>5
  <2>4. test'.switches + Unnoticed' <= test'.forced BY <1>0, <1>3, <1>5, <1>12
  <2>5. QED BY <1>1, <1>5, <1>11, <1>13, <1>14, <1>15, <1>16, <2>1, <2>2, <2>3, <2>4 DEF CountInv
<1>18. QED BY <1>7, <1>17

\* A task prints, and ends the test if it has counted enough switches: there are
\* then at most one more than the test asks for.
LEMMA PrintsStep ==
  ASSUME ContextInv, TestType, CountInv, SpinPrints
  PROVE  TestType' /\ CountInv'
<1>0. k.cur \in Spin /\ Spin = {0, 1} /\ Target \in Nat \ {0} /\ test.switches \in Nat
      /\ test.forced \in Nat /\ test.done \in {0, 1} /\ \A t \in Spin : test.seq[t] \in Nat
  BY TestFacts
<1>1. /\ k' = k /\ build' = build /\ hart'.pc = "check"
      /\ \A t \in Spin : PcOf(t)' = IF t = k.cur THEN "check" ELSE PcOf(t)
  <2>1. hart'.pc = "check"
    BY DEF SpinPrints, ContextInv
  <2>2. QED BY <2>1, StepMoves
<1>2. PcOf(k.cur) = "print"
  BY DEF SpinPrints, At, PcOf, Before
<1>3. test.ran[k.cur] = 1
  BY <1>0, <1>2 DEF CountInv
<1>4. test' = [test EXCEPT !.done = IF test.seq[k.cur] >= Target THEN 1 ELSE test.done]
  BY DEF SpinPrints, Me
<1>5. CASE test.seq[k.cur] >= Target
  <2>1. /\ test'.ran = test.ran /\ test'.seq = test.seq /\ test'.switched = test.switched
        /\ test'.lastRunner = test.lastRunner /\ test'.switches = test.switches
        /\ test'.done = 1 /\ test'.forced = test.forced /\ test'.exit = test.exit
    BY <1>4, <1>5, TestFacts
  <2>2. TestType'
    <3>1. test' = [ran |-> test.ran, lastRunner |-> test.lastRunner,
                   switches |-> test.switches, done |-> 1, seq |-> test.seq,
                   switched |-> test.switched, forced |-> test.forced, exit |-> test.exit]
      BY <1>4, <1>5, TestFacts
    <3>2. QED BY <3>1, TestFacts DEF TestType
  <2>3. test.switches \in {Target, Target + 1} /\ test.switches <= test.forced
    <3>1. CASE test.done = 0
      <4>1. test.switches >= Target
        BY <1>0, <1>5 DEF CountInv
      <4>2. Ends(0) \in {0, 1} /\ Ends(1) \in {0, 1} /\ Unnoticed \in {0, 1}
        BY DEF Ends, Unnoticed
      <4>3. /\ test.switches < Target + Ends(0) + Ends(1)
            /\ test.switches + Unnoticed <= test.forced
        BY <3>1 DEF CountInv
      <4>4. QED BY <1>0, <4>1, <4>2, <4>3
    <3>2. CASE test.done = 1
      BY <3>2 DEF CountInv
    <3>3. QED BY <1>0, <3>1, <3>2
  <2>4. \A t \in Spin : PcOf(t)' # "loop" => test'.ran[t] = 1
    BY <1>1, <1>3, <2>1 DEF CountInv
  <2>5. Slices' <=> Slices
    BY <1>1 DEF Slices
  <2>6. CountInv'
    BY <1>1, <2>1, <2>3, <2>4, <2>5 DEF CountInv
  <2>7. QED BY <2>2, <2>6
<1>6. CASE ~(test.seq[k.cur] >= Target)
  <2>1. test' = test
    BY <1>4, <1>6, TestFacts
  <2>2. Ends(k.cur) = 0
    BY <1>6 DEF Ends
  <2>3. CountInv'
    BY <1>1, <1>3, <2>1, <2>2, CountStands
  <2>4. QED BY <2>1, <2>3 DEF TestType
<1>7. QED BY <1>5, <1>6

\* Task 0 reports: both tasks ran and the switches are enough.
LEMMA ReportsStep ==
  ASSUME ContextInv, TestType, CountInv, SpinReports
  PROVE  TestType' /\ CountInv'
<1>0. k.cur \in Spin /\ Spin = {0, 1} /\ Target \in Nat \ {0} /\ test.switches \in Nat
  BY TestFacts
<1>1. /\ k' = k /\ build' = build /\ hart'.pc = "halt"
      /\ \A t \in Spin : PcOf(t)' = IF t = k.cur THEN "halt" ELSE PcOf(t)
  <2>1. hart'.pc = "halt"
    BY DEF SpinReports, ContextInv
  <2>2. QED BY <2>1, StepMoves
<1>2. test.done = 1 /\ PcOf(k.cur) = "check"
  BY DEF SpinReports, At, PcOf, Before
<1>3. test.switches \in {Target, Target + 1}
  BY <1>2 DEF CountInv
<1>4. test.switches >= Target /\ test.switches > 0
  BY <1>0, <1>3
<1>5. \A t \in Spin : test.ran[t] = 1
  BY <1>4 DEF CountInv
<1>6. test' = [test EXCEPT !.exit = "success"]
  BY <1>4, <1>5 DEF SpinReports
<1>7. /\ test'.ran = test.ran /\ test'.seq = test.seq /\ test'.switched = test.switched
      /\ test'.lastRunner = test.lastRunner /\ test'.switches = test.switches
      /\ test'.done = test.done /\ test'.forced = test.forced /\ test'.exit = "success"
  BY <1>6, TestFacts
<1>8. TestType'
  <2>1. test' = [ran |-> test.ran, lastRunner |-> test.lastRunner,
                 switches |-> test.switches, done |-> test.done, seq |-> test.seq,
                 switched |-> test.switched, forced |-> test.forced, exit |-> "success"]
    BY <1>6, TestFacts
  <2>2. QED BY <2>1, TestFacts DEF TestType
<1>9. Slices /\ Slices'
  <2>1. Slices BY <1>0, <1>4 DEF CountInv
  <2>2. QED BY <1>1, <2>1 DEF Slices
<1>10. CountInv'
  BY <1>1, <1>2, <1>5, <1>7, <1>9 DEF CountInv
<1>11. QED BY <1>8, <1>10

\* The other steps of prvSpinTask: the test's variables stand, and a task leaves
\* its critical section for "check" only if it counted nothing.
LEMMA PassesStep ==
  ASSUME ContextInv, TestType, CountInv,
         SpinEnters \/ SpinTests \/ SpinExits \/ SpinGoesOn
  PROVE  TestType' /\ CountInv'
<1>0. k.cur \in Spin /\ Spin = {0, 1} /\ Target \in Nat \ {0}
      /\ \A t \in Spin : test.seq[t] \in Nat /\ test.switched[t] \in {0, 1}
  BY TestFacts
<1>1. /\ k' = k /\ build' = build /\ test' = test
      /\ \A t \in Spin : PcOf(t)' = IF t = k.cur THEN hart'.pc ELSE PcOf(t)
  <2>1. test' = test
    BY DEF SpinEnters, SpinTests, SpinExits, SpinGoesOn
  <2>2. QED BY <2>1, StepMoves
<1>2. PcOf(k.cur) = hart.pc /\ hart.pc \in {"enter", "test", "exit", "check"}
  BY DEF SpinEnters, SpinTests, SpinExits, SpinGoesOn, At, PcOf, Before
<1>3. test.ran[k.cur] = 1
  BY <1>0, <1>2 DEF CountInv
<1>4. /\ hart'.pc = "update" => test.done = 0 /\ test.lastRunner # k.cur
      /\ hart'.pc \in {"exit", "print"} \/ Ends(k.cur) = 0
  <2>1. CASE SpinEnters
    <3>1. hart.pc = "enter" /\ hart'.pc = "test"
      BY <2>1 DEF SpinEnters, At, portENTER_CRITICAL
    <3>2. QED BY <1>2, <3>1 DEF Ends
  <2>2. CASE SpinTests
    <3>1. hart.pc = "test" /\ hart'.pc = IF Noticed THEN "update" ELSE "exit"
      BY <2>2 DEF SpinTests, At, ContextInv
    <3>2. QED BY <1>2, <3>1 DEF Ends, Noticed, Me
  <2>3. CASE SpinExits
    <3>1. hart'.pc = IF test.switched[k.cur] = 1 THEN "print" ELSE "check"
      BY <2>3 DEF SpinExits, portEXIT_CRITICAL, Me
    <3>2. test.switched[k.cur] # 1 => Ends(k.cur) = 0
      BY <1>0 DEF CountInv, Ends
    <3>3. QED BY <3>1, <3>2
  <2>4. CASE SpinGoesOn
    <3>1. hart.pc = "check" /\ hart'.pc = "loop"
      BY <2>4 DEF SpinGoesOn, At, ContextInv
    <3>2. QED BY <1>2, <3>1 DEF Ends
  <2>5. QED BY <2>1, <2>2, <2>3, <2>4
<1>5. CountInv'
  BY <1>1, <1>3, <1>4, CountStands
<1>6. QED BY <1>1, <1>5 DEF TestType

\* Task 1 steps aside once the test is over: the count stands.
LEMMA YieldsStep ==
  ASSUME ContextInv, TestType, CountInv, SpinYields
  PROVE  TestType' /\ CountInv'
<1>0. k.cur \in Spin /\ Spin = {0, 1} /\ Target \in Nat \ {0} /\ test.switches \in Nat
  BY TestFacts
<1>1. /\ build' = build /\ test' = test /\ ContextInv' /\ hart'.pc \in Places
      /\ \A t \in Spin : PcOf(t)' = IF t = k.cur THEN "loop" ELSE PcOf(t)
  BY YieldMoves
<1>2. test.done = 1
  BY DEF SpinYields
<1>3. Slices /\ Slices'
  <2>1. test.switches \in {Target, Target + 1} BY <1>2 DEF CountInv
  <2>2. test.switches # 0 BY <1>0, <2>1
  <2>3. Slices BY <2>2 DEF CountInv
  <2>4. QED BY <1>1, <2>3 DEF Slices
<1>4. hart'.pc # "update"
  <2>1. PcOf(0)' # "update" /\ PcOf(1)' # "update"
    <3>1. PcOf(k.cur) = "check" /\ k.cur = 1
      BY DEF SpinYields, At, PcOf, Before, Me
    <3>2. PcOf(0) # "update"
      BY <1>0, <3>1, PortAssumption DEF PcOf, ContextInv, PortAssumption, SpinYields, At, InCritical
    <3>3. QED BY <1>0, <1>1, <3>1, <3>2
  <2>2. hart'.pc \notin Before
    BY <1>1 DEF Places, InCritical, Before
  <2>3. k'.cur \in {0, 1}
    BY <1>1 DEF ContextInv, Sched, Spin
  <2>4. QED BY <2>1, <2>2, <2>3 DEF PcOf
<1>5. \A t \in Spin : PcOf(t)' # "loop" => test'.ran[t] = 1
  BY <1>1 DEF CountInv
<1>6. CountInv'
  BY <1>1, <1>2, <1>3, <1>4, <1>5 DEF CountInv
<1>7. QED BY <1>1, <1>6 DEF TestType


\* A tick that takes the hart from a task is one more forced switch, which the
\* other task has yet to notice; the count of forced switches is only bounded
\* beyond what the test can count.
LEMMA TickCounts ==
  ASSUME ContextInv, TestType, CountInv, TimerInterrupt, build.main = "test"
  PROVE  TestType' /\ CountInv'
<1>0. k.cur \in Spin /\ Spin = {0, 1} /\ Target \in Nat \ {0} /\ test.switches \in Nat
      /\ test.forced \in 0 .. Target + 2
  BY TestFacts
<1>1. /\ build' = build /\ ContextInv' /\ \A t \in Spin : PcOf(t)' = PcOf(t)
      /\ ~Slices => k'.cur = k.cur
      /\ test' = IF k'.cur = k.cur \/ test.forced = Target + 2 THEN test
                 ELSE [test EXCEPT !.forced = @ + 1]
  BY TickMoves
<1>2. hart'.pc # "update"
  <2>1. hart' = frame'[k'.cur] BY DEF TimerInterrupt, Trap
  <2>2. k'.cur \in Task
    BY <1>1, PortAssumption DEF PortAssumption, ContextInv, Sched, Spin
  <2>3. frame'[k'.cur].pc \notin InCritical BY <1>1, <2>2 DEF ContextInv
  <2>4. QED BY <2>1, <2>3 DEF InCritical
<1>3. CASE k'.cur = k.cur
  <2>1. test' = test BY <1>1, <1>3
  <2>2. PcOf(k.cur) # "loop" => test.ran[k.cur] = 1 BY <1>0 DEF CountInv
  <2>3. PcOf(k.cur) \in {"exit", "print"} \/ Ends(k.cur) = 0 BY DEF Ends
  <2>4. PICK p : p = PcOf(k.cur) OBVIOUS
  <2>5. \A t \in Spin : PcOf(t)' = IF t = k.cur THEN p ELSE PcOf(t)
    BY <1>1, <2>4
  <2>6. CountInv' BY <1>1, <1>2, <1>3, <2>1, <2>2, <2>3, <2>4, <2>5, CountStands
  <2>7. QED BY <2>1, <2>6 DEF TestType
<1>4. CASE k'.cur # k.cur
  <2>1. Slices /\ Slices' BY <1>1, <1>4 DEF Slices
  <2>2. PICK f \in 0 .. Target + 2 :
          f = IF test.forced = Target + 2 THEN test.forced ELSE test.forced + 1
    BY <1>0
  <2>3. test' = [ran |-> test.ran, lastRunner |-> test.lastRunner,
                 switches |-> test.switches, done |-> test.done, seq |-> test.seq,
                 switched |-> test.switched, forced |-> f, exit |-> test.exit]
    <3>1. CASE test.forced = Target + 2
      BY <1>1, <2>2, <3>1, TestFacts
    <3>2. CASE test.forced # Target + 2
      BY <1>1, <1>4, <2>2, <3>2, TestFacts
    <3>3. QED BY <3>1, <3>2
  <2>4. TestType' BY <2>2, <2>3, TestFacts DEF TestType
  <2>5. /\ test'.ran = test.ran /\ test'.seq = test.seq /\ test'.switched = test.switched
        /\ test'.lastRunner = test.lastRunner /\ test'.switches = test.switches
        /\ test'.done = test.done /\ test'.forced = f /\ test'.exit = test.exit
    BY <2>3
  <2>6. \A t \in Spin : Ends(t)' = Ends(t)
    BY <1>1, <2>5 DEF Ends
  <2>7. ASSUME test.done = 0
        PROVE  /\ test.switches < Target + Ends(0)' + Ends(1)'
               /\ test.switches + Unnoticed' <= f
    <3>1. /\ Ends(0) \in {0, 1} /\ Ends(1) \in {0, 1} /\ Unnoticed \in {0, 1}
          /\ Unnoticed' \in {0, 1}
      BY DEF Ends, Unnoticed
    <3>2. /\ test.switches < Target + Ends(0) + Ends(1)
          /\ test.switches + Unnoticed <= test.forced
      BY <2>7 DEF CountInv
    <3>3. Ends(0)' = Ends(0) /\ Ends(1)' = Ends(1) BY <1>0, <2>6
    <3>4. QED BY <1>0, <2>2, <3>1, <3>2, <3>3
  <2>8. test.done = 1 => test.switches \in {Target, Target + 1} /\ test.switches <= f
    <3>1. test.forced <= f BY <1>0, <2>2
    <3>2. QED BY <1>0, <2>2, <3>1 DEF CountInv
  <2>9. CountInv'
    BY <1>1, <1>2, <2>1, <2>5, <2>7, <2>8 DEF CountInv
  <2>10. QED BY <2>4, <2>9
<1>5. QED BY <1>3, <1>4

\* Before the first task runs, and as time passes, nothing happens to the test.
LEMMA TestStands ==
  ASSUME ContextInv, TestType, CountInv, build' = build, k' = k, test' = test,
         \A t \in Spin : PcOf(t)' = PcOf(t), hart'.pc = "update" => hart.pc = "update"
  PROVE  TestType' /\ CountInv'
<1>1. PICK p : p = PcOf(k.cur) OBVIOUS
<1>2. k.cur \in Spin BY TestFacts
<1>3. PcOf(k.cur) # "loop" => test.ran[k.cur] = 1 BY <1>2 DEF CountInv
<1>4. PcOf(k.cur) \in {"exit", "print"} \/ Ends(k.cur) = 0 BY DEF Ends
<1>5. \A t \in Spin : PcOf(t)' = IF t = k.cur THEN p ELSE PcOf(t) BY <1>1
<1>6. hart'.pc = "update" => test.done = 0 /\ test.lastRunner # k.cur BY DEF CountInv
<1>7. CountInv' BY <1>1, <1>3, <1>4, <1>5, <1>6, CountStands
<1>8. QED BY <1>7 DEF TestType

\* The other program does not touch the variables of the test; ticks still count.
LEMMA AnyStands ==
  ASSUME TestType, Target \in Nat, test.switches = 0, test.exit = "none", build.main = "any",
         ContextInv, [Next]_vars
  PROVE  TestType' /\ test'.switches = 0 /\ test'.exit = "none"
<1>1. CASE test' = test
  BY <1>1 DEF TestType
<1>2. CASE TimerInterrupt /\ test' # test
  <2>1. test' = [test EXCEPT !.forced = @ + 1] /\ test.forced # Target + 2
    BY <1>2, TickMoves
  <2>2. PICK f \in 0 .. Target + 2 : f = test.forced + 1
    BY <2>1, TestFacts
  <2>3. test' = [ran |-> test.ran, lastRunner |-> test.lastRunner,
                 switches |-> test.switches, done |-> test.done, seq |-> test.seq,
                 switched |-> test.switched, forced |-> f, exit |-> test.exit]
    BY <2>1, <2>2, TestFacts
  <2>4. QED BY <2>2, <2>3, TestFacts DEF TestType
<1>3. test' = test \/ TimerInterrupt
  <2>1. ~SpinStep
    BY DEF SpinStep, SpinCounts, SpinEnters, SpinTests, SpinUpdates, SpinExits, SpinPrints,
           SpinGoesOn, SpinYields, SpinReports, At
  <2>2. QED
    BY <2>1 DEF Next, vars, Clock, Setup, SetupReadHigh, SetupReadLow, SetupReadAgain,
                xPortStartFirstTask, TaskStep, AnyEnters, AnyExits, AnyYields, Ecall
<1>4. QED BY <1>1, <1>2, <1>3

-----------------------------------------------------------------------------
(* The invariant *)

\* main leaves the two tasks ready to start and the test's variables at zero.
LEMMA InitInv == Init => IInv
<1> SUFFICES ASSUME Init PROVE IInv
  OBVIOUS
<1>0. Spin \subseteq Task /\ Spin = {0, 1}
  BY PortAssumption DEF PortAssumption, Spin
<1>1. Sched(k) /\ k.preempt = build.preempt /\ k.slicing = build.slicing /\ k.cur = 1
  BY InitSched
<1>2. /\ build \in Builds
      /\ hart = [pc |-> "setup", mie |-> 0, nesting |-> 0]
      /\ frame = [t \in Task |-> pxPortInitialiseStack]
      /\ \E lo \in 0 .. WordMod - 1 :
           clint = [lo |-> lo, cmp |-> Zero, next |-> Zero, read |-> Zero]
      /\ late = [rest |-> 0, owed |-> 0]
      /\ test = [ran |-> [t \in Spin |-> 0], lastRunner |-> -1, switches |-> 0, done |-> 0,
                 seq |-> [t \in Spin |-> 0], switched |-> [t \in Spin |-> 0], forced |-> 0,
                 exit |-> "none"]
  BY DEF Init
<1>3. hart.pc = "setup" /\ InSetup /\ ~Started
  BY <1>2 DEF InSetup, Started
<1>4. /\ hart \in [pc : Places \cup Before \cup {"halt"}, mie : {0, 1}, nesting : Nat]
      /\ frame \in [Task -> [pc : Places, mie : {0, 1}, nesting : Nat]]
      /\ \A t \in Task : frame[t].pc = "loop" /\ frame[t].mie = 1 /\ frame[t].nesting = 0
  BY <1>2 DEF pxPortInitialiseStack, Places, Before
<1>5. ContextInv
  BY <1>1, <1>2, <1>3, <1>4 DEF ContextInv, MaskMatchesNesting, InCritical
<1>6. TimeType
  <2>1. /\ WordMod \in Nat /\ WordMod > 0 /\ Increment \in Nat /\ Increment > 0
    BY PortAssumption DEF PortAssumption
  <2>2. Zero \in Times
    BY <2>1 DEF Zero, Times, Word
  <2>3. clint \in [lo : Word, cmp : Times, next : Times, read : Times]
    BY <1>2, <2>2 DEF Word
  <2>4. late \in [rest : 0 .. Increment - 1, owed : Nat]
    BY <1>2, <2>1
  <2>5. QED BY <2>3, <2>4 DEF TimeType
<1>7. ClockInv
  BY <1>3 DEF ClockInv
<1>8. /\ test.ran = [t \in Spin |-> 0] /\ test.lastRunner = -1 /\ test.switches = 0
      /\ test.done = 0 /\ test.seq = [t \in Spin |-> 0] /\ test.forced = 0
      /\ test.exit = "none"
  BY <1>2
<1>9. TestType
  BY <1>2, PortAssumption DEF PortAssumption, TestType
<1>10. CountInv
  <2>1. \A t \in Spin : PcOf(t) = "loop" /\ Ends(t) = 0
    BY <1>0, <1>3, <1>4 DEF PcOf, Before, Ends
  <2>2. Unnoticed = 0
    BY <1>0, <1>8 DEF Unnoticed
  <2>3. Ends(0) = 0 /\ Ends(1) = 0
    BY <1>0, <2>1
  <2>4. \A t \in Spin : test.seq[t] = 0
    BY <1>8
  <2>5. 0 < Target /\ Target \in Nat
    BY PortAssumption DEF PortAssumption
  <2>6. test.lastRunner \notin Spin
    BY <1>0, <1>8
  <2>7. test.switches < Target + Ends(0) + Ends(1) /\ test.switches + Unnoticed <= test.forced
    BY <1>8, <2>2, <2>3, <2>5
  <2>8. QED BY <1>0, <1>1, <1>3, <1>8, <2>1, <2>4, <2>6, <2>7 DEF CountInv
<1>11. QED BY <1>5, <1>6, <1>7, <1>8, <1>9, <1>10 DEF IInv, TestInv

\* Every step of the clock, the trap handler, the setup and the tasks keeps it.
LEMMA InvStep == IInv /\ [Next]_vars => IInv'
<1> SUFFICES ASSUME IInv, [Next]_vars PROVE IInv'
  OBVIOUS
<1>0. ContextInv /\ TimeType /\ ClockInv /\ TestInv /\ TestType
  BY DEF IInv, TestInv
<1>1. build' = build /\ build.main \in {"test", "any"}
  <2>1. build' = build
    BY DEF vars, Next, Clock, Setup, SetupReadHigh, SetupReadLow, SetupReadAgain,
           xPortStartFirstTask, TimerInterrupt, TaskStep, SpinStep, SpinCounts, SpinEnters,
           SpinTests, SpinUpdates, SpinExits, SpinPrints, SpinGoesOn, SpinYields, SpinReports,
           AnyEnters, AnyExits, AnyYields, Ecall, Stays
  <2>2. QED BY <1>0, <2>1, PortAssumption DEF PortAssumption, ContextInv
<1>2. build.main = "any" => TestInv'
  <2> SUFFICES ASSUME build.main = "any" PROVE TestInv'
    OBVIOUS
  <2>1. TestType' /\ test'.switches = 0 /\ test'.exit = "none"
    BY <1>0, AnyStands, TestFacts DEF TestInv
  <2>2. QED BY <1>1, <2>1 DEF TestInv
<1>3. SUFFICES ContextInv' /\ TimeType' /\ ClockInv'
               /\ (build.main = "test" => TestType' /\ CountInv')
  BY <1>1, <1>2 DEF IInv, TestInv
<1>4. build.main = "test" => CountInv
  BY <1>0 DEF TestInv
<1>5. CASE UNCHANGED vars
  <2>1. UNCHANGED <<build, k, hart, frame, clint, late, test>> BY <1>5 DEF vars
  <2>2. ContextInv' /\ \A t \in Spin : PcOf(t)' = PcOf(t) BY <1>0, <2>1, ClockMoves
  <2>3. TimeType' /\ ClockInv'
    BY <1>0, <2>1 DEF TimeType, ClockInv, InSetup, Elapsed
  <2>4. QED BY <1>0, <1>4, <2>1, <2>2, <2>3, TestStands
<1>6. CASE Clock
  <2>1. UNCHANGED <<build, k, hart, frame, test>> BY <1>6 DEF Clock
  <2>2. ContextInv' /\ \A t \in Spin : PcOf(t)' = PcOf(t) BY <1>0, <2>1, ClockMoves
  <2>3. TimeType' /\ ClockInv' BY <1>0, <1>6, ClockStep
  <2>4. QED BY <1>0, <1>4, <2>1, <2>2, <2>3, TestStands
<1>7. CASE Setup
  <2>1. /\ ContextInv' /\ hart.pc \in Before /\ UNCHANGED <<build, k, frame, test>>
        /\ hart'.pc \in Places \cup Before
        /\ \A t \in Spin : PcOf(t)' = PcOf(t)
    BY <1>0, <1>7, SetupMoves
  <2>2. TimeType' /\ ClockInv' BY <1>0, <1>7, SetupStep
  <2>3. build.main = "test" => hart'.pc # "update"
    <3> SUFFICES ASSUME build.main = "test", hart'.pc = "update" PROVE FALSE
      OBVIOUS
    <3>1. k.cur \in Spin /\ k.cur \in Task
      BY <1>0, PortAssumption DEF PortAssumption, ContextInv, Sched, Spin
    <3>2. PcOf(k.cur) = frame[k.cur].pc BY <2>1 DEF PcOf
    <3>3. \A t \in Spin : t = k.cur => PcOf(t)' = "update" BY <2>1 DEF PcOf, Before
    <3>4. frame[k.cur].pc = "update" BY <2>1, <3>1, <3>2, <3>3
    <3>5. QED BY <1>0, <3>1, <3>4 DEF ContextInv, InCritical
  <2>4. QED BY <1>0, <1>4, <2>1, <2>2, <2>3, TestStands
<1>8. CASE TimerInterrupt
  <2>1. ContextInv' /\ hart'.pc \in Places BY <1>0, <1>8, TickMoves
  <2>2. TimeType' /\ ClockInv' BY <1>0, <1>8, <2>1, TickStep
  <2>3. QED BY <1>0, <1>4, <1>8, <2>1, <2>2, TickCounts
<1>9. CASE SpinYields \/ AnyYields
  <2>1. ContextInv' /\ Started /\ hart'.pc \in Places /\ UNCHANGED <<clint, late>>
    BY <1>0, <1>9, YieldMoves
  <2>2. TimeType' /\ ClockInv' BY <1>0, <2>1, TaskKeepsTime
  <2>3. build.main = "test" => SpinYields BY <1>9 DEF AnyYields, AtAny
  <2>4. QED BY <1>0, <1>4, <2>1, <2>2, <2>3, YieldsStep
<1>10. CASE \/ SpinCounts \/ SpinEnters \/ SpinTests \/ SpinUpdates \/ SpinExits
            \/ SpinPrints \/ SpinGoesOn \/ SpinReports \/ AnyEnters \/ AnyExits
  <2>1. /\ ContextInv' /\ Started /\ hart'.pc \in Places \cup {"halt"}
        /\ UNCHANGED <<clint, late>>
    BY <1>0, <1>10, StepMoves
  <2>2. TimeType' /\ ClockInv' BY <1>0, <2>1, TaskKeepsTime
  <2>3. build.main = "test" => ~AnyEnters /\ ~AnyExits BY DEF AnyEnters, AnyExits, AtAny
  <2>4. build.main = "test" => TestType' /\ CountInv'
    BY <1>0, <1>4, <1>10, <2>3, CountsStep, UpdatesStep, PrintsStep, ReportsStep, PassesStep
  <2>5. QED BY <2>1, <2>2, <2>4
<1>11. QED
  BY <1>5, <1>6, <1>7, <1>8, <1>9, <1>10 DEF Next, TaskStep, SpinStep

-----------------------------------------------------------------------------
(* The properties *)

\* The contexts, the timer and the test's variables are always as IInv says.
THEOREM InvHolds == Spec => []IInv
<1>1. QED BY InitInv, InvStep, PTL DEF Spec

\* For every width of the words and every period, and however the hart's two
\* reads and the carries of the clock fall: the timer interrupt is pending
\* exactly when a tick is due (vPortSetupTimerInterrupt,
\* portUPDATE_MTIMER_COMPARE_REGISTER).
THEOREM TicksOnTime == Spec => []TicksKeepTime
<1>1. IInv => TicksKeepTime
  BY PendingIsDue DEF IInv, TicksKeepTime, Started
<1>2. QED BY <1>1, InvHolds, PTL

\* For every depth of critical sections and every point of preemption: each task
\* has interrupts on exactly outside its own critical sections (the context's
\* xCriticalNesting and mstatus).
THEOREM MaskHolds == Spec => []MaskMatchesNesting
<1>1. IInv => MaskMatchesNesting
  BY DEF IInv, ContextInv
<1>2. QED BY <1>1, InvHolds, PTL

\* For every number of switches asked for: what FREERTOS_preempt.c counts is
\* forced by ticks, without time slicing there is no verdict, and the verdict is
\* never a failure.
THEOREM VerdictRight == Spec => []VerdictIsRight
<1>1. IInv => VerdictIsRight
  <2> SUFFICES ASSUME IInv PROVE VerdictIsRight
    OBVIOUS
  <2>0. /\ test.switches \in Nat /\ test.forced \in Nat /\ test.done \in {0, 1}
        /\ test.exit \in {"none", "success"} /\ Unnoticed \in {0, 1}
        /\ build.main \in {"test", "any"}
    <3>1. ContextInv /\ TestType BY DEF IInv, TestInv
    <3>2. build.main \in {"test", "any"}
      BY <3>1, PortAssumption DEF PortAssumption, ContextInv
    <3>3. QED BY <3>1, <3>2, TestFacts DEF Unnoticed
  <2>1. CASE build.main = "test"
    <3>1. CountInv BY <2>1 DEF IInv, TestInv
    <3>2. CountedSwitchIsForced
      <4>1. CASE test.done = 0 BY <2>0, <3>1, <4>1 DEF CountInv, CountedSwitchIsForced
      <4>2. CASE test.done = 1 BY <3>1, <4>2 DEF CountInv, CountedSwitchIsForced
      <4>3. QED BY <2>0, <4>1, <4>2
    <3>3. QED
      BY <2>0, <3>1, <3>2 DEF CountInv, VerdictIsRight, NoSlicingNoVerdict, VerdictIsSuccess
  <2>2. CASE build.main = "any"
    BY <2>0, <2>2 DEF IInv, TestInv, VerdictIsRight, CountedSwitchIsForced,
                      NoSlicingNoVerdict, VerdictIsSuccess
  <2>3. QED BY <2>0, <2>1, <2>2
<1>2. QED BY <1>1, InvHolds, PTL

-----------------------------------------------------------------------------
(* heap_4: the arithmetic of addresses and sizes *)

\* What the bit masks of heap_4.c do: an address or a size is cut down to a
\* multiple of portBYTE_ALIGNMENT.
LEMMA CutDown ==
  ASSUME NEW x \in Int
  PROVE  LET c == (x \div Align) * Align
         IN /\ c \in Int /\ c % Align = 0 /\ c <= x /\ x < c + Align
            /\ x >= 0 => c >= 0
<1>1. Align \in Nat \ {0}
  BY HeapAssumption
<1> DEFINE d == x \div Align
<1>2. d \in Int /\ x = Align * d + (x % Align) /\ x % Align \in 0 .. Align - 1
  BY <1>1
<1> HIDE DEF d
<1>3. d * Align \in Int /\ d * Align = Align * d
  BY <1>1, <1>2
<1>4. (d * Align) % Align = 0
  BY <1>1, <1>2
<1>5. d * Align <= x /\ x < d * Align + Align
  BY <1>1, <1>2, <1>3
<1>6. x >= 0 => d * Align >= 0
  <2>1. ASSUME x >= 0, d * Align < 0 PROVE FALSE
    <3>1. d < 0
      BY <1>1, <1>2, <2>1
    <3>2. d + 1 <= 0
      BY <1>2, <3>1
    <3>3. (d + 1) * Align <= 0
      BY <1>1, <1>2, <3>2
    <3>4. (d + 1) * Align = d * Align + Align
      BY <1>1, <1>2
    <3>5. QED BY <1>1, <1>3, <1>5, <2>1, <3>3, <3>4
  <2>2. QED BY <2>1, <1>3
<1>7. QED BY <1>3, <1>4, <1>5, <1>6 DEF d

\* Sums and differences of aligned addresses and sizes are aligned.
LEMMA Aligned ==
  ASSUME NEW x \in Int, NEW y \in Int, x % Align = 0, y % Align = 0
  PROVE  (x + y) % Align = 0 /\ (x - y) % Align = 0
<1>1. Align \in Nat \ {0}
  BY HeapAssumption
<1> DEFINE p == x \div Align
           q == y \div Align
<1>2. p \in Int /\ x = Align * p + (x % Align)
  BY <1>1
<1>3. q \in Int /\ y = Align * q + (y % Align)
  BY <1>1
<1>4. \A i \in Int : (Align * i) % Align = 0
  BY <1>1
<1> HIDE DEF p, q
<1>5. x + y = Align * (p + q) /\ x - y = Align * (p - q) /\ p + q \in Int /\ p - q \in Int
  BY <1>1, <1>2, <1>3
<1>6. QED BY <1>4, <1>5

\* A multiple of the alignment that is large enough for a size is large enough
\* for the size rounded up.
LEMMA RoundedUp ==
  ASSUME NEW m \in Int, NEW c \in Int, m % Align = 0, c % Align = 0, NEW n \in Int, m >= n, c < n + Align
  PROVE  m >= c
<1>1. Align \in Nat \ {0}
  BY HeapAssumption
<1>2. SUFFICES ASSUME m < c PROVE FALSE
  OBVIOUS
<1> DEFINE p == (c - m) \div Align
<1>3. p \in Int /\ c - m = Align * p + ((c - m) % Align)
  BY <1>1
<1>a. (c - m) % Align = 0
  BY Aligned
<1>b. c - m = Align * p
  BY <1>1, <1>3, <1>a
<1>4. c - m = Align * p /\ c - m > 0 /\ c - m < Align
  BY <1>1, <1>2, <1>b
<1> HIDE DEF p
<1>5. p >= 1
  BY <1>1, <1>3, <1>4
<1>6. Align * p >= Align
  BY <1>1, <1>3, <1>5
<1>7. QED BY <1>1, <1>3, <1>4, <1>6

\* A header is rounded up to whole alignment units (xHeapStructSize).
LEMMA Struct ==
  /\ Align \in Nat /\ Align > 0
  /\ xHeapStructSize \in Nat /\ xHeapStructSize > 0 /\ xHeapStructSize % Align = 0
<1>1. Align \in Nat \ {0} /\ LinkSize \in Nat \ {0}
  BY HeapAssumption
<1> DEFINE x == LinkSize + Align - 1
           c == (x \div Align) * Align
<1>2. x \in Int /\ x >= Align
  BY <1>1
<1>3. c \in Int /\ c % Align = 0 /\ c <= x /\ x < c + Align
  BY <1>2, CutDown
<1>4. xHeapStructSize = c
  BY DEF xHeapStructSize
<1> HIDE DEF x, c
<1>5. QED BY <1>1, <1>2, <1>3, <1>4

\* The first block and the end marker are aligned, lie in ucHeap, and there is
\* room for a header between them (prvHeapInit).
LEMMA HeapEnds ==
  ASSUME ucHeap \in Bases
  PROVE  /\ ucHeap \in Nat
         /\ uxStartAddress \in Nat /\ uxStartAddress % Align = 0 /\ uxStartAddress >= ucHeap
         /\ uxEndAddress \in Nat /\ uxEndAddress % Align = 0
         /\ uxEndAddress + xHeapStructSize <= ucHeap + HeapSize
         /\ xHeapStructSize <= uxEndAddress - uxStartAddress
         /\ (uxEndAddress - uxStartAddress) % Align = 0
<1>1. Align \in Nat \ {0} /\ HeapSize \in Nat /\ ucHeap \in Nat
      /\ 2 * xHeapStructSize + 2 * Align <= HeapSize
  <2>1. Align \in Nat \ {0} /\ HeapSize \in Nat /\ ucHeap \in Nat
    BY HeapAssumption
  <2>2. QED BY <2>1, Struct, HeapIsLarge
<1> DEFINE x == ucHeap + Align - 1
           y == ucHeap + HeapSize - xHeapStructSize
           c == (x \div Align) * Align
           d == (y \div Align) * Align
<1>2. x \in Int /\ x >= 0 /\ y \in Int /\ y >= 0
  BY <1>1, Struct
<1>3. c \in Int /\ c % Align = 0 /\ c <= x /\ x < c + Align /\ c >= 0
  BY <1>2, CutDown
<1>4. d \in Int /\ d % Align = 0 /\ d <= y /\ y < d + Align /\ d >= 0
  BY <1>2, CutDown
<1>5. uxStartAddress = c /\ uxEndAddress = d
  BY DEF uxStartAddress, uxEndAddress
<1> HIDE DEF c, d
<1>6. (d - c) % Align = 0
  BY <1>3, <1>4, Aligned
<1>7. QED BY <1>1, <1>3, <1>4, <1>5, <1>6, Struct

\* The size computed for a request: a multiple of the alignment that holds the
\* request and a header, and that no aligned block which holds both is below;
\* 0 only for a request of 0 bytes or one beyond a size_t.
LEMMA Wanted ==
  ASSUME NEW n \in Nat
  PROVE  LET w == WantedSize(n)
         IN /\ w \in Nat /\ w % Align = 0
            /\ w # 0 => /\ n + xHeapStructSize <= w /\ w < SizeMod /\ w >= xHeapStructSize
                        /\ \A m \in Int : m % Align = 0 /\ m >= n + xHeapStructSize => m >= w
            /\ w = 0 /\ n # 0 => \A m \in Int : m % Align = 0 /\ m >= n + xHeapStructSize => m >= SizeMod
<1>1. Align \in Nat \ {0} /\ SizeMod \in Int
  BY HeapAssumption
<1> DEFINE x == n + xHeapStructSize + Align - 1
           c == (x \div Align) * Align
<1>2. x \in Int /\ x >= 0
  BY <1>1, Struct
<1>3. c \in Int /\ c % Align = 0 /\ c <= x /\ x < c + Align /\ c >= 0
  BY <1>2, CutDown
<1>4. WantedSize(n) = IF n = 0 \/ c >= SizeMod THEN 0 ELSE c
  BY DEF WantedSize
<1>5. 0 % Align = 0
  BY <1>1
<1> HIDE DEF c
<1>6. ASSUME NEW m \in Int, m % Align = 0, m >= n + xHeapStructSize PROVE m >= c
  <2>1. n + xHeapStructSize \in Int /\ c < (n + xHeapStructSize) + Align
    BY <1>1, <1>3, Struct
  <2>2. QED BY <1>3, <1>6, <2>1, RoundedUp
<1>7. QED BY <1>1, <1>3, <1>4, <1>5, <1>6, Struct

-----------------------------------------------------------------------------
(* Addresses *)

\* Of some addresses at or above a bound one is the lowest.
LEMMA HasMin ==
  ASSUME NEW S, NEW bound \in Int, S # {}, \A a \in S : a \in Int /\ a >= bound
  PROVE  \E a \in S : \A b \in S : a <= b
<1> DEFINE T == {a - bound : a \in S}
           R == OpToRel(<, Nat)
<1>1. T \subseteq Nat /\ T # {}
  OBVIOUS
<1>2. IsWellFoundedOn(R, Nat)
  BY NatLessThanWellFounded
<1>3. PICK x \in T : \A y \in T : ~(<<y, x>> \in R)
  BY <1>1, <1>2, WFMin
<1>4. \A y \in T : ~(y < x)
  BY <1>1, <1>3 DEF OpToRel
<1>5. PICK a \in S : x = a - bound
  OBVIOUS
<1>6. \A b \in S : a <= b
  <2> SUFFICES ASSUME NEW b \in S PROVE a <= b
    OBVIOUS
  <2>1. b - bound \in T /\ a - bound \in T
    OBVIOUS
  <2>2. ~(b - bound < a - bound)
    BY <1>4, <1>5, <2>1
  <2>3. QED BY <2>2
<1>7. QED BY <1>6

\* Of some addresses at or below a bound one is the highest.
LEMMA HasMax ==
  ASSUME NEW S, NEW bound \in Int, S # {}, \A a \in S : a \in Int /\ a <= bound
  PROVE  \E a \in S : \A b \in S : b <= a
<1> DEFINE T == {bound - a : a \in S}
<1>1. T # {} /\ \A a \in T : a \in Int /\ a >= 0
  OBVIOUS
<1>2. PICK x \in T : \A y \in T : x <= y
  <2> HIDE DEF T
  <2>1. QED BY <1>1, HasMin
<1>3. PICK a \in S : x = bound - a
  OBVIOUS
<1>4. \A b \in S : b <= a
  <2> SUFFICES ASSUME NEW b \in S PROVE b <= a
    OBVIOUS
  <2>1. bound - b \in T
    OBVIOUS
  <2>2. bound - a <= bound - b
    BY <1>2, <1>3, <2>1
  <2>3. QED BY <2>2
<1>5. QED BY <1>4

\* f follows nx from each address of S to the first one in stop.
Follows(f, S, nx, stop) == f = [a \in S |-> IF a \in stop THEN a ELSE f[nx[a]]]

\* A walk along a list in the order of the addresses that stops at the first
\* address of a set reaches it, from wherever it starts.
LEMMA Walk ==
  ASSUME NEW S, NEW bound \in Int, \A a \in S : a \in Int /\ a <= bound,
         NEW nx, NEW stop \in SUBSET S,
         \A a \in S \ stop : nx[a] \in S /\ a < nx[a] /\ \A c \in S : a < c => nx[a] <= c
  PROVE  /\ \E f : Follows(f, S, nx, stop)
         /\ \A f : Follows(f, S, nx, stop) =>
              \A a \in S : f[a] \in stop /\ a <= f[a] /\ \A c \in stop : a <= c => f[a] <= c
<1> DEFINE First(a, s) == s \in stop /\ a <= s /\ \A c \in stop : a <= c => s <= c
           F == [a \in S |-> CHOOSE s : First(a, s)]
<1>1. \A a \in S : \E s : First(a, s)
  <2> SUFFICES ASSUME NEW a \in S PROVE \E s : First(a, s)
    OBVIOUS
  <2> DEFINE U == {c \in S : a <= c}
             V == {c \in stop : a <= c}
  <2>1. PICK m \in U : \A c \in U : c <= m
    <3>1. U # {} /\ \A c \in U : c \in Int /\ c <= bound
      OBVIOUS
    <3> HIDE DEF U
    <3>2. QED BY <3>1, HasMax
  <2>2. m \in stop
    <3>1. ASSUME m \notin stop PROVE FALSE
      <4>1. m \in S /\ a <= m /\ nx[m] \in S /\ m < nx[m]
        BY <2>1, <3>1
      <4>2. nx[m] \in U
        BY <4>1
      <4>3. QED BY <2>1, <4>1, <4>2
    <3>2. QED BY <3>1
  <2>3. V # {} /\ \A c \in V : c \in Int /\ c >= a
    BY <2>1, <2>2
  <2>4. PICK s \in V : \A c \in V : s <= c
    <3> HIDE DEF V
    <3>1. QED BY <2>3, HasMin
  <2>5. First(a, s)
    BY <2>4
  <2>6. QED BY <2>5
<1>2. \A a \in S : First(a, F[a])
  <2> SUFFICES ASSUME NEW a \in S PROVE First(a, F[a])
    OBVIOUS
  <2>1. F[a] = CHOOSE s : First(a, s)
    OBVIOUS
  <2>2. \E s : First(a, s)
    BY <1>1
  <2> HIDE DEF F, First
  <2>3. QED BY <2>1, <2>2, Zenon
<1>3. \A a \in S : \A s, u : First(a, s) /\ First(a, u) => s = u
  OBVIOUS
<1>4. \A a \in S : F[a] = IF a \in stop THEN a ELSE F[nx[a]]
  <2> SUFFICES ASSUME NEW a \in S PROVE F[a] = IF a \in stop THEN a ELSE F[nx[a]]
    OBVIOUS
  <2>1. CASE a \in stop
    <3>1. First(a, a)
      BY <2>1
    <3> HIDE DEF F, First
    <3>2. QED BY <1>2, <1>3, <2>1, <3>1
  <2>2. CASE a \notin stop
    <3>1. nx[a] \in S /\ First(nx[a], F[nx[a]])
      BY <1>2, <2>2
    <3> HIDE DEF F
    <3>2. First(a, F[nx[a]])
      BY <2>2, <3>1
    <3> HIDE DEF First
    <3>3. QED BY <1>2, <1>3, <2>2, <3>2
  <2>3. QED BY <2>1, <2>2
<1>5. Follows(F, S, nx, stop)
  <2>1. F = [a \in S |-> F[a]]
    OBVIOUS
  <2> HIDE DEF F
  <2>2. QED BY <1>4, <2>1 DEF Follows
<1>6. ASSUME NEW f, Follows(f, S, nx, stop)
      PROVE  \A a \in S : First(a, f[a])
  <2>1. SUFFICES ASSUME NEW b \in S, ~First(b, f[b]) PROVE FALSE
    OBVIOUS
  <2> DEFINE B == {a \in S : ~First(a, f[a])}
  <2>2. PICK m \in B : \A c \in B : c <= m
    <3>1. B # {} /\ \A c \in B : c \in Int /\ c <= bound
      BY <2>1
    <3> HIDE DEF B
    <3>2. QED BY <3>1, HasMax
  <2>3. m \in S /\ ~First(m, f[m])
    BY <2>2
  <2>4. f[m] = IF m \in stop THEN m ELSE f[nx[m]]
    BY <1>6, <2>3 DEF Follows
  <2>5. CASE m \in stop
    BY <2>3, <2>4, <2>5
  <2>6. CASE m \notin stop
    <3>1. nx[m] \in S /\ m < nx[m]
      BY <2>3, <2>6
    <3>2. First(nx[m], f[nx[m]])
      BY <2>2, <2>3, <3>1
    <3>3. First(m, f[nx[m]])
      BY <2>3, <2>6, <3>1, <3>2
    <3>4. QED BY <2>3, <2>4, <2>6, <3>3
  <2>7. QED BY <2>5, <2>6
<1>7. QED BY <1>5, <1>6

-----------------------------------------------------------------------------
(* The free list *)

\* The free list runs through blocks of the heap, below the end marker.
LEMMA ShapeFacts ==
  ASSUME NEW h, ucHeap \in Bases, Tiled(h), InOrder(h)
  PROVE  /\ h.pxEnd = uxEndAddress /\ h.pxEnd \in Nat /\ h.link[h.pxEnd] = Header(Null, 0, 0)
         /\ xStart \in Linked(h) /\ h.pxEnd \notin Linked(h) /\ h.pxEnd \notin Within(h)
         /\ Listed(h) \subseteq Within(h) /\ DOMAIN h.link = Within(h) \cup {xStart, h.pxEnd}
         /\ xStart \notin Within(h)
         /\ h.link[xStart] = Header(h.link[xStart].next, 0, 0)
         /\ \A a \in Linked(h) :
              /\ a \in Int /\ xStart <= a /\ a < h.pxEnd /\ a < h.link[a].next
              /\ h.link[a].next \in Nat /\ h.link[a].next \in Listed(h) \cup {h.pxEnd}
              /\ h.link[a] = Header(h.link[a].next, h.link[a].size, 0)
         /\ \A b \in Within(h) :
              /\ b \in Nat /\ h.link[b].size \in Nat /\ h.link[b].size >= xHeapStructSize
              /\ h.link[b].size > 0 /\ b + h.link[b].size <= h.pxEnd /\ b < h.pxEnd /\ b > xStart
              /\ b % Align = 0 /\ h.link[b].size % Align = 0 /\ b >= uxStartAddress
              /\ h.link[b].next \in {Null} \cup Nat
              /\ h.link[b] = Header(h.link[b].next, h.link[b].size, h.link[b].alloc)
<1>1. h.pxEnd = uxEndAddress /\ h.pxEnd \in Nat /\ h.link[h.pxEnd] = Header(Null, 0, 0)
      /\ xHeapStructSize \in Nat /\ xHeapStructSize > 0
  BY HeapEnds, Struct DEF Tiled
<1>2. xStart \in Linked(h) /\ h.pxEnd \notin Linked(h) /\ h.pxEnd \notin Within(h) /\ xStart \notin Within(h)
  BY <1>1 DEF Tiled, InOrder, Linked, Within, Header, Null
<1>3. Listed(h) \subseteq Within(h) /\ DOMAIN h.link = Within(h) \cup {xStart, h.pxEnd}
  BY <1>2 DEF Tiled, Listed, Linked, Within
<1>4. \A b \in Within(h) :
              /\ b \in Nat /\ h.link[b].size \in Nat /\ h.link[b].size >= xHeapStructSize
              /\ h.link[b].size > 0 /\ b + h.link[b].size <= h.pxEnd /\ b < h.pxEnd /\ b > xStart
              /\ b % Align = 0 /\ h.link[b].size % Align = 0 /\ b >= uxStartAddress
              /\ h.link[b].next \in {Null} \cup Nat
              /\ h.link[b] = Header(h.link[b].next, h.link[b].size, h.link[b].alloc)
  <2> SUFFICES ASSUME NEW b \in Within(h)
               PROVE  /\ b \in Nat /\ h.link[b].size \in Nat /\ h.link[b].size >= xHeapStructSize
                      /\ h.link[b].size > 0 /\ b + h.link[b].size <= h.pxEnd /\ b < h.pxEnd /\ b > xStart
                      /\ b % Align = 0 /\ h.link[b].size % Align = 0 /\ b >= uxStartAddress
                      /\ h.link[b].next \in {Null} \cup Nat
                      /\ h.link[b] = Header(h.link[b].next, h.link[b].size, h.link[b].alloc)
    OBVIOUS
  <2>1. /\ h.link[b] \in [next : {Null} \cup Nat, size : Nat, alloc : {0, 1}]
        /\ b \in Nat /\ b % Align = 0 /\ h.link[b].size % Align = 0 /\ h.link[b].size >= xHeapStructSize
        /\ b >= uxStartAddress /\ b + h.link[b].size <= h.pxEnd
    BY DEF Tiled, Behind
  <2>2. h.link[b] = Header(h.link[b].next, h.link[b].size, h.link[b].alloc)
    BY <2>1 DEF Header
  <2>3. QED BY <1>1, <2>1, <2>2 DEF xStart
<1>5. h.link[xStart] = Header(h.link[xStart].next, 0, 0)
  BY DEF InOrder, Header
<1>6. \A a \in Linked(h) :
        /\ a \in Int /\ xStart <= a /\ a < h.pxEnd /\ a < h.link[a].next
        /\ h.link[a].next \in Nat /\ h.link[a].next \in Listed(h) \cup {h.pxEnd}
        /\ h.link[a] = Header(h.link[a].next, h.link[a].size, 0)
  <2> SUFFICES ASSUME NEW a \in Linked(h)
               PROVE  /\ a \in Int /\ xStart <= a /\ a < h.pxEnd /\ a < h.link[a].next
                      /\ h.link[a].next \in Nat /\ h.link[a].next \in Listed(h) \cup {h.pxEnd}
                      /\ h.link[a] = Header(h.link[a].next, h.link[a].size, 0)
    OBVIOUS
  <2>1. h.link[a].alloc = 0 /\ a < h.link[a].next /\ h.link[a].next \in Listed(h) \cup {h.pxEnd}
    BY DEF InOrder
  <2>2. h.link[a].next \in Nat
    BY <1>1, <1>3, <1>4, <2>1
  <2>3. CASE a = xStart
    BY <1>1, <1>5, <2>1, <2>2, <2>3 DEF xStart, Header
  <2>4. CASE a # xStart
    <3>1. a \in Within(h)
      BY <1>3, <2>4 DEF Listed
    <3>2. h.link[a] = Header(h.link[a].next, h.link[a].size, h.link[a].alloc)
          /\ a \in Nat /\ a < h.pxEnd /\ a > xStart
      BY <1>4, <3>1
    <3>3. QED BY <2>1, <2>2, <3>2 DEF xStart
  <2>5. QED BY <2>3, <2>4
<1>7. QED BY <1>1, <1>2, <1>3, <1>4, <1>5, <1>6

\* Every free block, and the end marker, comes behind a header of the list.
LEMMA HasPrevious ==
  ASSUME NEW h, ucHeap \in Bases, Tiled(h), InOrder(h), NEW b \in Listed(h) \cup {h.pxEnd}
  PROVE  \E a \in Linked(h) : h.link[a].next = b /\ a < b
<1> DEFINE S == {a \in Linked(h) : a < b}
<1>1. b \in Nat /\ b > xStart /\ b <= h.pxEnd /\ h.pxEnd \in Nat
  BY ShapeFacts DEF xStart
<1>2. S # {} /\ \A a \in S : a \in Int /\ a <= b
  <2>1. xStart \in S
    BY <1>1, ShapeFacts
  <2>2. \A a \in Linked(h) : a \in Int
    BY ShapeFacts
  <2>3. QED BY <1>1, <2>1, <2>2
<1>3. PICK m \in S : \A c \in S : c <= m
  <2> HIDE DEF S
  <2>1. QED BY <1>1, <1>2, HasMax
<1>4. m \in Linked(h) /\ m < b /\ m \in Int /\ h.link[m].next \in Nat
      /\ m < h.link[m].next /\ h.link[m].next \in Listed(h) \cup {h.pxEnd}
  BY <1>3, ShapeFacts
<1>5. h.link[m].next \in Linked(h) => h.link[m].next >= b
  BY <1>1, <1>3, <1>4
<1>6. CASE b = h.pxEnd
  <2>1. \A c \in Listed(h) : c \in Linked(h) /\ c < h.pxEnd
    BY ShapeFacts DEF Listed
  <2>2. QED BY <1>1, <1>4, <1>5, <1>6, <2>1
<1>7. CASE b \in Listed(h)
  <2>1. h.link[m].next <= b
    BY <1>4, <1>7 DEF InOrder
  <2>2. h.link[m].next \in Listed(h) \/ h.link[m].next >= b
    BY <1>1, <1>4
  <2>3. h.link[m].next >= b
    BY <1>5, <2>2 DEF Listed
  <2>4. QED BY <1>1, <1>4, <2>1, <2>3
<1>8. QED BY <1>6, <1>7

\* The search of pvPortMalloc ends in front of a free block that is large
\* enough, and at the end of the list only if none is.
LEMMA FirstFit ==
  ASSUME NEW h, ucHeap \in Bases, Tiled(h), InOrder(h), NEW wanted \in Nat
  PROVE  LET p == pxPreviousBlock(h, wanted)
         IN /\ p \in Linked(h)
            /\ h.link[p].next # h.pxEnd =>
                 h.link[p].next \in Listed(h) /\ h.link[h.link[p].next].size >= wanted
            /\ h.link[p].next = h.pxEnd => \A b \in Listed(h) : h.link[b].size < wanted
<1> DEFINE S == Linked(h)
           nx == [a \in S |-> h.link[a].next]
           stop == {a \in S : ~(h.link[h.link[a].next].size < wanted /\ h.link[h.link[a].next].next # Null)}
           W(f) == [a \in S |-> LET b == h.link[a].next
                                IN IF h.link[b].size < wanted /\ h.link[b].next # Null THEN f[b] ELSE a]
           walk == CHOOSE f : f = W(f)
<1>1. \A a \in S : a \in Int /\ a <= h.pxEnd
  BY ShapeFacts
<1>2. stop \in SUBSET S /\ h.pxEnd \in Int
  BY ShapeFacts
<1>3. \A a \in S \ stop : nx[a] \in S /\ a < nx[a] /\ \A c \in S : a < c => nx[a] <= c
  <2> SUFFICES ASSUME NEW a \in S \ stop
               PROVE  nx[a] \in S /\ a < nx[a] /\ \A c \in S : a < c => nx[a] <= c
    OBVIOUS
  <2>1. nx[a] = h.link[a].next /\ h.link[h.link[a].next].next # Null
    OBVIOUS
  <2>2. a < h.link[a].next /\ h.link[a].next \in DOMAIN h.link
    BY ShapeFacts DEF Listed
  <2>3. h.link[a].next \in S
    BY <2>1, <2>2 DEF Linked
  <2>4. \A c \in Linked(h) : a < c => c \in Listed(h)
    BY ShapeFacts DEF Listed
  <2>5. \A c \in S : a < c => h.link[a].next <= c
    BY <2>4 DEF InOrder
  <2>6. QED BY <2>1, <2>2, <2>3, <2>5
<1>4. \A f : Follows(f, S, nx, stop) <=> f = W(f)
  BY DEF Follows
<1>5. /\ \E f : f = W(f)
      /\ \A f : f = W(f) => \A a \in S : f[a] \in stop /\ a <= f[a] /\ \A c \in stop : a <= c => f[a] <= c
  <2> HIDE DEF S, nx, stop, W
  <2>1. /\ \E f : Follows(f, S, nx, stop)
        /\ \A f : Follows(f, S, nx, stop) =>
             \A a \in S : f[a] \in stop /\ a <= f[a] /\ \A c \in stop : a <= c => f[a] <= c
    <3>1. h.pxEnd \in Int
      BY <1>2
    <3>2. stop \in SUBSET S
      BY <1>2
    <3>3. QED BY <1>1, <1>3, <3>1, <3>2, Walk
  <2>2. QED BY <1>4, <2>1
<1>6. walk = W(walk)
  <2> HIDE DEF W
  <2>1. QED BY <1>5, Zenon
<1>7. pxPreviousBlock(h, wanted) = walk[xStart]
  BY DEF pxPreviousBlock
<1> DEFINE p == walk[xStart]
<1>8. p \in stop /\ \A c \in stop : p <= c
  <2> HIDE DEF walk, W, stop
  <2>1. xStart \in S /\ \A c \in S : xStart <= c
    BY ShapeFacts
  <2>2. QED BY <1>2, <1>5, <1>6, <2>1
<1> HIDE DEF walk, W
<1>9. p \in Linked(h) /\ p \in Int /\ h.link[p].next \in Listed(h) \cup {h.pxEnd}
  BY <1>8, ShapeFacts
<1>10. ASSUME h.link[p].next # h.pxEnd
       PROVE  h.link[p].next \in Listed(h) /\ h.link[h.link[p].next].size >= wanted
  <2>1. h.link[p].next \in Listed(h) /\ h.link[h.link[p].next].size \in Nat
    BY <1>9, <1>10, ShapeFacts
  <2>2. h.link[h.link[p].next].next # Null
    BY <2>1 DEF Listed, Linked
  <2>3. QED BY <1>8, <2>1, <2>2
<1>11. ASSUME h.link[p].next = h.pxEnd, NEW b \in Listed(h)
       PROVE  h.link[b].size < wanted
  <2>1. PICK a \in Linked(h) : h.link[a].next = b /\ a < b
    BY HasPrevious
  <2>2. h.link[b].size \in Nat /\ b < h.pxEnd /\ b \in Nat /\ a \in Int /\ h.pxEnd \in Nat
    BY ShapeFacts
  <2>3. SUFFICES ASSUME ~(h.link[b].size < wanted) PROVE FALSE
    OBVIOUS
  <2>4. p <= a
    BY <1>8, <2>1, <2>3
  <2>5. h.pxEnd <= b
    BY <1>9, <1>11, <2>1, <2>2, <2>4 DEF InOrder
  <2>6. QED BY <2>2, <2>5
<1>12. QED BY <1>7, <1>9, <1>10, <1>11

\* prvInsertBlockIntoFreeList finds the two headers of the list that an address
\* in ucHeap lies between.
LEMMA Between ==
  ASSUME NEW h, ucHeap \in Bases, Tiled(h), InOrder(h), NEW b \in Nat, b < h.pxEnd, b \notin Linked(h)
  PROVE  LET it == pxIterator(h, b)
         IN it \in Linked(h) /\ it < b /\ b < h.link[it].next
<1> DEFINE S == Linked(h)
           nx == [a \in S |-> h.link[a].next]
           stop == {a \in S : ~(h.link[a].next < b)}
           W(f) == [a \in S |-> IF h.link[a].next < b THEN f[h.link[a].next] ELSE a]
           walk == CHOOSE f : f = W(f)
<1>1. \A a \in S : a \in Int /\ a <= h.pxEnd
  BY ShapeFacts
<1>2. stop \in SUBSET S /\ h.pxEnd \in Int
  BY ShapeFacts
<1>3. \A a \in S \ stop : nx[a] \in S /\ a < nx[a] /\ \A c \in S : a < c => nx[a] <= c
  <2> SUFFICES ASSUME NEW a \in S \ stop
               PROVE  nx[a] \in S /\ a < nx[a] /\ \A c \in S : a < c => nx[a] <= c
    OBVIOUS
  <2>1. nx[a] = h.link[a].next /\ h.link[a].next < b
    OBVIOUS
  <2>2. a < h.link[a].next /\ h.link[a].next \in Listed(h) \cup {h.pxEnd} /\ h.pxEnd \in Nat
    BY ShapeFacts
  <2>3. h.link[a].next \in S
    BY <2>1, <2>2 DEF Listed
  <2>4. \A c \in Linked(h) : a < c => c \in Listed(h)
    BY ShapeFacts DEF Listed
  <2>5. \A c \in S : a < c => h.link[a].next <= c
    BY <2>4 DEF InOrder
  <2>6. QED BY <2>1, <2>2, <2>3, <2>5
<1>4. \A f : Follows(f, S, nx, stop) <=> f = W(f)
  BY DEF Follows
<1>5. /\ \E f : f = W(f)
      /\ \A f : f = W(f) => \A a \in S : f[a] \in stop /\ a <= f[a] /\ \A c \in stop : a <= c => f[a] <= c
  <2> HIDE DEF S, nx, stop, W
  <2>1. /\ \E f : Follows(f, S, nx, stop)
        /\ \A f : Follows(f, S, nx, stop) =>
             \A a \in S : f[a] \in stop /\ a <= f[a] /\ \A c \in stop : a <= c => f[a] <= c
    <3>1. h.pxEnd \in Int
      BY <1>2
    <3>2. stop \in SUBSET S
      BY <1>2
    <3>3. QED BY <1>1, <1>3, <3>1, <3>2, Walk
  <2>2. QED BY <1>4, <2>1
<1>6. walk = W(walk)
  <2> HIDE DEF W
  <2>1. QED BY <1>5, Zenon
<1>7. pxIterator(h, b) = walk[xStart]
  BY DEF pxIterator
<1> DEFINE p == walk[xStart]
<1>8. p \in stop /\ \A c \in stop : p <= c
  <2> HIDE DEF walk, W, stop
  <2>1. xStart \in S /\ \A c \in S : xStart <= c
    BY ShapeFacts
  <2>2. QED BY <1>2, <1>5, <1>6, <2>1
<1> HIDE DEF walk, W
<1>9. p \in Linked(h) /\ p \in Int /\ h.link[p].next \in Listed(h) \cup {h.pxEnd} /\ h.link[p].next \in Nat
  BY <1>8, ShapeFacts
<1>10. b < h.link[p].next
  <2>1. b # h.link[p].next
    BY <1>9 DEF Listed
  <2>2. QED BY <1>8, <1>9, <2>1
<1>11. p < b
  <2>1. CASE p = xStart
    BY <2>1 DEF xStart
  <2>2. CASE p # xStart
    <3>1. PICK a \in Linked(h) : h.link[a].next = p /\ a < p
      BY <1>9, <2>2, HasPrevious DEF Listed
    <3>2. a \in Int
      BY ShapeFacts
    <3>3. a \notin stop
      BY <1>8, <1>9, <3>1, <3>2
    <3>4. QED BY <3>1, <3>3
  <2>3. QED BY <2>1, <2>2
<1>12. QED BY <1>7, <1>9, <1>10, <1>11

\* No two headers of the free list have the same next one.
LEMMA NextOnce ==
  ASSUME NEW h, ucHeap \in Bases, Tiled(h), InOrder(h), NEW a \in Linked(h), NEW b \in Linked(h),
         h.link[a].next = h.link[b].next
  PROVE  a = b
<1>1. a \in Int /\ b \in Int /\ h.link[a].next \in Int /\ a < h.link[a].next /\ b < h.link[b].next
  BY ShapeFacts
<1>2. a < b => h.link[a].next <= b
  <2>1. a < b => b \in Listed(h)
    BY ShapeFacts DEF Listed
  <2>2. QED BY <2>1 DEF InOrder
<1>3. b < a => h.link[b].next <= a
  <2>1. b < a => a \in Listed(h)
    BY ShapeFacts DEF Listed
  <2>2. QED BY <2>1 DEF InOrder
<1>4. QED BY <1>1, <1>2, <1>3

\* Two blocks share no byte.
LEMMA Apart ==
  ASSUME NEW h, ucHeap \in Bases, Tiled(h), InOrder(h), NEW a \in Within(h), NEW b \in Within(h), a # b
  PROVE  /\ a < b => Behind(h, a) <= b
         /\ b < a => Behind(h, b) <= a
         /\ a < b \/ b < a
<1>1. a \in Nat /\ b \in Nat
  BY ShapeFacts
<1>2. QED BY <1>1 DEF Tiled

\* The bytes of some blocks.
LEMMA BytesAre ==
  ASSUME NEW h, ucHeap \in Bases, Tiled(h), InOrder(h), NEW B \in SUBSET Within(h)
  PROVE  /\ Bytes(h, B) \subseteq Int
         /\ \A y \in Int : y \in Bytes(h, B) <=> \E b \in B : b <= y /\ y < Behind(h, b)
<1>1. \A b \in B : b \in Nat /\ Behind(h, b) \in Nat
  BY ShapeFacts DEF Behind
<1>2. \A y : y \in Bytes(h, B) <=> \E b \in B : y \in b .. Behind(h, b) - 1
  BY DEF Bytes
<1>3. \A y, b : b \in B => (y \in b .. Behind(h, b) - 1 <=> y \in Int /\ b <= y /\ y < Behind(h, b))
  BY <1>1
<1>4. QED BY <1>2, <1>3

-----------------------------------------------------------------------------
(* The first call sets the heap up *)

\* The headers prvHeapInit writes: one free block and the end marker.
LEMMA InitShape ==
  ASSUME ucHeap \in Bases, NEW g, DOMAIN g = {"link", "pxEnd", "free", "min", "live"}
  PROVE  LET h == prvHeapInit(g)
         IN /\ Tiled(h) /\ InOrder(h) /\ DOMAIN h = DOMAIN g
            /\ Within(h) = {uxStartAddress} /\ Listed(h) = {uxStartAddress}
            /\ h.live = g.live
            /\ h.free = Cardinality(Bytes(h, Listed(h))) /\ h.min = h.free /\ h.free \in Nat
<1> DEFINE h == prvHeapInit(g)
           S == uxStartAddress
           E == uxEndAddress
           L == [a \in {xStart, S, E} |->
                   IF a = xStart THEN Header(S, 0, 0)
                   ELSE IF a = S THEN Header(E, E - S, 0) ELSE Header(Null, 0, 0)]
<1>1. /\ S \in Nat /\ S % Align = 0 /\ E \in Nat /\ E % Align = 0 /\ (E - S) % Align = 0
      /\ xHeapStructSize <= E - S /\ xHeapStructSize \in Nat /\ xHeapStructSize > 0
  BY HeapEnds, Struct
<1>2. h = [g EXCEPT !.link = L, !.pxEnd = E, !.free = E - S, !.min = E - S]
  BY DEF prvHeapInit
<1> HIDE DEF h, S, E
<1>3. xStart # S /\ xStart # E /\ S # E /\ S < E /\ E - S \in Nat
  BY <1>1 DEF xStart
<1>4. /\ DOMAIN L = {xStart, S, E}
      /\ L[xStart] = Header(S, 0, 0) /\ L[S] = Header(E, E - S, 0) /\ L[E] = Header(Null, 0, 0)
  BY <1>3
<1> HIDE DEF L
<1>5. /\ h.link = L /\ h.pxEnd = E /\ h.free = E - S /\ h.min = E - S /\ h.live = g.live
      /\ DOMAIN h = DOMAIN g
  BY <1>2
<1>6. Within(h) = {S}
  BY <1>3, <1>4, <1>5 DEF Within
<1>7. Listed(h) = {S} /\ Linked(h) = {xStart, S}
  <2>1. S # Null /\ E # Null
    BY <1>1 DEF Null
  <2>2. QED BY <1>3, <1>4, <1>5, <2>1 DEF Listed, Linked, Header
<1>8. Behind(h, S) = E
  BY <1>1, <1>4, <1>5 DEF Behind, Header
<1>9. Tiled(h)
  <2>1. IsFiniteSet({xStart, S, E})
    <3>1. IsFiniteSet({xStart})
      BY FS_Singleton
    <3>2. IsFiniteSet({xStart} \cup {S})
      BY <3>1, FS_AddElement
    <3>3. IsFiniteSet(({xStart} \cup {S}) \cup {E})
      BY <3>2, FS_AddElement
    <3>4. {xStart, S, E} = ({xStart} \cup {S}) \cup {E}
      OBVIOUS
    <3>5. QED BY <3>3, <3>4
  <2>2. L[S] \in [next : {Null} \cup Nat, size : Nat, alloc : {0, 1}] /\ L[S].size = E - S
    BY <1>1, <1>3, <1>4 DEF Header
  <2>3. /\ IsFiniteSet(DOMAIN h.link) /\ xStart \in DOMAIN h.link /\ h.pxEnd \in DOMAIN h.link
        /\ h.pxEnd = uxEndAddress /\ h.link[h.pxEnd] = Header(Null, 0, 0)
        /\ uxStartAddress \in Within(h)
    BY <1>4, <1>5, <1>6, <2>1 DEF S, E
  <2>4. \A b \in Within(h) :
          /\ h.link[b] \in [next : {Null} \cup Nat, size : Nat, alloc : {0, 1}]
          /\ b \in Nat /\ b % Align = 0 /\ h.link[b].size % Align = 0 /\ h.link[b].size >= xHeapStructSize
          /\ b >= uxStartAddress /\ Behind(h, b) \in Within(h) \cup {h.pxEnd} /\ Behind(h, b) <= h.pxEnd
    BY <1>1, <1>5, <1>6, <1>8, <2>2 DEF S
  <2>5. \A a, b \in Within(h) : a < b => Behind(h, a) <= b
    BY <1>1, <1>6
  <2>6. \A c \in Within(h) \cup {h.pxEnd} : c = uxStartAddress \/ \E a \in Within(h) : Behind(h, a) = c
    BY <1>5, <1>6, <1>8 DEF S
  <2>7. QED BY <2>3, <2>4, <2>5, <2>6 DEF Tiled
<1>10. InOrder(h)
  <2>1. /\ L[xStart] \in [next : Nat, size : {0}, alloc : {0}]
        /\ L[xStart].next = S /\ L[S].next = E /\ L[S].alloc = 0 /\ L[xStart].alloc = 0
    BY <1>1, <1>3, <1>4 DEF Header
  <2>2. xStart < S /\ S < E
    BY <1>1, <1>3 DEF xStart
  <2>3. \A a \in Linked(h) :
          /\ h.link[a].alloc = 0
          /\ a < h.link[a].next /\ h.link[a].next \in Listed(h) \cup {h.pxEnd}
          /\ \A b \in Listed(h) : a < b => h.link[a].next <= b
    BY <1>1, <1>5, <1>7, <2>1, <2>2
  <2>4. \A a \in Listed(h) : h.link[a].next > Behind(h, a) \/ h.link[a].next = h.pxEnd
    BY <1>5, <1>7, <2>1
  <2>5. QED BY <1>5, <2>1, <2>3, <2>4 DEF InOrder
<1>11. h.free = Cardinality(Bytes(h, Listed(h)))
  <2>1. Bytes(h, Listed(h)) = S .. E - 1
    BY <1>7, <1>8 DEF Bytes
  <2>2. Cardinality(S .. E - 1) = E - S
    <3>1. S \in Int /\ E - 1 \in Int /\ ~(S > E - 1)
      BY <1>1, <1>3
    <3>2. Cardinality(S .. E - 1) = IF S > E - 1 THEN 0 ELSE (E - 1) - S + 1
      BY <3>1, FS_Interval
    <3>3. QED BY <1>1, <3>1, <3>2
  <2>3. QED BY <1>5, <2>1, <2>2
<1>12. QED
  BY <1>3, <1>5, <1>6, <1>7, <1>9, <1>10, <1>11 DEF S, h

-----------------------------------------------------------------------------
(* pvPortMalloc takes a block *)

(* The two results of TakeOut. *)
Whole(h, prev, b) == [h.link EXCEPT ![prev].next = h.link[b].next, ![b].next = Null, ![b].alloc = 1]
Part(h, prev, b, wanted) ==
  [Written(h.link, b + wanted, Header(h.link[b].next, h.link[b].size - wanted, 0)) EXCEPT
     ![prev].next = b + wanted, ![b] = Header(Null, wanted, 1)]

\* What the headers are after a free block is taken whole...
LEMMA TakenWhole ==
  ASSUME NEW h, ucHeap \in Bases, Tiled(h), InOrder(h),
         NEW prev \in Linked(h), NEW b \in Listed(h), h.link[prev].next = b,
         NEW g, g.pxEnd = h.pxEnd,
         g.link = Whole(h, prev, b)
  PROVE  /\ Tiled(g) /\ InOrder(g)
         /\ Within(g) = Within(h) /\ Listed(g) = Listed(h) \ {b}
         /\ g.link[b] = Header(Null, h.link[b].size, 1)
         /\ \A c \in Within(h) \ {b} : /\ g.link[c].size = h.link[c].size
                                       /\ c \notin Linked(h) => g.link[c] = h.link[c]
<1> DEFINE D == DOMAIN h.link
           next == h.link[b].next
<1>1. /\ b \in Within(h) /\ b \in Nat /\ b > xStart /\ prev # b /\ b \in D /\ prev \in D /\ b # h.pxEnd /\ prev # h.pxEnd
      /\ prev \in Int /\ prev < b
      /\ h.pxEnd \in Nat /\ D = Within(h) \cup {xStart, h.pxEnd} /\ h.pxEnd \notin Within(h) /\ xStart \notin Within(h)
      /\ next \in Nat /\ b < next /\ next \in Listed(h) \cup {h.pxEnd}
  BY ShapeFacts DEF Linked, Listed
<1>2. /\ DOMAIN g.link = D
      /\ g.link[prev] = Header(next, h.link[prev].size, 0)
      /\ g.link[b] = Header(Null, h.link[b].size, 1)
      /\ \A c \in D \ {prev, b} : g.link[c] = h.link[c]
  <2>1. /\ h.link[prev] = Header(h.link[prev].next, h.link[prev].size, 0)
        /\ h.link[b] = Header(h.link[b].next, h.link[b].size, 0)
    BY ShapeFacts DEF Listed
  <2>2. DOMAIN g.link = D /\ \A c \in D \ {prev, b} : g.link[c] = h.link[c]
    BY <1>1 DEF Whole
  <2>3. g.link[prev] = [h.link[prev] EXCEPT !.next = next]
    BY <1>1 DEF Whole
  <2>4. g.link[b] = [h.link[b] EXCEPT !.next = Null, !.alloc = 1]
    BY <1>1 DEF Whole
  <2>5. g.link[prev] = Header(next, h.link[prev].size, 0)
    BY <2>1, <2>3 DEF Header
  <2>6. g.link[b] = Header(Null, h.link[b].size, 1)
    BY <2>1, <2>4 DEF Header
  <2>7. QED BY <2>2, <2>5, <2>6
<1>3. Within(g) = Within(h)
  BY <1>2 DEF Within
<1>4. Linked(g) = Linked(h) \ {b} /\ Listed(g) = Listed(h) \ {b}
  <2>1. next # Null /\ h.link[prev].next # Null
    BY <1>1 DEF Null
  <2>2. \A c : c \in Linked(g) <=> c \in Linked(h) /\ c # b
    BY <1>1, <1>2, <2>1 DEF Linked, Header
  <2>3. QED BY <2>2 DEF Listed
<1>5. /\ \A c \in D : g.link[c].size = h.link[c].size
      /\ \A c \in D : Behind(g, c) = Behind(h, c)
      /\ \A c \in D \ {prev, b} : g.link[c] = h.link[c]
  <2>1. g.link[prev].size = h.link[prev].size /\ g.link[b].size = h.link[b].size
    BY <1>2 DEF Header
  <2>2. \A c \in D : g.link[c].size = h.link[c].size
    BY <1>2, <2>1
  <2>3. QED BY <1>2, <2>2 DEF Behind
<1>6. Tiled(g)
  <2>1. /\ IsFiniteSet(DOMAIN g.link) /\ xStart \in DOMAIN g.link /\ g.pxEnd \in DOMAIN g.link
        /\ g.pxEnd = uxEndAddress /\ g.link[g.pxEnd] = Header(Null, 0, 0)
        /\ uxStartAddress \in Within(g)
    <3>1. IsFiniteSet(D) /\ xStart \in D /\ h.pxEnd \in D
          /\ h.pxEnd = uxEndAddress /\ h.link[h.pxEnd] = Header(Null, 0, 0) /\ uxStartAddress \in Within(h)
      BY DEF Tiled
    <3>2. g.link[h.pxEnd] = h.link[h.pxEnd]
      BY <1>1, <1>2
    <3>3. QED BY <1>2, <1>3, <3>1, <3>2
  <2>2. ASSUME NEW c \in Within(g)
        PROVE  /\ g.link[c] \in [next : {Null} \cup Nat, size : Nat, alloc : {0, 1}]
               /\ c \in Nat /\ c % Align = 0 /\ g.link[c].size % Align = 0 /\ g.link[c].size >= xHeapStructSize
               /\ c >= uxStartAddress /\ Behind(g, c) \in Within(g) \cup {g.pxEnd} /\ Behind(g, c) <= g.pxEnd
    <3>1. c \in Within(h) /\ g.link[c].size = h.link[c].size /\ Behind(g, c) = Behind(h, c)
      BY <1>1, <1>3, <1>5
    <3>2. g.link[c] \in [next : {Null} \cup Nat, size : Nat, alloc : {0, 1}]
      <4>1. h.link[c] \in [next : {Null} \cup Nat, size : Nat, alloc : {0, 1}]
        BY <3>1 DEF Tiled
      <4>2. CASE c = prev
        BY <1>1, <1>2, <4>1, <4>2 DEF Header
      <4>3. CASE c = b
        BY <1>1, <1>2, <4>1, <4>3 DEF Header
      <4>4. CASE c \notin {prev, b}
        BY <1>1, <1>2, <3>1, <4>1, <4>4
      <4>5. QED BY <4>2, <4>3, <4>4
    <3>3. QED BY <1>3, <3>1, <3>2 DEF Tiled
  <2>3. \A a, c \in Within(g) : a < c => Behind(g, a) <= c
    BY <1>1, <1>3, <1>5 DEF Tiled
  <2>4. \A c \in Within(g) \cup {g.pxEnd} : c = uxStartAddress \/ \E a \in Within(g) : Behind(g, a) = c
    BY <1>1, <1>3, <1>5 DEF Tiled
  <2>5. QED BY <2>1, <2>2, <2>3, <2>4 DEF Tiled
<1>7. InOrder(g)
  <2>1. g.link[xStart] \in [next : Nat, size : {0}, alloc : {0}]
    <3>1. h.link[xStart] \in [next : Nat, size : {0}, alloc : {0}]
      BY DEF InOrder
    <3>2. CASE prev = xStart
      BY <1>1, <1>2, <3>1, <3>2 DEF Header
    <3>3. CASE prev # xStart
      BY <1>1, <1>2, <3>1, <3>3
    <3>4. QED BY <3>2, <3>3
  <2>2. ASSUME NEW a \in Linked(g)
        PROVE  /\ g.link[a].alloc = 0
               /\ a < g.link[a].next /\ g.link[a].next \in Listed(g) \cup {g.pxEnd}
               /\ \A c \in Listed(g) : a < c => g.link[a].next <= c
    <3>1. CASE a = prev
      <4>1. g.link[a].next = next /\ g.link[a].alloc = 0
        BY <1>2, <3>1 DEF Header
      <4>2. \A c \in Listed(h) : prev < c => b <= c
        BY DEF InOrder
      <4>3. \A c \in Listed(h) : b < c => next <= c
        BY DEF InOrder, Listed
      <4>4. \A c \in Listed(h) : c \in Nat
        BY ShapeFacts
      <4>5. QED BY <1>1, <1>4, <3>1, <4>1, <4>2, <4>3, <4>4
    <3>2. CASE a # prev
      <4>1. a \in Linked(h) /\ a # b /\ a \in D
        BY <1>4 DEF Linked
      <4>2. g.link[a] = h.link[a]
        BY <1>2, <3>2, <4>1
      <4>3. h.link[a].next # b
        BY <3>2, <4>1, NextOnce
      <4>4. QED BY <1>4, <4>1, <4>2, <4>3 DEF InOrder
    <3>3. QED BY <3>1, <3>2
  <2>3. ASSUME NEW a \in Listed(g)
        PROVE  g.link[a].next > Behind(g, a) \/ g.link[a].next = g.pxEnd
    <3>1. a \in Listed(h) /\ a # b /\ a \in D /\ a \in Within(h) /\ a \in Linked(h)
      BY <1>4, ShapeFacts DEF Listed, Linked
    <3>2. Behind(g, a) = Behind(h, a) /\ Behind(h, a) \in Int
      <4>1. a \in Nat /\ h.link[a].size \in Nat
        BY <3>1, ShapeFacts
      <4>2. Behind(g, a) = Behind(h, a)
        BY <1>5, <3>1
      <4>3. Behind(h, a) \in Int
        BY <4>1 DEF Behind
      <4>4. QED BY <4>2, <4>3
    <3>3. h.link[a].next > Behind(h, a) \/ h.link[a].next = h.pxEnd
      BY <3>1 DEF InOrder
    <3>4. CASE a = prev
      <4>1. g.link[a].next = next
        BY <1>2, <3>4 DEF Header
      <4>2. b > Behind(h, a)
        BY <1>1, <3>3, <3>4
      <4>3. QED BY <1>1, <3>2, <4>1, <4>2
    <3>5. CASE a # prev
      BY <1>2, <3>1, <3>2, <3>3, <3>5
    <3>6. QED BY <3>4, <3>5
  <2>4. QED BY <2>1, <2>2, <2>3 DEF InOrder
<1>8. \A c \in Within(h) \ {b} : g.link[c].size = h.link[c].size
                                 /\ (c \notin Linked(h) => g.link[c] = h.link[c])
  BY <1>1, <1>5
<1>9. QED BY <1>2, <1>3, <1>4, <1>6, <1>7, <1>8

\* ...and after one is split: the front of it is taken, and the rest takes its
\* place in the free list.
LEMMA TakenPart ==
  ASSUME NEW h, ucHeap \in Bases, Tiled(h), InOrder(h),
         NEW prev \in Linked(h), NEW b \in Listed(h), h.link[prev].next = b,
         NEW wanted \in Nat, wanted % Align = 0, wanted >= xHeapStructSize,
         h.link[b].size - wanted >= xHeapStructSize,
         NEW g, g.pxEnd = h.pxEnd,
         g.link = Part(h, prev, b, wanted)
  PROVE  /\ Tiled(g) /\ InOrder(g) /\ b + wanted \notin Within(h)
         /\ Within(g) = Within(h) \cup {b + wanted} /\ Listed(g) = (Listed(h) \ {b}) \cup {b + wanted}
         /\ g.link[b] = Header(Null, wanted, 1)
         /\ g.link[b + wanted].size = h.link[b].size - wanted
         /\ \A c \in Within(h) \ {b} : /\ g.link[c].size = h.link[c].size
                                       /\ c \notin Linked(h) => g.link[c] = h.link[c]
<1> DEFINE D == DOMAIN h.link
           next == h.link[b].next
           size == h.link[b].size
           e == b + wanted
           H == xHeapStructSize
<1>1. /\ b \in Within(h) /\ b \in Nat /\ b > xStart /\ prev # b /\ b \in D /\ prev \in D /\ b # h.pxEnd /\ prev # h.pxEnd
      /\ prev \in Int /\ prev < b
      /\ h.pxEnd \in Nat /\ D = Within(h) \cup {xStart, h.pxEnd} /\ h.pxEnd \notin Within(h) /\ xStart \notin Within(h)
      /\ next \in Nat /\ b < next /\ next \in Listed(h) \cup {h.pxEnd}
      /\ H \in Nat /\ H > 0 /\ size \in Nat /\ b + size <= h.pxEnd /\ size - wanted \in Nat
      /\ b % Align = 0 /\ size % Align = 0 /\ b >= uxStartAddress
  <2>1. h.link[b].size \in Nat
    BY ShapeFacts DEF Linked, Listed
  <2>2. H \in Nat /\ H > 0 /\ h.link[b].size - wanted \in Nat
    BY <2>1, Struct
  <2>3. QED BY <2>2, ShapeFacts DEF Linked, Listed
<1>2. e \in Nat /\ e > b /\ b + size \in Nat /\ e < b + size /\ e < h.pxEnd /\ e > xStart
      /\ e + (size - wanted) = b + size
  BY <1>1 DEF xStart
<1>3. e \notin D /\ e \notin Within(h) /\ e # prev /\ e # b
  <2>1. ASSUME e \in Within(h) PROVE FALSE
    <3>1. Behind(h, b) <= e
      BY <1>1, <1>2, <2>1 DEF Tiled
    <3>2. QED BY <1>2, <3>1 DEF Behind
  <2>2. QED BY <1>1, <1>2, <2>1
<1>4. /\ DOMAIN g.link = D \cup {e}
      /\ g.link[prev] = Header(e, h.link[prev].size, 0)
      /\ g.link[b] = Header(Null, wanted, 1)
      /\ g.link[e] = Header(next, size - wanted, 0)
      /\ \A c \in D \ {prev, b} : g.link[c] = h.link[c]
  <2> DEFINE W == Written(h.link, e, Header(next, size - wanted, 0))
  <2>1. /\ DOMAIN W = D \cup {e} /\ W[e] = Header(next, size - wanted, 0)
        /\ \A c \in D : W[c] = h.link[c]
    BY <1>3 DEF Written
  <2>2. g.link = [W EXCEPT ![prev].next = e, ![b] = Header(Null, wanted, 1)]
    BY DEF Part
  <2>3. h.link[prev] = Header(h.link[prev].next, h.link[prev].size, 0)
    BY ShapeFacts
  <2> HIDE DEF W
  <2>4. DOMAIN g.link = D \cup {e} /\ \A c \in D \ {prev, b} : g.link[c] = h.link[c]
    BY <1>1, <1>3, <2>1, <2>2
  <2>5. g.link[b] = Header(Null, wanted, 1) /\ g.link[e] = Header(next, size - wanted, 0)
    BY <1>1, <1>3, <2>1, <2>2
  <2>a. prev \in DOMAIN W /\ prev # b /\ W[prev] = h.link[prev]
    BY <1>1, <2>1
  <2>b. g.link[prev] = [W[prev] EXCEPT !.next = e]
    BY <2>2, <2>a
  <2>6. g.link[prev] = [h.link[prev] EXCEPT !.next = e]
    BY <2>a, <2>b
  <2>7. g.link[prev] = Header(e, h.link[prev].size, 0)
    BY <2>3, <2>6 DEF Header
  <2>8. QED BY <2>4, <2>5, <2>7
<1> HIDE DEF e, next, size, H
<1>5. Within(g) = Within(h) \cup {e}
  BY <1>1, <1>2, <1>4 DEF Within
<1>6. Linked(g) = (Linked(h) \ {b}) \cup {e} /\ Listed(g) = (Listed(h) \ {b}) \cup {e}
  <2>1. next # Null /\ e # Null /\ h.link[prev].next # Null
    BY <1>1, <1>2 DEF Null
  <2>2. g.link[prev].next # Null /\ g.link[e].next # Null /\ g.link[b].next = Null
    BY <1>4, <2>1 DEF Header
  <2>3. \A c : c \in Linked(g) <=> (c \in Linked(h) /\ c # b) \/ c = e
    <3>1. \A c : c \in Linked(g) <=> c \in D \cup {e} /\ g.link[c].next # Null
      BY <1>4 DEF Linked
    <3>2. \A c : c \in Linked(h) <=> c \in D /\ h.link[c].next # Null
      BY DEF Linked
    <3>3. \A c \in D \ {prev, b} : g.link[c].next = h.link[c].next
      BY <1>4
    <3>4. SUFFICES ASSUME NEW c
                   PROVE  c \in Linked(g) <=> (c \in Linked(h) /\ c # b) \/ c = e
      OBVIOUS
    <3>5. CASE c = e
      BY <2>2, <3>1, <3>5
    <3>6. CASE c = b
      BY <1>3, <2>2, <3>1, <3>6
    <3>7. CASE c = prev
      BY <1>1, <2>2, <3>1, <3>7
    <3>8. CASE c # e /\ c # b /\ c # prev
      BY <3>1, <3>2, <3>3, <3>8
    <3>9. QED BY <3>5, <3>6, <3>7, <3>8
  <2>4. e # xStart
    BY <1>2 DEF xStart
  <2>5. QED BY <2>3, <2>4 DEF Listed
<1>7. /\ \A c \in D \ {b} : g.link[c].size = h.link[c].size /\ Behind(g, c) = Behind(h, c)
      /\ Behind(g, b) = e /\ Behind(g, e) = Behind(h, b) /\ Behind(h, b) = b + size
      /\ g.link[e].size = size - wanted
  <2>1. g.link[prev].size = h.link[prev].size /\ g.link[b].size = wanted /\ g.link[e].size = size - wanted
    BY <1>4 DEF Header
  <2>2. \A c \in D \ {b} : g.link[c].size = h.link[c].size
    BY <1>4, <2>1
  <2>3. Behind(g, b) = e
    BY <2>1 DEF Behind, e
  <2>4. Behind(g, e) = Behind(h, b) /\ Behind(h, b) = b + size
    BY <1>2, <2>1 DEF Behind, size
  <2>5. QED BY <2>1, <2>2, <2>3, <2>4 DEF Behind
<1>8. Tiled(g)
  <2>1. /\ IsFiniteSet(DOMAIN g.link) /\ xStart \in DOMAIN g.link /\ g.pxEnd \in DOMAIN g.link
        /\ g.pxEnd = uxEndAddress /\ g.link[g.pxEnd] = Header(Null, 0, 0)
        /\ uxStartAddress \in Within(g)
    <3>1. IsFiniteSet(D) /\ xStart \in D /\ h.pxEnd \in D
          /\ h.pxEnd = uxEndAddress /\ h.link[h.pxEnd] = Header(Null, 0, 0) /\ uxStartAddress \in Within(h)
      BY DEF Tiled
    <3>2. g.link[h.pxEnd] = h.link[h.pxEnd]
      BY <1>1, <1>4
    <3>3. IsFiniteSet(D \cup {e})
      BY <3>1, FS_AddElement
    <3>4. QED BY <1>4, <1>5, <3>1, <3>2, <3>3
  <2>2. ASSUME NEW c \in Within(g)
        PROVE  /\ g.link[c] \in [next : {Null} \cup Nat, size : Nat, alloc : {0, 1}]
               /\ c \in Nat /\ c % Align = 0 /\ g.link[c].size % Align = 0 /\ g.link[c].size >= xHeapStructSize
               /\ c >= uxStartAddress /\ Behind(g, c) \in Within(g) \cup {g.pxEnd} /\ Behind(g, c) <= g.pxEnd
    <3>1. CASE c = e
      <4>1. e % Align = 0 /\ (size - wanted) % Align = 0
        <5>1. b \in Int /\ wanted \in Int /\ size \in Int
          BY <1>1
        <5>2. (b + wanted) % Align = 0 /\ (size - wanted) % Align = 0
          BY <1>1, <5>1, Aligned
        <5>3. QED BY <5>2 DEF e
      <4>2. g.link[c] \in [next : {Null} \cup Nat, size : Nat, alloc : {0, 1}]
        BY <1>1, <1>4, <3>1 DEF Header
      <4>3. Behind(h, b) \in Within(h) \cup {h.pxEnd} /\ Behind(h, b) <= h.pxEnd
        BY <1>1 DEF Tiled
      <4>4. e >= uxStartAddress
        <5>1. uxStartAddress \in Nat
          BY HeapEnds
        <5>2. QED BY <1>1, <1>2, <5>1
      <4>5. QED BY <1>1, <1>2, <1>5, <1>7, <3>1, <4>1, <4>2, <4>3, <4>4 DEF size, H
    <3>2. CASE c = b
      <4>1. g.link[c] \in [next : {Null} \cup Nat, size : Nat, alloc : {0, 1}] /\ g.link[c].size = wanted
        BY <1>4, <3>2 DEF Header
      <4>2. wanted % Align = 0 /\ wanted >= xHeapStructSize
        OBVIOUS
      <4>3. Behind(g, c) = e /\ e \in Within(g) /\ e <= g.pxEnd
        BY <1>1, <1>2, <1>5, <1>7, <3>2
      <4>4. c \in Nat /\ c % Align = 0 /\ c >= uxStartAddress
        BY <1>1, <3>2
      <4>5. QED BY <4>1, <4>2, <4>3, <4>4
    <3>3. CASE c # e /\ c # b
      <4>1. c \in Within(h) /\ c \in D \ {b}
        BY <1>1, <1>5, <3>3
      <4>2. g.link[c].size = h.link[c].size /\ Behind(g, c) = Behind(h, c)
        BY <1>7, <4>1
      <4>3. h.link[c] \in [next : {Null} \cup Nat, size : Nat, alloc : {0, 1}]
        BY <4>1 DEF Tiled
      <4>4. g.link[c] \in [next : {Null} \cup Nat, size : Nat, alloc : {0, 1}]
        <5>1. CASE c = prev
          BY <1>2, <1>4, <4>3, <5>1 DEF Header
        <5>2. CASE c # prev
          BY <1>4, <3>3, <4>1, <4>3, <5>2
        <5>3. QED BY <5>1, <5>2
      <4>5. QED BY <1>5, <4>1, <4>2, <4>4 DEF Tiled
    <3>4. QED BY <3>1, <3>2, <3>3
  <2>3. ASSUME NEW a \in Within(g), NEW c \in Within(g), a < c
        PROVE  Behind(g, a) <= c
    <3>1. \A x, y \in Within(h) : x < y => Behind(h, x) <= y
      BY DEF Tiled
    <3>2. CASE a \in Within(h) \ {b} /\ c \in Within(h)
      BY <1>1, <1>7, <2>3, <3>1, <3>2
    <3>3. CASE a \in Within(h) \ {b} /\ c = e
      <4>1. a \in Nat
        BY <3>3, ShapeFacts
      <4>2. a < b
        <5>1. ~(b < a)
          <6>1. ASSUME b < a PROVE FALSE
            <7>1. Behind(h, b) <= a
              BY <1>1, <3>1, <3>3, <6>1
            <7>2. QED BY <1>2, <1>7, <2>3, <3>3, <4>1, <7>1
          <6>2. QED BY <6>1
        <5>2. QED BY <1>1, <3>3, <4>1, <5>1
      <4>3. Behind(h, a) <= b /\ Behind(h, a) \in Int
        <5>1. h.link[a].size \in Nat
          BY <3>3, ShapeFacts
        <5>2. Behind(h, a) \in Int
          BY <4>1, <5>1 DEF Behind
        <5>3. QED BY <1>1, <3>1, <3>3, <4>2, <5>2
      <4>4. Behind(g, a) = Behind(h, a)
        BY <1>1, <1>7, <3>3
      <4>5. QED BY <1>1, <1>2, <3>3, <4>3, <4>4
    <3>4. CASE a = b /\ c \in Within(h)
      <4>1. Behind(h, b) <= c /\ c \in Nat
        BY <1>1, <2>3, <3>1, <3>4, ShapeFacts
      <4>2. QED BY <1>1, <1>2, <1>7, <3>4, <4>1
    <3>5. CASE a = e /\ c \in Within(h)
      <4>1. c \in Nat
        BY <3>5, ShapeFacts
      <4>2. b < c
        BY <1>1, <1>2, <2>3, <3>5, <4>1
      <4>3. Behind(h, b) <= c
        BY <1>1, <3>1, <3>5, <4>2
      <4>4. QED BY <1>7, <3>5, <4>3
    <3>6. CASE c = e /\ a \in {b, e}
      BY <1>2, <1>7, <2>3, <3>6
    <3>7. QED BY <1>5, <3>2, <3>3, <3>4, <3>5, <3>6
  <2>4. ASSUME NEW c \in Within(g) \cup {g.pxEnd}
        PROVE  c = uxStartAddress \/ \E a \in Within(g) : Behind(g, a) = c
    <3>1. CASE c = e
      BY <1>1, <1>5, <1>7, <3>1
    <3>2. CASE c # e
      <4>1. c = uxStartAddress \/ \E a \in Within(h) : Behind(h, a) = c
        BY <1>5, <3>2 DEF Tiled
      <4>2. ASSUME NEW a \in Within(h), Behind(h, a) = c
            PROVE  \E x \in Within(g) : Behind(g, x) = c
        <5>1. CASE a = b
          BY <1>5, <1>7, <4>2, <5>1
        <5>2. CASE a # b
          BY <1>1, <1>5, <1>7, <4>2, <5>2
        <5>3. QED BY <5>1, <5>2
      <4>3. QED BY <4>1, <4>2
    <3>3. QED BY <3>1, <3>2
  <2>5. QED BY <2>1, <2>2, <2>3, <2>4 DEF Tiled
<1>9. InOrder(g)
  <2>1. g.link[xStart] \in [next : Nat, size : {0}, alloc : {0}]
    <3>1. h.link[xStart] \in [next : Nat, size : {0}, alloc : {0}]
      BY DEF InOrder
    <3>2. CASE prev = xStart
      BY <1>2, <1>4, <3>1, <3>2 DEF Header
    <3>3. CASE prev # xStart
      BY <1>1, <1>4, <3>1, <3>3
    <3>4. QED BY <3>2, <3>3
  <2>0. /\ \A c \in Listed(h) : c \in Nat /\ c \in Within(h)
        /\ \A c \in Listed(h) : prev < c => b <= c
        /\ \A c \in Listed(h) : b < c => next <= c /\ b + size <= c
        /\ next >= b + size
    <3>1. \A c \in Listed(h) : c \in Nat /\ c \in Within(h)
      BY ShapeFacts
    <3>2. \A c \in Listed(h) : prev < c => b <= c
      BY DEF InOrder
    <3>3. \A c \in Listed(h) : b < c => next <= c
      BY DEF InOrder, Listed, next
    <3>4. \A c \in Within(h) : b < c => b + size <= c
      BY <1>1, <1>7 DEF Tiled
    <3>5. next > Behind(h, b) \/ next = h.pxEnd
      BY DEF InOrder, next
    <3>6. QED BY <1>1, <1>2, <1>7, <3>1, <3>2, <3>3, <3>4, <3>5
  <2>2. ASSUME NEW a \in Linked(g)
        PROVE  /\ g.link[a].alloc = 0
               /\ a < g.link[a].next /\ g.link[a].next \in Listed(g) \cup {g.pxEnd}
               /\ \A c \in Listed(g) : a < c => g.link[a].next <= c
    <3>1. CASE a = prev
      <4>1. g.link[a].next = e /\ g.link[a].alloc = 0
        BY <1>4, <3>1 DEF Header
      <4>2. \A c \in Listed(h) \ {b} : prev < c => e <= c
        BY <1>1, <1>2, <2>0
      <4>3. QED BY <1>1, <1>2, <1>6, <3>1, <4>1, <4>2
    <3>2. CASE a = e
      <4>1. g.link[a].next = next /\ g.link[a].alloc = 0
        BY <1>4, <3>2 DEF Header
      <4>2. next \in (Listed(h) \ {b}) \cup {h.pxEnd} /\ e < next
        BY <1>1, <1>2, <2>0
      <4>3. \A c \in Listed(h) : e < c => next <= c
        BY <1>1, <1>2, <2>0
      <4>4. QED BY <1>1, <1>2, <1>6, <3>2, <4>1, <4>2, <4>3
    <3>3. CASE a # prev /\ a # e
      <4>1. a \in Linked(h) /\ a # b /\ a \in D
        BY <1>6, <3>3 DEF Linked
      <4>2. g.link[a] = h.link[a]
        BY <1>4, <3>3, <4>1
      <4>3. h.link[a].next # b
        BY <3>3, <4>1, NextOnce
      <4>4. a < e => h.link[a].next <= e
        <5>1. a \in Int /\ h.link[a].next \in Int
          BY <4>1, ShapeFacts
        <5>2. a < b => h.link[a].next <= b
          BY <4>1 DEF InOrder
        <5>3. b < a => b + size <= a
          <6>1. b < a => a \in Listed(h)
            BY <1>1, <4>1 DEF Listed, xStart
          <6>2. QED BY <2>0, <6>1
        <5>4. QED BY <1>1, <1>2, <4>1, <5>1, <5>2, <5>3
      <4>5. /\ h.link[a].alloc = 0
            /\ a < h.link[a].next /\ h.link[a].next \in Listed(h) \cup {h.pxEnd}
            /\ \A c \in Listed(h) : a < c => h.link[a].next <= c
        BY <4>1 DEF InOrder
      <4>6. QED BY <1>6, <4>2, <4>3, <4>4, <4>5
    <3>4. QED BY <3>1, <3>2, <3>3
  <2>3. ASSUME NEW a \in Listed(g)
        PROVE  g.link[a].next > Behind(g, a) \/ g.link[a].next = g.pxEnd
    <3>1. CASE a = e
      <4>1. g.link[a].next = next
        BY <1>4, <3>1 DEF Header
      <4>2. next > Behind(h, b) \/ next = h.pxEnd
        BY DEF InOrder, next
      <4>3. QED BY <1>7, <3>1, <4>1, <4>2
    <3>2. CASE a # e
      <4>1. a \in Listed(h) /\ a # b /\ a \in D /\ a \in Nat /\ h.link[a].size \in Nat
        BY <1>6, <3>2, ShapeFacts DEF Listed, Linked
      <4>2. Behind(g, a) = Behind(h, a)
        BY <1>7, <4>1
      <4>3. Behind(h, a) \in Int
        BY <4>1 DEF Behind
      <4>4. h.link[a].next > Behind(h, a) \/ h.link[a].next = h.pxEnd
        BY <4>1 DEF InOrder
      <4>5. CASE a = prev
        <5>1. g.link[a].next = e
          BY <1>4, <4>5 DEF Header
        <5>2. b > Behind(h, a)
          BY <1>1, <4>4, <4>5
        <5>3. QED BY <1>1, <1>2, <4>2, <4>3, <5>1, <5>2
      <4>6. CASE a # prev
        BY <1>4, <4>1, <4>2, <4>4, <4>6
      <4>7. QED BY <4>5, <4>6
    <3>3. QED BY <3>1, <3>2
  <2>4. QED BY <2>1, <2>2, <2>3 DEF InOrder
<1>10. \A c \in Within(h) \ {b} : g.link[c].size = h.link[c].size
                                  /\ (c \notin Linked(h) => g.link[c] = h.link[c])
  BY <1>1, <1>4, <1>7
<1>11. QED BY <1>3, <1>4, <1>5, <1>6, <1>7, <1>8, <1>9, <1>10 DEF e, size

\* The bytes of blocks are finitely many, and those of one block as many as its
\* header says.
LEMMA BytesFinite ==
  ASSUME NEW h, ucHeap \in Bases, Tiled(h), InOrder(h), NEW B \in SUBSET Within(h)
  PROVE  /\ IsFiniteSet(Bytes(h, B)) /\ Cardinality(Bytes(h, B)) \in Nat
         /\ \A b \in B : b .. Behind(h, b) - 1 \subseteq Bytes(h, B)
                         /\ Cardinality(b .. Behind(h, b) - 1) = h.link[b].size
                         /\ h.link[b].size <= Cardinality(Bytes(h, B))
<1> DEFINE A == Bytes(h, B)
<1>1. A \subseteq 0 .. h.pxEnd
  <2>1. h.pxEnd \in Nat /\ \A b \in B : b \in Nat /\ Behind(h, b) \in Nat /\ Behind(h, b) <= h.pxEnd
    BY ShapeFacts DEF Behind
  <2>2. A \subseteq Int /\ \A y \in Int : y \in A <=> \E b \in B : b <= y /\ y < Behind(h, b)
    BY BytesAre
  <2> HIDE DEF A
  <2>3. QED BY <2>1, <2>2
<1>2. IsFiniteSet(A) /\ Cardinality(A) \in Nat
  <2>1. 0 \in Int /\ h.pxEnd \in Int
    BY ShapeFacts
  <2>2. IsFiniteSet(0 .. h.pxEnd)
    BY <2>1, FS_Interval
  <2>3. IsFiniteSet(A)
    BY <1>1, <2>2, FS_Subset
  <2>4. QED BY <2>3, FS_CardinalityType
<1>3. ASSUME NEW b \in B
      PROVE  b .. Behind(h, b) - 1 \subseteq A
             /\ Cardinality(b .. Behind(h, b) - 1) = h.link[b].size
             /\ h.link[b].size <= Cardinality(A)
  <2>1. b .. Behind(h, b) - 1 \subseteq A
    BY DEF Bytes
  <2>2. b \in Int /\ Behind(h, b) - 1 \in Int /\ ~(b > Behind(h, b) - 1)
        /\ Behind(h, b) - 1 - b + 1 = h.link[b].size
    <3>1. b \in Nat /\ h.link[b].size \in Nat /\ h.link[b].size > 0
      BY ShapeFacts
    <3>2. QED BY <3>1 DEF Behind
  <2>3. Cardinality(b .. Behind(h, b) - 1)
          = IF b > Behind(h, b) - 1 THEN 0 ELSE Behind(h, b) - 1 - b + 1
    BY <2>2, FS_Interval
  <2>4. Cardinality(b .. Behind(h, b) - 1) = h.link[b].size
    BY <2>2, <2>3
  <2>5. Cardinality(b .. Behind(h, b) - 1) <= Cardinality(A)
    BY <1>2, <2>1, FS_Subset
  <2>6. QED BY <2>1, <2>4, <2>5
<1>4. QED BY <1>2, <1>3

\* A taken block leaves the free list with its bytes, and nothing else changes
\* hands.
LEMMA Taken ==
  ASSUME NEW h, ucHeap \in Bases, Tiled(h), InOrder(h),
         NEW prev \in Linked(h), NEW b \in Listed(h), h.link[prev].next = b,
         NEW wanted \in Nat, wanted % Align = 0, wanted >= xHeapStructSize, h.link[b].size >= wanted,
         NEW g, g.pxEnd = h.pxEnd, g.link = TakeOut(h, prev, wanted)
  PROVE  /\ Tiled(g) /\ InOrder(g) /\ Within(h) \subseteq Within(g)
         /\ Within(g) \ Listed(g) = (Within(h) \ Listed(h)) \cup {b}
         /\ g.link[b] = Header(Null, g.link[b].size, 1) /\ g.link[b].size \in Nat /\ g.link[b].size >= wanted
         /\ \A c \in Within(h) \ Listed(h) : g.link[c] = h.link[c]
         /\ b .. Behind(g, b) - 1 \subseteq Bytes(h, Listed(h))
         /\ Bytes(g, Listed(g)) = Bytes(h, Listed(h)) \ (b .. Behind(g, b) - 1)
<1> DEFINE size == h.link[b].size
<1>1. /\ b \in Within(h) /\ b \in Nat /\ size \in Nat /\ xHeapStructSize \in Nat /\ xHeapStructSize > 0
      /\ Listed(h) \subseteq Within(h) /\ xStart \notin Within(h) /\ b \in Linked(h)
  BY ShapeFacts, Struct DEF Listed
<1>2. /\ Bytes(h, Listed(h)) \subseteq Int
      /\ \A y \in Int : y \in Bytes(h, Listed(h)) <=> \E x \in Listed(h) : x <= y /\ y < Behind(h, x)
  BY <1>1, BytesAre
<1>3. \A x \in Listed(h) \ {b} : (x < b => Behind(h, x) <= b) /\ (b < x => Behind(h, b) <= x)
                                 /\ x \in Nat /\ Behind(h, x) \in Nat
  <2> SUFFICES ASSUME NEW x \in Listed(h) \ {b}
               PROVE  (x < b => Behind(h, x) <= b) /\ (b < x => Behind(h, b) <= x)
                      /\ x \in Nat /\ Behind(h, x) \in Nat
    OBVIOUS
  <2>1. x \in Within(h) /\ x \in Nat /\ h.link[x].size \in Nat
    BY ShapeFacts
  <2>2. Behind(h, x) \in Nat
    BY <2>1 DEF Behind
  <2>3. QED BY <1>1, <2>1, <2>2 DEF Tiled
<1>4. Behind(h, b) = b + size
  BY DEF Behind
<1>5. \A c \in Within(h) \ Listed(h) : c \in Within(h) \ {b} /\ c \notin Linked(h)
  BY <1>1 DEF Listed
<1>6. CASE size - wanted > 2 * xHeapStructSize
  <2>1. g.link = Part(h, prev, b, wanted)
    BY <1>6 DEF TakeOut, Part
  <2>2. h.link[b].size - wanted >= xHeapStructSize
    BY <1>1, <1>6
  <2>3. /\ Tiled(g) /\ InOrder(g) /\ b + wanted \notin Within(h)
        /\ Within(g) = Within(h) \cup {b + wanted} /\ Listed(g) = (Listed(h) \ {b}) \cup {b + wanted}
        /\ g.link[b] = Header(Null, wanted, 1)
        /\ g.link[b + wanted].size = h.link[b].size - wanted
        /\ \A c \in Within(h) \ {b} : /\ g.link[c].size = h.link[c].size
                                      /\ c \notin Linked(h) => g.link[c] = h.link[c]
    BY <2>1, <2>2, TakenPart
  <2>4. g.link[b].size = wanted /\ Behind(g, b) = b + wanted
    BY <2>3 DEF Header, Behind
  <2>5. Within(g) \ Listed(g) = (Within(h) \ Listed(h)) \cup {b}
    BY <1>1, <2>3
  <2>6. b .. Behind(g, b) - 1 \subseteq Bytes(h, Listed(h))
    BY <1>1, <1>2, <1>4, <2>4
  <2>7. /\ Bytes(g, Listed(g)) \subseteq Int
        /\ \A y \in Int : y \in Bytes(g, Listed(g)) <=> \E x \in Listed(g) : x <= y /\ y < Behind(g, x)
    <3>1. Listed(g) \in SUBSET Within(g)
      BY <1>1, <2>3
    <3>2. QED BY <2>3, <3>1, BytesAre
  <2>8. /\ Behind(g, b + wanted) = b + size
        /\ \A x \in Listed(h) \ {b} : Behind(g, x) = Behind(h, x)
    BY <1>1, <2>3 DEF Behind
  <2>9. \A y \in Int : y \in Bytes(g, Listed(g)) <=>
          y \in Bytes(h, Listed(h)) /\ y \notin b .. Behind(g, b) - 1
    <3> SUFFICES ASSUME NEW y \in Int
                 PROVE  y \in Bytes(g, Listed(g)) <=>
                          y \in Bytes(h, Listed(h)) /\ y \notin b .. Behind(g, b) - 1
      OBVIOUS
    <3>1. y \in Bytes(g, Listed(g)) =>
            y \in Bytes(h, Listed(h)) /\ y \notin b .. Behind(g, b) - 1
      <4> SUFFICES ASSUME NEW x \in Listed(g), x <= y, y < Behind(g, x)
                   PROVE  y \in Bytes(h, Listed(h)) /\ y \notin b .. Behind(g, b) - 1
        BY <2>7
      <4>1. CASE x = b + wanted
        <5>1. b <= y /\ y < Behind(h, b) /\ ~(y < b + wanted)
          BY <1>1, <1>4, <2>8, <4>1
        <5>2. QED BY <1>1, <1>2, <2>4, <5>1
      <4>2. CASE x # b + wanted
        <5>1. x \in Listed(h) \ {b} /\ y < Behind(h, x)
          BY <2>3, <2>8, <4>2
        <5>2. y \in Bytes(h, Listed(h))
          BY <1>2, <5>1
        <5>3. ~(b <= y /\ y < b + wanted)
          BY <1>1, <1>3, <1>4, <5>1
        <5>4. QED BY <1>1, <2>4, <5>2, <5>3
      <4>3. QED BY <4>1, <4>2
    <3>2. y \in Bytes(h, Listed(h)) /\ y \notin b .. Behind(g, b) - 1 =>
            y \in Bytes(g, Listed(g))
      <4> SUFFICES ASSUME NEW x \in Listed(h), x <= y, y < Behind(h, x), y \notin b .. Behind(g, b) - 1
                   PROVE  y \in Bytes(g, Listed(g))
        BY <1>2
      <4>1. CASE x = b
        <5>1. b + wanted <= y /\ y < b + size
          BY <1>1, <1>4, <2>4, <4>1
        <5>2. QED BY <2>3, <2>7, <2>8, <5>1
      <4>2. CASE x # b
        BY <2>3, <2>7, <2>8, <4>2
      <4>3. QED BY <4>1, <4>2
    <3>3. QED BY <3>1, <3>2
  <2>10. Bytes(g, Listed(g)) = Bytes(h, Listed(h)) \ (b .. Behind(g, b) - 1)
    BY <1>2, <2>7, <2>9
  <2>11. /\ g.link[b] = Header(Null, g.link[b].size, 1) /\ g.link[b].size \in Nat /\ g.link[b].size >= wanted
         /\ Within(h) \subseteq Within(g) /\ \A c \in Within(h) \ Listed(h) : g.link[c] = h.link[c]
    BY <1>5, <2>3, <2>4
  <2>12. QED BY <2>3, <2>5, <2>6, <2>10, <2>11
<1>7. CASE ~(size - wanted > 2 * xHeapStructSize)
  <2>1. g.link = Whole(h, prev, b)
    BY <1>7 DEF TakeOut, Whole
  <2>3. /\ Tiled(g) /\ InOrder(g)
        /\ Within(g) = Within(h) /\ Listed(g) = Listed(h) \ {b}
        /\ g.link[b] = Header(Null, h.link[b].size, 1)
        /\ \A c \in Within(h) \ {b} : /\ g.link[c].size = h.link[c].size
                                      /\ c \notin Linked(h) => g.link[c] = h.link[c]
    BY <2>1, TakenWhole
  <2>4. g.link[b].size = size /\ Behind(g, b) = b + size
    BY <2>3 DEF Header, Behind
  <2>5. Within(g) \ Listed(g) = (Within(h) \ Listed(h)) \cup {b}
    BY <1>1, <2>3
  <2>6. b .. Behind(g, b) - 1 \subseteq Bytes(h, Listed(h))
    BY <1>1, <1>2, <1>4, <2>4
  <2>7. /\ Bytes(g, Listed(g)) \subseteq Int
        /\ \A y \in Int : y \in Bytes(g, Listed(g)) <=> \E x \in Listed(g) : x <= y /\ y < Behind(g, x)
    <3>1. Listed(g) \in SUBSET Within(g)
      BY <1>1, <2>3
    <3>2. QED BY <2>3, <3>1, BytesAre
  <2>8. \A x \in Listed(h) \ {b} : Behind(g, x) = Behind(h, x)
    BY <1>1, <2>3 DEF Behind
  <2>9. \A y \in Int : y \in Bytes(g, Listed(g)) <=>
          y \in Bytes(h, Listed(h)) /\ y \notin b .. Behind(g, b) - 1
    <3> SUFFICES ASSUME NEW y \in Int
                 PROVE  y \in Bytes(g, Listed(g)) <=>
                          y \in Bytes(h, Listed(h)) /\ y \notin b .. Behind(g, b) - 1
      OBVIOUS
    <3>1. y \in Bytes(g, Listed(g)) =>
            y \in Bytes(h, Listed(h)) /\ y \notin b .. Behind(g, b) - 1
      <4> SUFFICES ASSUME NEW x \in Listed(g), x <= y, y < Behind(g, x)
                   PROVE  y \in Bytes(h, Listed(h)) /\ y \notin b .. Behind(g, b) - 1
        BY <2>7
      <4>1. x \in Listed(h) \ {b} /\ y < Behind(h, x)
        BY <2>3, <2>8
      <4>2. y \in Bytes(h, Listed(h))
        BY <1>2, <4>1
      <4>3. ~(b <= y /\ y < b + size)
        BY <1>1, <1>3, <1>4, <4>1
      <4>4. QED BY <1>1, <2>4, <4>2, <4>3
    <3>2. y \in Bytes(h, Listed(h)) /\ y \notin b .. Behind(g, b) - 1 =>
            y \in Bytes(g, Listed(g))
      <4> SUFFICES ASSUME NEW x \in Listed(h), x <= y, y < Behind(h, x), y \notin b .. Behind(g, b) - 1
                   PROVE  y \in Bytes(g, Listed(g))
        BY <1>2
      <4>1. x # b
        BY <1>1, <1>4, <2>4
      <4>2. QED BY <2>3, <2>7, <2>8, <4>1
    <3>3. QED BY <3>1, <3>2
  <2>10. Bytes(g, Listed(g)) = Bytes(h, Listed(h)) \ (b .. Behind(g, b) - 1)
    BY <1>2, <2>7, <2>9
  <2>11. /\ g.link[b] = Header(Null, g.link[b].size, 1) /\ g.link[b].size \in Nat /\ g.link[b].size >= wanted
         /\ Within(h) \subseteq Within(g) /\ \A c \in Within(h) \ Listed(h) : g.link[c] = h.link[c]
    BY <1>1, <1>5, <2>3, <2>4
  <2>12. QED BY <2>3, <2>5, <2>6, <2>10, <2>11
<1>8. QED BY <1>6, <1>7

-----------------------------------------------------------------------------
(* vPortFree puts a block back *)

\* No two blocks end at the same address.
LEMMA BehindOnce ==
  ASSUME NEW h, ucHeap \in Bases, Tiled(h), InOrder(h), NEW a \in Within(h), NEW c \in Within(h),
         Behind(h, a) = Behind(h, c)
  PROVE  a = c
<1>1. a \in Nat /\ h.link[a].size \in Nat /\ h.link[a].size > 0
      /\ c \in Nat /\ h.link[c].size \in Nat /\ h.link[c].size > 0
  BY ShapeFacts
<1>2. (a < c => Behind(h, a) <= c) /\ (c < a => Behind(h, c) <= a)
  BY DEF Tiled
<1>3. QED BY <1>1, <1>2 DEF Behind

(* What prvInsertBlockIntoFreeList does to the headers: the blocks of gone are *)
(* merged into the free block at, which ends at fin, is followed by next in    *)
(* the list, and follows it there if it is b itself.                           *)
Merges(h, g, b, it, at, gone, next, fin) ==
  /\ at \in Within(h) /\ at \notin gone /\ at <= b /\ it < b /\ it \in Linked(h)
  /\ gone \subseteq Listed(h) \cup {b} /\ (at = b \/ (at = it /\ b \in gone))
  /\ DOMAIN g.link = DOMAIN h.link \ gone
  /\ g.link[at] = Header(next, fin - at, 0) /\ fin - at \in Nat
  /\ \A c \in DOMAIN h.link \ (gone \cup {at, it}) : g.link[c] = h.link[c]
  /\ at # it => g.link[it] = Header(b, h.link[it].size, 0) /\ (it = xStart \/ Behind(h, it) < b)
  /\ fin \in Within(h) \cup {h.pxEnd} /\ fin \notin gone /\ fin >= Behind(h, b) /\ fin <= h.pxEnd
  /\ (fin - at) % Align = 0 /\ fin - at >= xHeapStructSize
  /\ \A a \in Within(h) \ (gone \cup {at}) : Behind(h, a) \notin gone
  /\ \A c \in Within(h) \ gone : at < c => fin <= c
  /\ \A a \in gone \cup {at} : Behind(h, a) \in gone \cup {fin}
  /\ \A y \in Int : at <= y /\ y < fin <=> \E a \in gone \cup {at} : a <= y /\ y < Behind(h, a)
  /\ next \in (Listed(h) \ gone) \cup {h.pxEnd} /\ next > b /\ (next > fin \/ next = h.pxEnd)
  /\ \A c \in Listed(h) \ gone : at < c => next <= c
  /\ \A c \in Listed(h) : it < c => b < c
  /\ \A a \in Linked(h) \ {it} : h.link[a].next \notin gone

\* The two places where the block can touch a free one make four cases.
LEMMA InsertMerges ==
  ASSUME NEW h, ucHeap \in Bases, Tiled(h), InOrder(h),
         NEW b \in Within(h) \ Listed(h), h.link[b] = Header(Null, h.link[b].size, 0),
         NEW g, g.link = prvInsertBlockIntoFreeList(h, b)
  PROVE  \E it, at, gone, next, fin : Merges(h, g, b, it, at, gone, next, fin)
<1> DEFINE it == pxIterator(h, b)
           nx == h.link[it].next
           front == it + h.link[it].size = b
           behind == b + h.link[b].size = nx /\ nx # h.pxEnd
           at == IF front THEN it ELSE b
           size == h.link[b].size + (IF front THEN h.link[it].size ELSE 0)
                                  + (IF behind THEN h.link[nx].size ELSE 0)
           gone == (IF front THEN {b} ELSE {}) \cup (IF behind THEN {nx} ELSE {})
           next == IF behind THEN h.link[nx].next ELSE nx
           fin == IF behind THEN Behind(h, nx) ELSE Behind(h, b)
           D == DOMAIN h.link
           merged == [Restrict(h.link, D \ gone) EXCEPT ![at] = Header(next, size, 0)]
<1>1. g.link = IF front THEN merged ELSE [merged EXCEPT ![it].next = b]
  BY DEF prvInsertBlockIntoFreeList
<1>2. /\ b \in Within(h) /\ b \in Nat /\ b > xStart /\ b < h.pxEnd /\ b \notin Linked(h) /\ b \notin Listed(h)
      /\ h.link[b].size \in Nat /\ h.link[b].size > 0 /\ b % Align = 0 /\ h.link[b].size % Align = 0
      /\ h.link[b].size >= xHeapStructSize /\ xHeapStructSize \in Nat /\ xHeapStructSize > 0
      /\ h.pxEnd \in Nat /\ h.pxEnd \notin Within(h) /\ xStart \notin Within(h) /\ D = Within(h) \cup {xStart, h.pxEnd}
  BY ShapeFacts, Struct DEF Listed, xStart
<1>3. it \in Linked(h) /\ it < b /\ b < nx
  BY <1>2, Between
<1>4. /\ it \in Int /\ nx \in Nat /\ nx \in Listed(h) \cup {h.pxEnd} /\ it \in D /\ h.link[it].size \in Nat
      /\ h.link[it] = Header(nx, h.link[it].size, 0)
  <2>1. h.link[it].size \in Nat
    <3>1. CASE it = xStart
      <4>1. h.link[xStart] = Header(h.link[xStart].next, 0, 0)
        BY ShapeFacts
      <4>2. h.link[xStart].size = 0
        BY <4>1 DEF Header
      <4>3. QED BY <3>1, <4>2
    <3>2. CASE it # xStart
      BY <1>3, <3>2, ShapeFacts DEF Listed
    <3>3. QED BY <3>1, <3>2
  <2>2. QED BY <1>3, <2>1, ShapeFacts DEF Linked
<1>5. front => it \in Within(h) /\ it \in Listed(h) /\ it \in Nat /\ Behind(h, it) = b /\ it # xStart
               /\ it % Align = 0 /\ h.link[it].size % Align = 0 /\ h.link[it].size > 0
  <2> SUFFICES ASSUME front
               PROVE  it \in Within(h) /\ it \in Listed(h) /\ it \in Nat /\ Behind(h, it) = b /\ it # xStart
                      /\ it % Align = 0 /\ h.link[it].size % Align = 0 /\ h.link[it].size > 0
    OBVIOUS
  <2>1. it # xStart
    <3>1. h.link[xStart].size = 0
      <4>1. h.link[xStart] = Header(h.link[xStart].next, 0, 0)
        BY ShapeFacts
      <4>2. QED BY <4>1 DEF Header
    <3>2. QED BY <1>2, <1>4, <3>1 DEF xStart
  <2>2. it \in Listed(h)
    BY <1>3, <2>1 DEF Listed
  <2>3. Behind(h, it) = b
    BY DEF Behind
  <2>4. QED BY <2>1, <2>2, <2>3, ShapeFacts
<1>6. behind => nx \in Within(h) /\ nx \in Listed(h) /\ Behind(h, b) = nx
                /\ nx % Align = 0 /\ h.link[nx].size % Align = 0 /\ h.link[nx].size > 0 /\ h.link[nx].size \in Nat
                /\ h.link[nx].next \in Nat /\ nx < h.link[nx].next /\ h.link[nx].next \in Listed(h) \cup {h.pxEnd}
  <2> SUFFICES ASSUME behind
               PROVE  nx \in Within(h) /\ nx \in Listed(h) /\ Behind(h, b) = nx
                      /\ nx % Align = 0 /\ h.link[nx].size % Align = 0 /\ h.link[nx].size > 0 /\ h.link[nx].size \in Nat
                      /\ h.link[nx].next \in Nat /\ nx < h.link[nx].next /\ h.link[nx].next \in Listed(h) \cup {h.pxEnd}
    OBVIOUS
  <2>1. nx \in Listed(h) /\ nx \in Linked(h)
    BY <1>4 DEF Listed
  <2>2. Behind(h, b) = nx
    BY DEF Behind
  <2>3. QED BY <2>1, <2>2, ShapeFacts
<1>7. /\ Behind(h, b) = b + h.link[b].size /\ Behind(h, b) \in Within(h) \cup {h.pxEnd} /\ Behind(h, b) <= h.pxEnd
      /\ behind => Behind(h, nx) = nx + h.link[nx].size /\ Behind(h, nx) \in Within(h) \cup {h.pxEnd}
                   /\ Behind(h, nx) <= h.pxEnd
      /\ Behind(h, it) = it + h.link[it].size
  <2>1. \A a \in Within(h) : Behind(h, a) \in Within(h) \cup {h.pxEnd} /\ Behind(h, a) <= h.pxEnd
    BY DEF Tiled
  <2>2. \A a : Behind(h, a) = a + h.link[a].size
    BY DEF Behind
  <2> HIDE DEF it, nx, behind
  <2>3. QED BY <1>2, <1>6, <2>1, <2>2
<1> HIDE DEF it, nx
<1>8. /\ at \in Within(h) /\ at \notin gone /\ at <= b /\ at \in Nat
      /\ gone \subseteq Listed(h) \cup {b} /\ (at = b \/ (at = it /\ b \in gone))
      /\ at \in D \ gone
  BY <1>2, <1>3, <1>4, <1>5, <1>6
<1>9. size = fin - at /\ fin - at \in Nat
  BY <1>2, <1>4, <1>5, <1>6, <1>7
<1>10. /\ DOMAIN g.link = D \ gone
       /\ g.link[at] = Header(next, fin - at, 0)
       /\ \A c \in D \ (gone \cup {at, it}) : g.link[c] = h.link[c]
       /\ at # it => g.link[it] = Header(b, h.link[it].size, 0)
  <2>1. /\ DOMAIN merged = D \ gone /\ merged[at] = Header(next, fin - at, 0)
        /\ \A c \in D \ (gone \cup {at}) : merged[c] = h.link[c]
    BY <1>8, <1>9 DEF Restrict
  <2>2. it \notin gone \/ it = at
    BY <1>3, <1>4, <1>8
  <2>3. front => at = it
    OBVIOUS
  <2>4. ~front => at = b /\ it # b
    BY <1>2, <1>3
  <2> HIDE DEF merged, at, gone, front, next, fin
  <2>5. CASE front
    BY <1>1, <2>1, <2>3, <2>5
  <2>6. CASE ~front
    <3>1. g.link = [merged EXCEPT ![it].next = b] /\ it \in D \ (gone \cup {at}) /\ at # it
      BY <1>1, <1>4, <2>2, <2>4, <2>6
    <3>2. DOMAIN g.link = D \ gone /\ g.link[at] = Header(next, fin - at, 0)
          /\ \A c \in D \ (gone \cup {at, it}) : g.link[c] = h.link[c]
      BY <2>1, <3>1, <1>8
    <3>3. g.link[it] = [merged[it] EXCEPT !.next = b] /\ merged[it] = h.link[it]
      BY <2>1, <3>1
    <3>4. g.link[it] = Header(b, h.link[it].size, 0)
      BY <1>4, <3>3 DEF Header
    <3>5. QED BY <3>2, <3>4
  <2>7. QED BY <2>5, <2>6
<1>11. at # it => it = xStart \/ Behind(h, it) < b
  <2> SUFFICES ASSUME at # it, it # xStart PROVE Behind(h, it) < b
    OBVIOUS
  <2>1. it \in Within(h)
    BY <1>3, ShapeFacts DEF Listed
  <2>2. Behind(h, it) <= b
    BY <1>2, <1>3, <2>1 DEF Tiled
  <2>3. Behind(h, it) # b
    BY <1>7
  <2>4. QED BY <1>2, <1>4, <1>7, <2>2, <2>3
<1>12. fin \in Within(h) \cup {h.pxEnd} /\ fin \notin gone /\ fin >= Behind(h, b) /\ fin <= h.pxEnd /\ fin \in Nat
  BY <1>2, <1>4, <1>6, <1>7
<1>13. (fin - at) % Align = 0 /\ fin - at >= xHeapStructSize
  <2>1. fin % Align = 0
    <3>1. (b + h.link[b].size) % Align = 0
      <4>1. b \in Int /\ h.link[b].size \in Int /\ b % Align = 0 /\ h.link[b].size % Align = 0
        BY <1>2
      <4>2. QED BY <4>1, Aligned
    <3>2. behind => (nx + h.link[nx].size) % Align = 0
      <4>1. behind => nx \in Int /\ h.link[nx].size \in Int /\ nx % Align = 0 /\ h.link[nx].size % Align = 0
        BY <1>4, <1>6
      <4> HIDE DEF behind
      <4>2. QED BY <4>1, Aligned
    <3>3. QED BY <1>7, <3>1, <3>2
  <2>2. at % Align = 0
    BY <1>2, <1>5
  <2>3. fin \in Int /\ at \in Int
    BY <1>8, <1>12
  <2> HIDE DEF fin, at
  <2>4. (fin - at) % Align = 0
    BY <2>1, <2>2, <2>3, Aligned
  <2>5. fin - at >= xHeapStructSize
    BY <1>2, <1>7, <1>8, <1>12, <2>3
  <2>6. QED BY <2>4, <2>5
<1>14. \A a \in Within(h) \ (gone \cup {at}) : Behind(h, a) \notin gone
  <2> SUFFICES ASSUME NEW a \in Within(h), a \notin gone, a # at, Behind(h, a) \in gone
               PROVE  FALSE
    OBVIOUS
  <2>1. CASE front /\ Behind(h, a) = b
    <3>1. a = it
      BY <1>5, <2>1, BehindOnce
    <3>2. QED BY <2>1, <3>1
  <2>2. CASE behind /\ Behind(h, a) = nx
    <3>1. a = b
      BY <1>2, <1>6, <2>2, BehindOnce
    <3>2. QED BY <3>1
  <2>3. QED BY <2>1, <2>2
<1>15. \A c \in Within(h) \ gone : at < c => fin <= c
  <2> SUFFICES ASSUME NEW c \in Within(h), c \notin gone, at < c
               PROVE  fin <= c
    OBVIOUS
  <2>1. /\ c \in Nat /\ (b < c => Behind(h, b) <= c)
        /\ (behind /\ nx < c => Behind(h, nx) <= c) /\ (front /\ it < c => b <= c)
    <3>1. \A x, y \in Within(h) : x < y => Behind(h, x) <= y
      BY DEF Tiled
    <3>2. c \in Nat
      BY ShapeFacts
    <3> HIDE DEF front, behind
    <3>3. QED BY <1>2, <1>5, <1>6, <3>1, <3>2
  <2>2. b < c
    BY <1>2, <1>4, <2>1
  <2>3. QED BY <1>4, <1>6, <2>1, <2>2
<1>16. \A a \in gone \cup {at} : Behind(h, a) \in gone \cup {fin}
  BY <1>5, <1>6
<1>17. \A y \in Int : at <= y /\ y < fin <=> \E a \in gone \cup {at} : a <= y /\ y < Behind(h, a)
  <2> SUFFICES ASSUME NEW y \in Int
               PROVE  at <= y /\ y < fin <=> \E a \in gone \cup {at} : a <= y /\ y < Behind(h, a)
    OBVIOUS
  <2>1. (\E a \in gone \cup {at} : a <= y /\ y < Behind(h, a)) <=>
          \/ front /\ it <= y /\ y < b
          \/ b <= y /\ y < Behind(h, b)
          \/ behind /\ nx <= y /\ y < Behind(h, nx)
    BY <1>5
  <2>2. QED BY <1>2, <1>3, <1>4, <1>5, <1>6, <1>7, <2>1
<1>18. \A c \in Listed(h) : it < c => nx <= c
  BY <1>3 DEF InOrder, nx
<1>19. behind => /\ \A c \in Listed(h) : nx < c => h.link[nx].next <= c
                 /\ h.link[nx].next > Behind(h, nx) \/ h.link[nx].next = h.pxEnd
  <2>1. behind => nx \in Linked(h) /\ nx \in Listed(h)
    BY <1>6 DEF Listed
  <2> HIDE DEF behind
  <2>2. QED BY <2>1 DEF InOrder
<1>20. \A c \in Listed(h) : c \in Nat /\ c \in Within(h)
  BY ShapeFacts
<1>21. next \in (Listed(h) \ gone) \cup {h.pxEnd} /\ next > b /\ (next > fin \/ next = h.pxEnd)
  <2>1. CASE behind
    BY <1>2, <1>3, <1>4, <1>6, <1>19, <2>1
  <2>2. CASE ~behind
    <3>1. nx \in Listed(h) => Behind(h, b) <= nx
      BY <1>2, <1>3, <1>20 DEF Tiled
    <3>2. nx # h.pxEnd => nx # Behind(h, b)
      BY <1>7, <2>2
    <3>3. QED BY <1>2, <1>3, <1>4, <1>7, <2>2, <3>1, <3>2
  <2>3. QED BY <2>1, <2>2
<1>22. \A c \in Listed(h) \ gone : at < c => next <= c
  <2> SUFFICES ASSUME NEW c \in Listed(h), c \notin gone, at < c PROVE next <= c
    OBVIOUS
  <2>1. it < c /\ c \in Nat
    BY <1>3, <1>4, <1>8, <1>20
  <2>2. nx <= c
    BY <1>18, <2>1
  <2>3. QED BY <1>4, <1>19, <2>1, <2>2
<1>23. ASSUME NEW c \in Listed(h), it < c PROVE b < c
  <2>1. nx <= c /\ c \in Nat
    BY <1>18, <1>20, <1>23
  <2>2. QED BY <1>2, <1>3, <1>4, <2>1
<1>24. \A a \in Linked(h) \ {it} : h.link[a].next \notin gone
  <2> SUFFICES ASSUME NEW a \in Linked(h), a # it, h.link[a].next \in gone PROVE FALSE
    OBVIOUS
  <2>1. h.link[a].next # b
    BY <1>2, ShapeFacts
  <2>2. h.link[a].next = nx
    BY <2>1
  <2>3. a = it
    BY <1>3, <2>2, NextOnce DEF nx
  <2>4. QED BY <2>3
<1> HIDE DEF at, gone, next, fin, front, behind, size
<1>25. Merges(h, g, b, it, at, gone, next, fin)
  BY <1>3, <1>8, <1>9, <1>10, <1>11, <1>12, <1>13, <1>14, <1>15, <1>16, <1>17, <1>21, <1>22, <1>23, <1>24
     DEF Merges
<1>26. QED BY <1>25

\* However the block is merged, the blocks fill the heap and the list is in
\* order afterwards, and the block's bytes are free.
LEMMA Inserted ==
  ASSUME NEW h, ucHeap \in Bases, Tiled(h), InOrder(h),
         NEW b \in Within(h) \ Listed(h), h.link[b] = Header(Null, h.link[b].size, 0),
         NEW g, g.pxEnd = h.pxEnd, g.link = prvInsertBlockIntoFreeList(h, b)
  PROVE  /\ Tiled(g) /\ InOrder(g) /\ Listed(g) \subseteq Within(g)
         /\ Within(g) \ Listed(g) = (Within(h) \ Listed(h)) \ {b}
         /\ \A c \in (Within(h) \ Listed(h)) \ {b} : g.link[c] = h.link[c]
         /\ Bytes(g, Listed(g)) = Bytes(h, Listed(h)) \cup (b .. Behind(h, b) - 1)
         /\ Bytes(h, Listed(h)) \cap (b .. Behind(h, b) - 1) = {}
<1>1. PICK it, at, gone, next, fin : Merges(h, g, b, it, at, gone, next, fin)
  BY InsertMerges
<1> DEFINE D == DOMAIN h.link
<1>2. /\ b \in Within(h) /\ b \in Nat /\ b > xStart /\ b \notin Linked(h) /\ b \notin Listed(h)
      /\ h.pxEnd \in Nat /\ h.pxEnd \notin Within(h) /\ xStart \notin Within(h) /\ D = Within(h) \cup {xStart, h.pxEnd}
      /\ Listed(h) \subseteq Within(h) /\ \A c \in Within(h) : c \in Nat /\ c < h.pxEnd
      /\ \A c \in Linked(h) : c \in D /\ c \in Int /\ h.link[c].next \in Nat
      /\ \A c \in Within(h) : h.link[c].size \in Nat
      /\ h.pxEnd \notin Linked(h) /\ b < h.pxEnd /\ xStart \in Linked(h)
  BY ShapeFacts DEF Listed, Linked
<1>3. /\ at \in Within(h) /\ at \notin gone /\ at <= b /\ it < b /\ it \in Linked(h)
      /\ gone \subseteq Listed(h) \cup {b} /\ (at = b \/ (at = it /\ b \in gone))
      /\ DOMAIN g.link = D \ gone
      /\ g.link[at] = Header(next, fin - at, 0) /\ fin - at \in Nat
      /\ \A c \in D \ (gone \cup {at, it}) : g.link[c] = h.link[c]
      /\ at # it => g.link[it] = Header(b, h.link[it].size, 0) /\ (it = xStart \/ Behind(h, it) < b)
  BY <1>1 DEF Merges
<1>4. /\ fin \in Within(h) \cup {h.pxEnd} /\ fin \notin gone /\ fin >= Behind(h, b) /\ fin <= h.pxEnd
      /\ (fin - at) % Align = 0 /\ fin - at >= xHeapStructSize
      /\ \A a \in Within(h) \ (gone \cup {at}) : Behind(h, a) \notin gone
      /\ \A c \in Within(h) \ gone : at < c => fin <= c
      /\ \A a \in gone \cup {at} : Behind(h, a) \in gone \cup {fin}
      /\ \A y \in Int : at <= y /\ y < fin <=> \E a \in gone \cup {at} : a <= y /\ y < Behind(h, a)
  BY <1>1 DEF Merges
<1>5. /\ next \in (Listed(h) \ gone) \cup {h.pxEnd} /\ next > b /\ (next > fin \/ next = h.pxEnd)
      /\ \A c \in Listed(h) \ gone : at < c => next <= c
      /\ \A c \in Listed(h) : it < c => b < c
      /\ \A a \in Linked(h) \ {it} : h.link[a].next \notin gone
  BY <1>1 DEF Merges
<1>6. Within(g) = Within(h) \ gone /\ gone \subseteq Within(h)
  BY <1>2, <1>3 DEF Within
<1>7. /\ next \in Nat /\ at \in Nat /\ it \in Int /\ fin \in Nat /\ at < next
      /\ xStart \notin gone /\ h.pxEnd \notin gone /\ it \in D /\ (it \notin gone)
  <2>1. next \in Nat /\ at \in Nat /\ it \in Int /\ fin \in Nat /\ xStart \notin gone /\ h.pxEnd \notin gone /\ it \in D
    BY <1>2, <1>3, <1>4, <1>5, <1>6
  <2>2. at < next
    BY <1>2, <1>3, <1>5, <2>1
  <2>3. it \notin gone
    <3>1. ASSUME it \in gone PROVE FALSE
      <4>1. it \in Listed(h) /\ it # b
        BY <1>2, <1>3, <3>1
      <4>2. at # it
        BY <1>3, <3>1
      <4>3. DOMAIN g.link = D \ gone /\ at = b
        BY <1>3, <4>2
      <4>4. \E a \in Linked(h) : h.link[a].next = it /\ a < it
        BY <4>1, HasPrevious
      <4>5. PICK a \in Linked(h) : h.link[a].next = it /\ a < it
        BY <4>4
      <4>6. a # it
        BY <1>2, <2>1, <4>5
      <4>7. QED BY <1>5, <3>1, <4>5, <4>6
    <3>2. QED BY <3>1
  <2>4. QED BY <2>1, <2>2, <2>3
<1>8. /\ g.link[at].next = next /\ g.link[at].size = fin - at /\ g.link[at].alloc = 0 /\ Behind(g, at) = fin
      /\ at # it => g.link[it].next = b /\ g.link[it].alloc = 0
      /\ \A c \in D \ (gone \cup {at}) : g.link[c].size = h.link[c].size /\ Behind(g, c) = Behind(h, c)
  <2>1. g.link[at].next = next /\ g.link[at].size = fin - at /\ g.link[at].alloc = 0
    BY <1>3 DEF Header
  <2>2. Behind(g, at) = fin
    BY <1>7, <2>1 DEF Behind
  <2>3. at # it => g.link[it].next = b /\ g.link[it].alloc = 0 /\ g.link[it].size = h.link[it].size
    BY <1>3 DEF Header
  <2>4. \A c \in D \ (gone \cup {at}) : g.link[c].size = h.link[c].size
    BY <1>3, <2>3
  <2>5. QED BY <2>1, <2>2, <2>3, <2>4 DEF Behind
<1>9. Linked(g) = (Linked(h) \cup {b}) \ gone /\ Listed(g) = (Listed(h) \cup {b}) \ gone
  <2>1. next # Null /\ b # Null /\ h.link[it].next # Null
    <3>1. h.link[it].next \in Nat
      BY <1>2, <1>3
    <3>2. QED BY <1>2, <1>7, <3>1 DEF Null
  <2>2. /\ \A c : c \in Linked(g) <=> c \in D \ gone /\ g.link[c].next # Null
        /\ \A c : c \in Linked(h) <=> c \in D /\ h.link[c].next # Null
    BY <1>3 DEF Linked
  <2>3. ASSUME NEW c PROVE c \in Linked(g) <=> c \in (Linked(h) \cup {b}) \ gone
    <3>1. CASE c = at
      <4>1. c \in Linked(g)
        BY <1>2, <1>3, <1>8, <2>1, <2>2, <3>1
      <4>2. c \in (Linked(h) \cup {b}) \ gone
        BY <1>3, <3>1
      <4>3. QED BY <4>1, <4>2
    <3>2. CASE c = it /\ at # it
      <4>1. c \in Linked(g)
        BY <1>7, <1>8, <2>1, <2>2, <3>2
      <4>2. c \in (Linked(h) \cup {b}) \ gone
        BY <1>3, <1>7, <3>2
      <4>3. QED BY <4>1, <4>2
    <3>3. CASE c # at /\ c # it
      <4>1. CASE c \in D \ gone
        <5>1. g.link[c] = h.link[c] /\ c # b
          BY <1>3, <3>3, <4>1
        <5>2. QED BY <2>2, <4>1, <5>1
      <4>2. CASE c \notin D \ gone
        BY <1>2, <2>2, <4>2
      <4>3. QED BY <4>1, <4>2
    <3>4. QED BY <3>1, <3>2, <3>3
  <2>4. Linked(g) = (Linked(h) \cup {b}) \ gone
    BY <2>3
  <2>5. b # xStart
    BY <1>2 DEF xStart
  <2>6. QED BY <1>7, <2>4, <2>5 DEF Listed
<1>10. Tiled(g)
  <2>1. /\ IsFiniteSet(DOMAIN g.link) /\ xStart \in DOMAIN g.link /\ g.pxEnd \in DOMAIN g.link
        /\ g.pxEnd = uxEndAddress /\ g.link[g.pxEnd] = Header(Null, 0, 0)
        /\ uxStartAddress \in Within(g)
    <3>1. IsFiniteSet(D) /\ xStart \in D /\ h.pxEnd \in D
          /\ h.pxEnd = uxEndAddress /\ h.link[h.pxEnd] = Header(Null, 0, 0) /\ uxStartAddress \in Within(h)
      BY DEF Tiled
    <3>2. IsFiniteSet(D \ gone)
      BY <3>1, FS_Difference
    <3>3. g.link[h.pxEnd] = h.link[h.pxEnd]
      BY <1>2, <1>3, <1>7
    <3>4. uxStartAddress \notin gone
      <4>1. ASSUME uxStartAddress \in gone PROVE FALSE
        <5>1. uxStartAddress <= at
          BY <1>3, ShapeFacts
        <5>2. at <= uxStartAddress
          <6>1. uxStartAddress \in Int /\ Behind(h, uxStartAddress) \in Int
                /\ uxStartAddress < Behind(h, uxStartAddress)
            BY <3>1, ShapeFacts DEF Behind
          <6>2. \E a \in gone \cup {at} : a <= uxStartAddress /\ uxStartAddress < Behind(h, a)
            BY <4>1, <6>1
          <6>3. QED BY <1>4, <6>1, <6>2
        <5>3. at = uxStartAddress
          BY <1>7, <3>1, <5>1, <5>2, ShapeFacts
        <5>4. QED BY <1>3, <4>1, <5>3
      <4>2. QED BY <4>1
    <3>5. QED BY <1>3, <1>6, <1>7, <3>1, <3>2, <3>3, <3>4
  <2>2. ASSUME NEW c \in Within(g)
        PROVE  /\ g.link[c] \in [next : {Null} \cup Nat, size : Nat, alloc : {0, 1}]
               /\ c \in Nat /\ c % Align = 0 /\ g.link[c].size % Align = 0 /\ g.link[c].size >= xHeapStructSize
               /\ c >= uxStartAddress /\ Behind(g, c) \in Within(g) \cup {g.pxEnd} /\ Behind(g, c) <= g.pxEnd
    <3>1. c \in Within(h) /\ c \notin gone /\ c \in D
      BY <1>2, <1>6
    <3>2. /\ h.link[c] \in [next : {Null} \cup Nat, size : Nat, alloc : {0, 1}]
          /\ c \in Nat /\ c % Align = 0 /\ h.link[c].size % Align = 0 /\ h.link[c].size >= xHeapStructSize
          /\ c >= uxStartAddress /\ Behind(h, c) \in Within(h) \cup {h.pxEnd} /\ Behind(h, c) <= h.pxEnd
      BY <3>1 DEF Tiled
    <3>3. CASE c = at
      <4>1. g.link[c] \in [next : {Null} \cup Nat, size : Nat, alloc : {0, 1}]
        BY <1>3, <1>7, <3>3 DEF Header
      <4>2. Behind(g, c) = fin /\ g.link[c].size = fin - at
        BY <1>8, <3>3
      <4>3. fin \in Within(g) \cup {g.pxEnd} /\ fin <= g.pxEnd /\ (fin - at) % Align = 0 /\ fin - at >= xHeapStructSize
        BY <1>4, <1>6
      <4>4. QED BY <3>2, <4>1, <4>2, <4>3
    <3>4. CASE c # at
      <4>1. g.link[c].size = h.link[c].size /\ Behind(g, c) = Behind(h, c)
        BY <1>8, <3>1, <3>4
      <4>2. Behind(h, c) \notin gone
        BY <1>4, <3>1, <3>4
      <4>3. g.link[c] \in [next : {Null} \cup Nat, size : Nat, alloc : {0, 1}]
        <5>1. CASE c = it
          BY <1>2, <1>3, <3>2, <3>4, <5>1 DEF Header
        <5>2. CASE c # it
          BY <1>3, <3>1, <3>2, <3>4, <5>2
        <5>3. QED BY <5>1, <5>2
      <4>4. QED BY <1>6, <3>2, <4>1, <4>2, <4>3
    <3>5. QED BY <3>3, <3>4
  <2>3. ASSUME NEW a \in Within(g), NEW c \in Within(g), a < c
        PROVE  Behind(g, a) <= c
    <3>1. CASE a = at
      BY <1>4, <1>6, <1>8, <2>3, <3>1
    <3>2. CASE a # at
      <4>1. Behind(g, a) = Behind(h, a) /\ a \in Within(h) /\ c \in Within(h)
        BY <1>2, <1>6, <1>8, <3>2
      <4>2. QED BY <2>3, <4>1 DEF Tiled
    <3>3. QED BY <3>1, <3>2
  <2>4. ASSUME NEW c \in Within(g) \cup {g.pxEnd}
        PROVE  c = uxStartAddress \/ \E a \in Within(g) : Behind(g, a) = c
    <3>1. c \notin gone /\ (c = uxStartAddress \/ \E a \in Within(h) : Behind(h, a) = c)
      BY <1>6, <1>7 DEF Tiled
    <3>2. ASSUME NEW a \in Within(h), Behind(h, a) = c
          PROVE  \E x \in Within(g) : Behind(g, x) = c
      <4>1. CASE a \in gone \cup {at}
        <5>1. c = fin
          BY <1>4, <3>1, <3>2, <4>1
        <5>2. QED BY <1>3, <1>6, <1>8, <5>1
      <4>2. CASE a \notin gone \cup {at}
        BY <1>2, <1>6, <1>8, <3>2, <4>2
      <4>3. QED BY <4>1, <4>2
    <3>3. QED BY <3>1, <3>2
  <2>5. QED BY <2>1, <2>2, <2>3, <2>4 DEF Tiled
<1>11. InOrder(g)
  <2>1. g.link[xStart] \in [next : Nat, size : {0}, alloc : {0}]
    <3>1. h.link[xStart] \in [next : Nat, size : {0}, alloc : {0}] /\ at # xStart
      BY <1>2, <1>3 DEF InOrder
    <3>2. CASE it = xStart
      BY <1>2, <1>3, <3>1, <3>2 DEF Header
    <3>3. CASE it # xStart
      BY <1>2, <1>3, <1>7, <3>1, <3>3
    <3>4. QED BY <3>2, <3>3
  <2>2. ASSUME NEW a \in Linked(g)
        PROVE  /\ g.link[a].alloc = 0
               /\ a < g.link[a].next /\ g.link[a].next \in Listed(g) \cup {g.pxEnd}
               /\ \A c \in Listed(g) : a < c => g.link[a].next <= c
    <3>1. CASE a = at
      <4>1. g.link[a].next = next /\ g.link[a].alloc = 0 /\ a < next
        BY <1>7, <1>8, <3>1
      <4>2. next \in Listed(g) \cup {g.pxEnd}
        BY <1>5, <1>9
      <4>3. \A c \in Listed(g) : at < c => next <= c
        <5> SUFFICES ASSUME NEW c \in Listed(g), at < c PROVE next <= c
          OBVIOUS
        <5>1. c \in Listed(h) \ gone \/ c = b
          BY <1>9
        <5>2. CASE c = b
          <6>1. b \notin gone
            BY <1>9, <5>2
          <6>2. at = b
            BY <1>3, <6>1
          <6>3. QED BY <1>2, <5>2, <6>2
        <5>3. QED BY <1>5, <5>1, <5>2
      <4>4. QED BY <3>1, <4>1, <4>2, <4>3
    <3>2. CASE a = it /\ at # it
      <4>1. g.link[a].next = b /\ g.link[a].alloc = 0 /\ at = b
        BY <1>3, <1>8, <3>2
      <4>2. b \in Listed(g)
        BY <1>3, <1>9, <4>1
      <4>3. \A c \in Listed(g) : it < c => b <= c
        <5> SUFFICES ASSUME NEW c \in Listed(g), it < c PROVE b <= c
          OBVIOUS
        <5>1. c \in Listed(h) \/ c = b
          BY <1>9
        <5>2. c \in Nat
          BY <1>2, <5>1
        <5>3. QED BY <1>2, <1>5, <5>1, <5>2
      <4>4. QED BY <1>3, <3>2, <4>1, <4>2, <4>3
    <3>3. CASE a # at /\ a # it
      <4>1. a \in Linked(h) /\ a \in D \ gone /\ a # b
        BY <1>2, <1>3, <1>9, <3>3
      <4>2. g.link[a] = h.link[a]
        BY <1>3, <3>3, <4>1
      <4>3. /\ h.link[a].alloc = 0
            /\ a < h.link[a].next /\ h.link[a].next \in Listed(h) \cup {h.pxEnd}
            /\ \A c \in Listed(h) : a < c => h.link[a].next <= c
        BY <4>1 DEF InOrder
      <4>4. h.link[a].next \notin gone
        BY <1>5, <3>3, <4>1
      <4>5. h.link[a].next \in Listed(g) \cup {g.pxEnd}
        BY <1>9, <4>3, <4>4
      <4>6. a < b => h.link[a].next <= b
        <5> SUFFICES ASSUME a < b PROVE h.link[a].next <= b
          OBVIOUS
        <5>1. a \in Int /\ h.link[a].next \in Int
          BY <1>2, <4>1
        <5>2. ~(it < a)
          <6>1. ASSUME it < a PROVE FALSE
            <7>a. xStart <= it
              BY <1>3, ShapeFacts
            <7>1. a # xStart
              BY <1>7, <5>1, <6>1, <7>a DEF xStart
            <7>2. a \in Listed(h)
              BY <4>1, <7>1 DEF Listed
            <7>3. b < a
              BY <1>5, <6>1, <7>2
            <7>4. QED BY <1>2, <5>1, <7>3
          <6>2. QED BY <6>1
        <5>3. a < it
          BY <1>7, <3>3, <5>1, <5>2
        <5>4. it \in Listed(h)
          <6>1. xStart <= a
            BY <4>1, ShapeFacts
          <6>2. it # xStart
            BY <5>1, <5>3, <6>1 DEF xStart
          <6>3. QED BY <1>3, <6>2 DEF Listed
        <5>5. h.link[a].next <= it
          BY <4>3, <5>3, <5>4
        <5>6. QED BY <1>2, <1>3, <1>7, <5>1, <5>5
      <4>7. \A c \in Listed(g) : a < c => h.link[a].next <= c
        BY <1>9, <4>3, <4>6
      <4>8. QED BY <4>2, <4>3, <4>5, <4>7
    <3>4. QED BY <3>1, <3>2, <3>3
  <2>3. ASSUME NEW a \in Listed(g)
        PROVE  g.link[a].next > Behind(g, a) \/ g.link[a].next = g.pxEnd
    <3>1. CASE a = at
      BY <1>5, <1>8, <3>1
    <3>2. CASE a = it /\ at # it
      <4>1. it # xStart
        BY <3>2 DEF Listed
      <4>2. Behind(h, it) < b /\ g.link[a].next = b /\ Behind(g, a) = Behind(h, it)
        BY <1>3, <1>7, <1>8, <3>2, <4>1
      <4>3. it \in Within(h)
        BY <1>2, <1>3, <4>1 DEF Listed
      <4>4. Behind(h, it) \in Int
        BY <1>2, <4>3 DEF Behind
      <4>5. QED BY <1>2, <4>2, <4>4
    <3>3. CASE a # at /\ a # it
      <4>1. a \in Listed(h) /\ a \in D \ gone /\ a # b
        BY <1>2, <1>3, <1>9, <3>3
      <4>2. g.link[a] = h.link[a] /\ Behind(g, a) = Behind(h, a)
        BY <1>3, <1>8, <3>3, <4>1
      <4>3. QED BY <4>1, <4>2 DEF InOrder
    <3>4. QED BY <3>1, <3>2, <3>3
  <2>4. QED BY <2>1, <2>2, <2>3 DEF InOrder
<1>12. Within(g) \ Listed(g) = (Within(h) \ Listed(h)) \ {b} /\ Listed(g) \subseteq Within(g)
  BY <1>2, <1>3, <1>6, <1>9
<1>13. \A c \in (Within(h) \ Listed(h)) \ {b} : g.link[c] = h.link[c]
  <2> SUFFICES ASSUME NEW c \in Within(h), c \notin Listed(h), c # b PROVE g.link[c] = h.link[c]
    OBVIOUS
  <2>1. c \notin gone /\ c \in D
    BY <1>2, <1>3
  <2>2. c # it
    BY <1>2, <1>3 DEF Listed
  <2>3. QED BY <1>3, <2>1, <2>2
<1>14. /\ \A y : y \in Bytes(h, Listed(h)) <=> y \in Int /\ \E x \in Listed(h) : x <= y /\ y < Behind(h, x)
       /\ \A y : y \in Bytes(g, Listed(g)) <=> y \in Int /\ \E x \in Listed(g) : x <= y /\ y < Behind(g, x)
       /\ Behind(h, b) \in Nat
       /\ \A y : y \in b .. Behind(h, b) - 1 <=> y \in Int /\ b <= y /\ y < Behind(h, b)
  <2>1. Bytes(h, Listed(h)) \subseteq Int
        /\ \A y \in Int : y \in Bytes(h, Listed(h)) <=> \E x \in Listed(h) : x <= y /\ y < Behind(h, x)
    BY <1>2, BytesAre
  <2>2. Bytes(g, Listed(g)) \subseteq Int
        /\ \A y \in Int : y \in Bytes(g, Listed(g)) <=> \E x \in Listed(g) : x <= y /\ y < Behind(g, x)
    BY <1>10, <1>11, <1>12, BytesAre
  <2>3. Behind(h, b) \in Nat
    BY <1>2 DEF Behind
  <2>4. QED BY <1>2, <2>1, <2>2, <2>3
<1>15. \A y : y \in Bytes(g, Listed(g)) <=> y \in Bytes(h, Listed(h)) \/ y \in b .. Behind(h, b) - 1
  <2>1. ASSUME NEW y \in Int, NEW x \in Listed(g), x <= y, y < Behind(g, x)
        PROVE  \E z \in Listed(h) \cup {b} : z <= y /\ y < Behind(h, z)
    <3>1. CASE x = at
      <4>1. at <= y /\ y < fin
        BY <1>8, <2>1, <3>1
      <4>2. \E a \in gone \cup {at} : a <= y /\ y < Behind(h, a)
        BY <1>4, <4>1
      <4>3. at \in Listed(h) \cup {b}
        BY <1>9, <3>1
      <4>4. QED BY <1>3, <4>2, <4>3
    <3>2. CASE x # at
      <4>1. x \in (Listed(h) \cup {b}) /\ x \in D \ (gone \cup {at})
        BY <1>2, <1>9, <3>2
      <4>2. QED BY <1>8, <2>1, <4>1
    <3>3. QED BY <3>1, <3>2
  <2>2. ASSUME NEW y \in Int, NEW z \in Listed(h) \cup {b}, z <= y, y < Behind(h, z)
        PROVE  \E x \in Listed(g) : x <= y /\ y < Behind(g, x)
    <3>1. at \in Listed(g)
      BY <1>2, <1>3, <1>6, <1>9 DEF Listed
    <3>2. CASE z \in gone \cup {at}
      <4>1. at <= y /\ y < fin
        BY <1>4, <2>2, <3>2
      <4>2. QED BY <1>8, <3>1, <4>1
    <3>3. CASE z \notin gone \cup {at}
      <4>1. z \in Listed(g) /\ z \in D \ (gone \cup {at})
        BY <1>2, <1>9, <3>3
      <4>2. QED BY <1>8, <2>2, <4>1
    <3>4. QED BY <3>2, <3>3
  <2>3. QED BY <1>14, <2>1, <2>2
<1>16. Bytes(h, Listed(h)) \cap (b .. Behind(h, b) - 1) = {}
  <2> SUFFICES ASSUME NEW y \in Int, NEW x \in Listed(h), x <= y, y < Behind(h, x), b <= y, y < Behind(h, b)
               PROVE  FALSE
    BY <1>14
  <2>a. x \in Within(h) /\ x # b /\ x \in Nat /\ h.link[x].size \in Nat
    BY <1>2
  <2>1. x \in Within(h) /\ x # b /\ x \in Nat /\ Behind(h, x) \in Int
    BY <2>a DEF Behind
  <2>2. (x < b => Behind(h, x) <= b) /\ (b < x => Behind(h, b) <= x)
    BY <1>2, <2>1 DEF Tiled
  <2>3. QED BY <1>2, <1>14, <2>1, <2>2
<1>17. QED BY <1>10, <1>11, <1>12, <1>13, <1>15, <1>16

-----------------------------------------------------------------------------
(* A call of pvPortMalloc *)

HeapFields == {"link", "pxEnd", "free", "min", "live"}

(* The heap pvPortMalloc searches: the first call sets it up. *)
Base == IF Up THEN heap ELSE prvHeapInit(heap)

\* Up or not, what pvPortMalloc searches is a sound heap.
LEMMA BaseIsSound ==
  ASSUME HeapInv
  PROVE  /\ ucHeap \in Bases /\ Tiled(Base) /\ InOrder(Base) /\ Owned(Base) /\ Counted(Base)
         /\ DOMAIN Base = HeapFields
<1>1. ucHeap \in Bases /\ DOMAIN heap = HeapFields
  BY DEF HeapInv, CallsInv, HeapFields
<1>2. CASE Up
  BY <1>1, <1>2 DEF HeapInv, Base
<1>3. CASE ~Up
  <2>1. heap = Empty /\ \A t \in Client : holds[t] = {} /\ doing[t] = NoCall
    BY <1>3 DEF HeapInv
  <2>2. heap.live = 0
    BY <2>1 DEF Empty
  <2>3. PICK g : g = Base
    OBVIOUS
  <2>4. /\ Tiled(g) /\ InOrder(g) /\ DOMAIN g = HeapFields
        /\ Within(g) = {uxStartAddress} /\ Listed(g) = {uxStartAddress} /\ g.live = 0
        /\ g.free = Cardinality(Bytes(g, Listed(g))) /\ g.min = g.free /\ g.free \in Nat
    <3>1. g = prvHeapInit(heap)
      BY <1>3, <2>3 DEF Base
    <3>2. DOMAIN heap = {"link", "pxEnd", "free", "min", "live"}
      BY <1>1 DEF HeapFields
    <3>3. LET x == prvHeapInit(heap)
          IN /\ Tiled(x) /\ InOrder(x) /\ DOMAIN x = DOMAIN heap
             /\ Within(x) = {uxStartAddress} /\ Listed(x) = {uxStartAddress}
             /\ x.live = heap.live
             /\ x.free = Cardinality(Bytes(x, Listed(x))) /\ x.min = x.free /\ x.free \in Nat
      BY <1>1, <3>2, InitShape
    <3>4. QED BY <1>1, <2>2, <3>1, <3>3
  <2>5. Owned(g)
    <3>1. \A t \in Client : ~Freeing(t)
      BY <2>1 DEF Freeing, NoCall
    <3>2. QED BY <2>1, <2>4, <3>1 DEF Owned
  <2>6. Counted(g)
    <3>1. Cardinality(Within(g) \ Listed(g)) = 0
      <4>1. Within(g) \ Listed(g) = {}
        BY <2>4
      <4>2. QED BY <4>1, FS_EmptySet
    <3>2. QED BY <2>4, <3>1 DEF Counted
  <2>7. QED BY <1>1, <2>3, <2>4, <2>5, <2>6
<1>4. QED BY <1>2, <1>3

\* The blocks in use are finitely many.
LEMMA UsedFinite ==
  ASSUME NEW h, Tiled(h)
  PROVE  IsFiniteSet(Within(h)) /\ IsFiniteSet(Within(h) \ Listed(h))
<1>1. IsFiniteSet(DOMAIN h.link)
  BY DEF Tiled
<1>2. Within(h) \subseteq DOMAIN h.link
  BY DEF Within
<1>3. IsFiniteSet(Within(h))
  BY <1>1, <1>2, FS_Subset
<1>4. QED BY <1>3, FS_Difference

(* What a successful pvPortMalloc does with block b of the heap h. *)
Takes(h, g, b) ==
  /\ b \in Listed(h) /\ Tiled(g) /\ InOrder(g) /\ g.pxEnd = h.pxEnd /\ DOMAIN g = HeapFields
  /\ Within(h) \subseteq Within(g) /\ Within(g) \ Listed(g) = (Within(h) \ Listed(h)) \cup {b}
  /\ g.link[b] = Header(Null, g.link[b].size, 1) /\ g.link[b].size \in Nat
  /\ \A c \in Within(h) \ Listed(h) : g.link[c] = h.link[c]
  /\ Counted(g)

\* A call fails only if no free block holds what is asked for, and succeeds with
\* a block that does; its assertions hold.
LEMMA MallocCases ==
  ASSUME HeapInv, NEW n \in Nat, NEW r, r = pvPortMalloc(n)
  PROVE  /\ r.sound = TRUE
         /\ \/ /\ r.h = Base /\ r.pv = Null
               /\ n = 0 \/ \A b \in Listed(Base) : Base.link[b].size < n + xHeapStructSize
            \/ \E b \in Listed(Base) :
                 /\ Takes(Base, r.h, b) /\ r.pv = b + xHeapStructSize
                 /\ r.h.link[b].size >= n + xHeapStructSize
<1>1. PICK h : h = Base
  OBVIOUS
<1>2. /\ ucHeap \in Bases /\ Tiled(h) /\ InOrder(h) /\ Counted(h) /\ DOMAIN h = HeapFields
  BY <1>1, BaseIsSound
<1> DEFINE H == xHeapStructSize
           wanted == WantedSize(n)
           prev == pxPreviousBlock(h, wanted)
           b == h.link[prev].next
           link == TakeOut(h, prev, wanted)
           free == h.free - link[b].size
           fails == wanted >= SizeMod \div 2 \/ wanted = 0 \/ wanted > h.free \/ b = h.pxEnd
           g == [h EXCEPT !.link = link, !.free = free, !.live = @ + 1,
                          !.min = IF free < @ THEN free ELSE @]
<1>3. r = IF fails THEN [h |-> h, pv |-> Null, sound |-> TRUE]
          ELSE [h |-> g, pv |-> b + H,
                sound |-> /\ InHeap(b) /\ InHeap(b + H) /\ h.link[b].size >= wanted
                          /\ (b + wanted) % Align = 0 /\ (b + H) % Align = 0]
  <2>1. h = IF heap.pxEnd = Null THEN prvHeapInit(heap) ELSE heap
    BY <1>1 DEF Base, Up
  <2>2. QED BY <2>1 DEF pvPortMalloc
<1>4. /\ wanted \in Nat /\ wanted % Align = 0
      /\ wanted # 0 => n + H <= wanted /\ wanted < SizeMod /\ wanted >= H
                       /\ \A m \in Int : m % Align = 0 /\ m >= n + H => m >= wanted
      /\ wanted = 0 /\ n # 0 => \A m \in Int : m % Align = 0 /\ m >= n + H => m >= SizeMod
  BY Wanted
<1>5. /\ H \in Nat /\ H > 0 /\ H % Align = 0 /\ Align \in Nat /\ Align > 0
      /\ HeapSize \in Nat /\ SizeMod \in Nat /\ 2 * HeapSize < SizeMod
  BY Struct, HeapAssumption
<1>6. /\ ucHeap \in Nat /\ h.pxEnd \in Nat /\ h.pxEnd + H <= ucHeap + HeapSize /\ uxStartAddress \in Nat
      /\ uxStartAddress >= ucHeap
  BY <1>2, ShapeFacts, HeapEnds
<1> HIDE DEF wanted, H
<1>7. /\ prev \in Linked(h)
      /\ b # h.pxEnd => b \in Listed(h) /\ h.link[b].size >= wanted
      /\ b = h.pxEnd => \A c \in Listed(h) : h.link[c].size < wanted
  BY <1>2, <1>4, FirstFit
<1>8. \A c \in Listed(h) : /\ c \in Within(h) /\ c \in Nat /\ c >= uxStartAddress
                           /\ h.link[c].size \in Nat /\ h.link[c].size % Align = 0 /\ c + h.link[c].size <= h.pxEnd
                           /\ c % Align = 0 /\ h.link[c].size >= H
  BY <1>2, ShapeFacts DEF H
<1>9. \A c \in Listed(h) : h.link[c].size < HeapSize /\ h.link[c].size <= h.free
  <2> SUFFICES ASSUME NEW c \in Listed(h)
               PROVE  h.link[c].size < HeapSize /\ h.link[c].size <= h.free
    OBVIOUS
  <2>1. h.link[c].size < HeapSize
    BY <1>5, <1>6, <1>8
  <2>2. h.link[c].size <= Cardinality(Bytes(h, Listed(h)))
    <3>1. Listed(h) \in SUBSET Within(h)
      BY <1>8
    <3>2. QED BY <1>2, <3>1, BytesFinite
  <2>3. QED BY <1>2, <2>1, <2>2 DEF Counted
<1>10. h.free \in Nat
  <2>1. Listed(h) \in SUBSET Within(h)
    BY <1>8
  <2>2. Cardinality(Bytes(h, Listed(h))) \in Nat
    BY <1>2, <2>1, BytesFinite
  <2>3. QED BY <1>2, <2>2 DEF Counted
<1>11. CASE fails
  <2>1. r.sound = TRUE /\ r.h = h /\ r.pv = Null
    BY <1>3, <1>11
  <2>2. n = 0 \/ \A c \in Listed(h) : h.link[c].size < n + H
    <3> SUFFICES ASSUME n # 0, NEW c \in Listed(h), ~(h.link[c].size < n + H) PROVE FALSE
      OBVIOUS
    <3>1. h.link[c].size \in Nat /\ h.link[c].size % Align = 0 /\ h.link[c].size < HeapSize
          /\ h.link[c].size <= h.free /\ h.link[c].size >= n + H
      BY <1>5, <1>8, <1>9
    <3>2. wanted # 0
      <4>1. ASSUME wanted = 0 PROVE FALSE
        <5>1. h.link[c].size >= SizeMod
          BY <1>4, <3>1, <4>1
        <5>2. QED BY <1>5, <3>1, <5>1
      <4>2. QED BY <4>1
    <3>3. h.link[c].size >= wanted
      BY <1>4, <3>1, <3>2
    <3>4. SizeMod \div 2 >= HeapSize
      BY <1>5
    <3>5. ~(wanted >= SizeMod \div 2)
      <4>1. SizeMod \div 2 \in Int
        BY <1>5
      <4>2. QED BY <1>4, <1>5, <3>1, <3>3, <3>4, <4>1
    <3>6. ~(wanted > h.free)
      BY <1>4, <1>10, <3>1, <3>3
    <3>7. b = h.pxEnd
      BY <1>11, <3>2, <3>5, <3>6
    <3>8. h.link[c].size < wanted
      BY <1>7, <3>7
    <3>9. QED BY <1>4, <3>1, <3>3, <3>8
  <2>3. QED BY <1>1, <2>1, <2>2 DEF H
<1>12. CASE ~fails
  <2>1. /\ b \in Listed(h) /\ h.link[b].size >= wanted /\ wanted # 0 /\ wanted >= H /\ n + H <= wanted
    BY <1>4, <1>7, <1>12
  <2>2. /\ DOMAIN g = HeapFields /\ g.link = TakeOut(h, prev, wanted) /\ g.pxEnd = h.pxEnd /\ g.free = free
        /\ g.live = h.live + 1 /\ g.min = IF free < h.min THEN free ELSE h.min
    BY <1>2 DEF HeapFields
  <2>3. r.h = g /\ r.pv = b + H
        /\ r.sound = (/\ InHeap(b) /\ InHeap(b + H) /\ h.link[b].size >= wanted
                      /\ (b + wanted) % Align = 0 /\ (b + H) % Align = 0)
    BY <1>3, <1>12
  <2> HIDE DEF g, fails
  <2>4. b \in Nat /\ b >= uxStartAddress /\ b % Align = 0 /\ b \in Within(h)
        /\ h.link[b].size \in Nat /\ b + h.link[b].size <= h.pxEnd
    BY <1>8, <2>1
  <2>5. InHeap(b) /\ InHeap(b + H)
    <3>1. b >= ucHeap /\ b + H <= ucHeap + HeapSize - H
      BY <1>4, <1>5, <1>6, <2>1, <2>4
    <3> HIDE DEF b
    <3>2. QED BY <1>5, <1>6, <2>4, <3>1 DEF InHeap
  <2>6. (b + wanted) % Align = 0 /\ (b + H) % Align = 0
    <3>1. b \in Int /\ wanted \in Int /\ H \in Int
      BY <1>4, <1>5, <2>4
    <3> HIDE DEF b
    <3>2. QED BY <1>4, <1>5, <2>4, <3>1, Aligned
  <2>7. r.sound = TRUE
    BY <2>1, <2>3, <2>5, <2>6
  <2>8. /\ Tiled(g) /\ InOrder(g) /\ Within(h) \subseteq Within(g)
        /\ Within(g) \ Listed(g) = (Within(h) \ Listed(h)) \cup {b}
        /\ g.link[b] = Header(Null, g.link[b].size, 1) /\ g.link[b].size \in Nat /\ g.link[b].size >= wanted
        /\ \A c \in Within(h) \ Listed(h) : g.link[c] = h.link[c]
        /\ b .. Behind(g, b) - 1 \subseteq Bytes(h, Listed(h))
        /\ Bytes(g, Listed(g)) = Bytes(h, Listed(h)) \ (b .. Behind(g, b) - 1)
    <3>1. h.link[prev].next = b /\ wanted \in Nat /\ wanted % Align = 0 /\ wanted >= xHeapStructSize
      BY <1>4, <2>1 DEF H
    <3> HIDE DEF b, prev
    <3>2. prev \in Linked(h) /\ b \in Listed(h) /\ h.link[b].size >= wanted
          /\ g.pxEnd = h.pxEnd /\ g.link = TakeOut(h, prev, wanted)
      BY <1>7, <2>1, <2>2
    <3>3. QED BY <1>2, <3>1, <3>2, Taken
  <2> HIDE DEF prev, b
  <2>9. Counted(g)
    <3> DEFINE A == Bytes(h, Listed(h))
               I == b .. Behind(g, b) - 1
               size == g.link[b].size
    <3>1. IsFiniteSet(A) /\ Cardinality(A) = h.free
      <4>1. Listed(h) \in SUBSET Within(h)
        BY <1>8
      <4>2. QED BY <1>2, <4>1, BytesFinite DEF Counted
    <3>2. Cardinality(I) = size
      <4>1. size \in Nat /\ size > 0 /\ Behind(g, b) = b + size
        BY <1>4, <1>5, <2>1, <2>8 DEF Behind
      <4>2. b \in Int /\ (b + size) - 1 \in Int /\ ~(b > (b + size) - 1) /\ (b + size) - 1 - b + 1 = size
        BY <2>4, <4>1
      <4> HIDE DEF size
      <4>3. Cardinality(b .. (b + size) - 1) = IF b > (b + size) - 1 THEN 0 ELSE (b + size) - 1 - b + 1
        BY <4>2, FS_Interval
      <4>4. QED BY <4>1, <4>2, <4>3
    <3>3. Cardinality(A \ I) = Cardinality(A) - Cardinality(A \cap I)
      BY <3>1, FS_Difference
    <3>4. A \cap I = I
      BY <2>8
    <3>5. Cardinality(Bytes(g, Listed(g))) = free /\ g.free = free
      <4>1. g.link[b].size = link[b].size
        BY <2>2
      <4>2. QED BY <2>2, <2>8, <3>1, <3>2, <3>3, <3>4, <4>1
    <3>6. free \in Nat
      <4>1. IsFiniteSet(A \ I)
        BY <3>1, FS_Difference
      <4>2. Cardinality(A \ I) \in Nat
        BY <4>1, FS_CardinalityType
      <4>3. QED BY <2>8, <3>5, <4>2
    <3>7. h.min \in Nat /\ h.live = Cardinality(Within(h) \ Listed(h))
      BY <1>2 DEF Counted
    <3>8. g.min \in Nat /\ g.min <= g.free
      <4> HIDE DEF free
      <4>1. QED BY <2>2, <3>5, <3>6, <3>7
    <3>9. g.live = Cardinality(Within(g) \ Listed(g))
      <4>1. IsFiniteSet(Within(h) \ Listed(h)) /\ b \notin Within(h) \ Listed(h)
        BY <1>2, <2>1, UsedFinite
      <4>2. Cardinality((Within(h) \ Listed(h)) \cup {b}) = Cardinality(Within(h) \ Listed(h)) + 1
        BY <4>1, FS_AddElement
      <4>3. QED BY <2>2, <2>8, <3>7, <4>2
    <3>10. QED BY <3>5, <3>8, <3>9 DEF Counted
  <2>10. Takes(h, g, b)
    BY <2>1, <2>2, <2>8, <2>9 DEF Takes
  <2>11. g.link[b].size >= n + H
    BY <1>4, <1>5, <2>1, <2>8
  <2>12. QED BY <1>1, <2>1, <2>3, <2>7, <2>10, <2>11 DEF H
<1>13. QED BY <1>11, <1>12

-----------------------------------------------------------------------------
(* The steps keep the invariant *)

\* ucHeap does not move: what is true of the headers is true of the next heap.
LEMMA SamePlace ==
  ASSUME NEW g, heap' = g, ucHeap' = ucHeap, Tiled(g)
  PROVE  Tiled(heap)'
<1>1. uxStartAddress' = uxStartAddress /\ uxEndAddress' = uxEndAddress
  BY DEF uxStartAddress, uxEndAddress
<1>2. QED BY <1>1 DEF Tiled

\* A heap that is set up is up.
LEMMA TiledIsUp ==
  ASSUME ucHeap \in Bases, NEW g, Tiled(g)
  PROVE  g.pxEnd # Null /\ g.pxEnd \in Nat
<1>1. g.pxEnd = uxEndAddress /\ uxEndAddress \in Nat
  BY HeapEnds DEF Tiled
<1>2. QED BY <1>1 DEF Null

\* A task gets a block of its own, or stops in vApplicationMallocFailedHook.
LEMMA GetsKeeps ==
  ASSUME HeapInv, NEW t \in Client, MayCall(t), NEW n \in Nat, Gets(t, n)
  PROVE  HeapInv'
<1>1. PICK r \in {pvPortMalloc(n)} :
        /\ heap' = r.h
        /\ halted' = IF r.sound THEN "no" ELSE "!ASSERT"
        /\ IF r.pv = Null
           THEN doing' = [doing EXCEPT ![t] = [op |-> "failed", at |-> Null, size |-> n]] /\ UNCHANGED holds
           ELSE holds' = [holds EXCEPT ![t] = @ \cup {[at |-> r.pv, size |-> n]}] /\ UNCHANGED doing
        /\ UNCHANGED ucHeap
  BY DEF Gets
<1>2. r = pvPortMalloc(n)
  BY <1>1
<1>3. PICK h : h = Base
  OBVIOUS
<1>4. /\ ucHeap \in Bases /\ Tiled(h) /\ InOrder(h) /\ Owned(h) /\ Counted(h) /\ DOMAIN h = HeapFields
  BY <1>3, BaseIsSound
<1>5. /\ r.sound = TRUE
      /\ \/ /\ r.h = h /\ r.pv = Null
            /\ n = 0 \/ \A b \in Listed(h) : h.link[b].size < n + xHeapStructSize
         \/ \E b \in Listed(h) :
              /\ Takes(h, r.h, b) /\ r.pv = b + xHeapStructSize
              /\ r.h.link[b].size >= n + xHeapStructSize
  BY <1>2, <1>3, MallocCases
<1>6. /\ DOMAIN holds = Client /\ DOMAIN doing = Client /\ doing[t] = NoCall
      /\ \A u \in Client : doing[u] = NoCall \/ Freeing(u) \/ (doing[u].op = "failed" /\ doing[u].at = Null)
  BY DEF HeapInv, CallsInv, MayCall
<1>7. halted' = "no" /\ ucHeap' = ucHeap
  BY <1>1, <1>5
<1>8. CASE r.h = h /\ r.pv = Null
  <2>1. /\ heap' = h /\ holds' = holds
        /\ doing' = [doing EXCEPT ![t] = [op |-> "failed", at |-> Null, size |-> n]]
    BY <1>1, <1>8
  <2>2. /\ DOMAIN doing' = Client /\ \A u \in Client \ {t} : doing'[u] = doing[u]
        /\ doing'[t].op = "failed" /\ doing'[t].at = Null
    BY <1>6, <2>1
  <2>3. \A u \in Client : (Freeing(u)' <=> Freeing(u)) /\ (Freeing(u) => doing'[u] = doing[u])
    <3>1. ~Freeing(t) /\ ~Freeing(t)'
      BY <1>6, <2>2 DEF Freeing, NoCall
    <3>2. \A u \in Client \ {t} : Freeing(u)' <=> Freeing(u)
      BY <2>2 DEF Freeing
    <3>3. QED BY <2>2, <3>1, <3>2
  <2>4. Owned(heap)'
    BY <1>4, <2>1, <2>3 DEF Owned, BlockOf
  <2>5. CallsInv'
    <3>1. \A u \in Client \ {t} : doing'[u] = NoCall \/ Freeing(u)' \/ (doing'[u].op = "failed" /\ doing'[u].at = Null)
      BY <1>6, <2>2, <2>3
    <3>2. QED BY <1>4, <1>6, <1>7, <2>1, <2>2, <3>1 DEF CallsInv
  <2>6. Tiled(heap)' /\ InOrder(heap)' /\ Counted(heap)' /\ Up' /\ DOMAIN heap' = HeapFields
    <3>1. Tiled(heap)'
      BY <1>4, <1>7, <2>1, SamePlace
    <3>2. InOrder(heap)' /\ Counted(heap)' /\ DOMAIN heap' = HeapFields
      BY <1>4, <2>1
    <3>3. Up'
      BY <1>4, <2>1, TiledIsUp DEF Up
    <3>4. QED BY <3>1, <3>2, <3>3
  <2>7. QED BY <2>4, <2>5, <2>6 DEF HeapInv, HeapFields
<1>9. ASSUME NEW b \in Listed(h), Takes(h, r.h, b), r.pv = b + xHeapStructSize,
             r.h.link[b].size >= n + xHeapStructSize
      PROVE  HeapInv'
  <2>1. PICK g : g = r.h
    OBVIOUS
  <2>2. /\ Tiled(g) /\ InOrder(g) /\ g.pxEnd = h.pxEnd /\ DOMAIN g = HeapFields
        /\ Within(h) \subseteq Within(g) /\ Within(g) \ Listed(g) = (Within(h) \ Listed(h)) \cup {b}
        /\ g.link[b] = Header(Null, g.link[b].size, 1) /\ g.link[b].size \in Nat
        /\ \A c \in Within(h) \ Listed(h) : g.link[c] = h.link[c]
        /\ Counted(g) /\ g.link[b].size >= n + xHeapStructSize
    BY <1>9, <2>1 DEF Takes
  <2>3. b \in Within(h) /\ b \in Nat /\ b \in Linked(h) /\ xHeapStructSize \in Nat
    BY <1>4, ShapeFacts, Struct DEF Listed
  <2> DEFINE x == [at |-> b + xHeapStructSize, size |-> n]
  <2>4. /\ heap' = g /\ doing' = doing /\ holds' = [holds EXCEPT ![t] = @ \cup {x}]
    <3>1. r.pv # Null
      BY <1>9, <2>3 DEF Null
    <3>2. QED BY <1>1, <1>9, <2>1, <3>1
  <2>5. /\ DOMAIN holds' = Client /\ holds'[t] = holds[t] \cup {x}
        /\ \A u \in Client \ {t} : holds'[u] = holds[u]
    BY <1>6, <2>4
  <2>6. x \in [at : Nat, size : Nat] /\ x.at = b + xHeapStructSize /\ x.size = n /\ BlockOf(x) = b
    BY <2>3 DEF BlockOf
  <2> HIDE DEF x
  <2>7. g.link[b].alloc = 1 /\ g.link[b].next = Null
    BY <2>2 DEF Header
  <2>8. /\ \A u \in Client : \A y \in holds[u] :
             /\ y \in [at : Nat, size : Nat] /\ BlockOf(y) \in Within(h)
             /\ h.link[BlockOf(y)].alloc = 1 /\ h.link[BlockOf(y)].next = Null
             /\ y.size + xHeapStructSize <= h.link[BlockOf(y)].size
        /\ \A u, v \in Client : \A y \in holds[u], z \in holds[v] : y.at = z.at => u = v /\ y = z
        /\ \A u \in Client : Freeing(u) =>
             /\ doing[u].at \in Within(h) /\ h.link[doing[u].at].alloc = 0 /\ h.link[doing[u].at].next = Null
             /\ \A v \in Client : Freeing(v) /\ doing[v].at = doing[u].at => u = v
        /\ \A c \in Within(h) \ Listed(h) :
             IF h.link[c].alloc = 1 THEN \E u \in Client : \E y \in holds[u] : BlockOf(y) = c
             ELSE \E u \in Client : Freeing(u) /\ doing[u].at = c
    BY <1>4 DEF Owned
  <2>9. \A u \in Client : \A y \in holds[u] :
          /\ BlockOf(y) \in Within(h) \ Listed(h) /\ BlockOf(y) # b /\ y.at # x.at
    <3> SUFFICES ASSUME NEW u \in Client, NEW y \in holds[u]
                 PROVE  BlockOf(y) \in Within(h) \ Listed(h) /\ BlockOf(y) # b /\ y.at # x.at
      OBVIOUS
    <3>1. BlockOf(y) \in Within(h) /\ BlockOf(y) \notin Linked(h)
      BY <2>8 DEF Linked
    <3>2. BlockOf(y) \in Within(h) \ Listed(h) /\ BlockOf(y) # b
      BY <2>3, <3>1 DEF Listed
    <3>3. QED BY <2>6, <3>2 DEF BlockOf
  <2>10. \A u \in Client : Freeing(u) => doing[u].at \in Within(h) \ Listed(h)
    <3> SUFFICES ASSUME NEW u \in Client, Freeing(u) PROVE doing[u].at \in Within(h) \ Listed(h)
      OBVIOUS
    <3>1. doing[u].at \in Within(h) /\ doing[u].at \notin Linked(h)
      BY <2>8 DEF Linked
    <3>2. QED BY <3>1 DEF Listed
  <2>11. \A u \in Client : \A y \in holds'[u] :
           /\ y \in [at : Nat, size : Nat] /\ BlockOf(y) \in Within(g)
           /\ g.link[BlockOf(y)].alloc = 1 /\ g.link[BlockOf(y)].next = Null
           /\ y.size + xHeapStructSize <= g.link[BlockOf(y)].size
    <3> SUFFICES ASSUME NEW u \in Client, NEW y \in holds'[u]
                 PROVE  /\ y \in [at : Nat, size : Nat] /\ BlockOf(y) \in Within(g)
                        /\ g.link[BlockOf(y)].alloc = 1 /\ g.link[BlockOf(y)].next = Null
                        /\ y.size + xHeapStructSize <= g.link[BlockOf(y)].size
      OBVIOUS
    <3>1. CASE y \in holds[u]
      <4>1. g.link[BlockOf(y)] = h.link[BlockOf(y)] /\ BlockOf(y) \in Within(g)
        BY <2>2, <2>9, <3>1
      <4>2. QED BY <2>8, <3>1, <4>1
    <3>2. CASE y \notin holds[u]
      <4>1. y = x
        BY <2>5, <3>2
      <4>2. n + xHeapStructSize <= g.link[b].size
        BY <2>2, <2>3
      <4>3. QED BY <2>2, <2>3, <2>6, <2>7, <4>1, <4>2
    <3>3. QED BY <3>1, <3>2
  <2>12. \A u, v \in Client : \A y \in holds'[u], z \in holds'[v] : y.at = z.at => u = v /\ y = z
    <3> SUFFICES ASSUME NEW u \in Client, NEW v \in Client, NEW y \in holds'[u], NEW z \in holds'[v], y.at = z.at
                 PROVE  u = v /\ y = z
      OBVIOUS
    <3>1. /\ y \in holds[u] \/ (u = t /\ y = x)
          /\ z \in holds[v] \/ (v = t /\ z = x)
      BY <2>5
    <3>2. QED BY <2>8, <2>9, <3>1
  <2>13. \A c \in Within(g) \ Listed(g) :
           IF g.link[c].alloc = 1 THEN \E u \in Client : \E y \in holds'[u] : BlockOf(y) = c
           ELSE \E u \in Client : Freeing(u) /\ doing[u].at = c
    <3> SUFFICES ASSUME NEW c \in Within(g) \ Listed(g)
                 PROVE  IF g.link[c].alloc = 1 THEN \E u \in Client : \E y \in holds'[u] : BlockOf(y) = c
                        ELSE \E u \in Client : Freeing(u) /\ doing[u].at = c
      OBVIOUS
    <3>1. CASE c = b
      BY <2>5, <2>6, <2>7, <3>1
    <3>2. CASE c # b
      <4>1. c \in Within(h) \ Listed(h) /\ g.link[c] = h.link[c]
        BY <2>2, <3>2
      <4>2. \A u \in Client : holds[u] \subseteq holds'[u]
        BY <2>5
      <4>3. QED BY <2>8, <4>1, <4>2
    <3>3. QED BY <3>1, <3>2
  <2>14. \A u \in Client : Freeing(u) =>
           /\ doing[u].at \in Within(g) /\ g.link[doing[u].at].alloc = 0 /\ g.link[doing[u].at].next = Null
           /\ \A v \in Client : Freeing(v) /\ doing[v].at = doing[u].at => u = v
    BY <2>2, <2>8, <2>10
  <2>15. \A u \in Client : Freeing(u)' <=> Freeing(u)
    BY <2>4 DEF Freeing
  <2>16. Owned(heap)'
    BY <2>4, <2>11, <2>12, <2>13, <2>14, <2>15 DEF Owned
  <2>17. CallsInv'
    BY <1>4, <1>6, <1>7, <2>4, <2>5, <2>15 DEF CallsInv
  <2>18. Tiled(heap)' /\ InOrder(heap)' /\ Counted(heap)' /\ Up' /\ DOMAIN heap' = HeapFields
    <3>1. Tiled(heap)'
      BY <1>7, <2>2, <2>4, SamePlace
    <3>2. InOrder(heap)' /\ Counted(heap)' /\ DOMAIN heap' = HeapFields
      BY <2>2, <2>4
    <3>3. Up'
      BY <1>4, <2>2, <2>4, TiledIsUp DEF Up
    <3>4. QED BY <3>1, <3>2, <3>3
  <2>19. QED BY <2>16, <2>17, <2>18 DEF HeapInv, HeapFields
<1>10. QED BY <1>5, <1>8, <1>9

\* The headers after vPortFree cleared the bit of b.
ClearBit(link, b) == [link EXCEPT ![b].alloc = 0]

\* Clearing the bit of a block in use moves no block and no free byte.
LEMMA Marked ==
  ASSUME NEW h, ucHeap \in Bases, Tiled(h), InOrder(h), NEW b \in Within(h) \ Listed(h),
         h.link[b].next = Null,
         NEW g, g.pxEnd = h.pxEnd, g.link = ClearBit(h.link, b)
  PROVE  /\ Tiled(g) /\ InOrder(g) /\ Within(g) = Within(h) /\ Listed(g) = Listed(h)
         /\ g.link[b] = Header(Null, h.link[b].size, 0)
         /\ \A c \in Within(h) \ {b} : g.link[c] = h.link[c]
         /\ Bytes(g, Listed(g)) = Bytes(h, Listed(h))
<1> DEFINE D == DOMAIN h.link
<1>1. /\ b \in Within(h) /\ b \in D /\ b # h.pxEnd /\ b # xStart /\ b \notin Linked(h)
      /\ h.link[b] = Header(h.link[b].next, h.link[b].size, h.link[b].alloc)
      /\ D = Within(h) \cup {xStart, h.pxEnd} /\ Listed(h) \subseteq Within(h)
  BY ShapeFacts DEF Listed
<1>2. /\ DOMAIN g.link = D /\ \A c \in D \ {b} : g.link[c] = h.link[c]
      /\ g.link[b] = [h.link[b] EXCEPT !.alloc = 0]
  BY <1>1 DEF ClearBit
<1>3. g.link[b] = Header(Null, h.link[b].size, 0)
  BY <1>1, <1>2 DEF Header
<1>4. g.link[b].size = h.link[b].size /\ g.link[b].next = Null /\ g.link[b].alloc = 0
  BY <1>3 DEF Header
<1>5. Within(g) = Within(h)
  BY <1>2 DEF Within
<1>6. Linked(g) = Linked(h) /\ Listed(g) = Listed(h)
  <2>1. \A c : c \in Linked(g) <=> c \in Linked(h)
    BY <1>1, <1>2, <1>4 DEF Linked
  <2>2. QED BY <2>1 DEF Listed
<1>7. \A c \in D : g.link[c].size = h.link[c].size /\ Behind(g, c) = Behind(h, c)
  BY <1>2, <1>4 DEF Behind
<1>8. Tiled(g)
  <2>1. /\ IsFiniteSet(DOMAIN g.link) /\ xStart \in DOMAIN g.link /\ g.pxEnd \in DOMAIN g.link
        /\ g.pxEnd = uxEndAddress /\ g.link[g.pxEnd] = Header(Null, 0, 0)
        /\ uxStartAddress \in Within(g)
    <3>1. IsFiniteSet(D) /\ xStart \in D /\ h.pxEnd \in D
          /\ h.pxEnd = uxEndAddress /\ h.link[h.pxEnd] = Header(Null, 0, 0) /\ uxStartAddress \in Within(h)
      BY DEF Tiled
    <3>2. g.link[h.pxEnd] = h.link[h.pxEnd]
      BY <1>1, <1>2
    <3>3. QED BY <1>2, <1>5, <3>1, <3>2
  <2>2. ASSUME NEW c \in Within(g)
        PROVE  /\ g.link[c] \in [next : {Null} \cup Nat, size : Nat, alloc : {0, 1}]
               /\ c \in Nat /\ c % Align = 0 /\ g.link[c].size % Align = 0 /\ g.link[c].size >= xHeapStructSize
               /\ c >= uxStartAddress /\ Behind(g, c) \in Within(g) \cup {g.pxEnd} /\ Behind(g, c) <= g.pxEnd
    <3>1. c \in Within(h) /\ g.link[c].size = h.link[c].size /\ Behind(g, c) = Behind(h, c)
      BY <1>1, <1>5, <1>7
    <3>2. h.link[c] \in [next : {Null} \cup Nat, size : Nat, alloc : {0, 1}]
      BY <3>1 DEF Tiled
    <3>3. g.link[c] \in [next : {Null} \cup Nat, size : Nat, alloc : {0, 1}]
      <4>1. CASE c = b
        BY <1>3, <3>2, <4>1 DEF Header
      <4>2. CASE c # b
        BY <1>1, <1>2, <3>1, <3>2, <4>2
      <4>3. QED BY <4>1, <4>2
    <3>4. QED BY <1>5, <3>1, <3>3 DEF Tiled
  <2>3. \A a, c \in Within(g) : a < c => Behind(g, a) <= c
    BY <1>1, <1>5, <1>7 DEF Tiled
  <2>4. \A c \in Within(g) \cup {g.pxEnd} : c = uxStartAddress \/ \E a \in Within(g) : Behind(g, a) = c
    BY <1>1, <1>5, <1>7 DEF Tiled
  <2>5. QED BY <2>1, <2>2, <2>3, <2>4 DEF Tiled
<1>9. \A a \in Linked(h) : g.link[a] = h.link[a] /\ Behind(g, a) = Behind(h, a)
  BY <1>1, <1>2, <1>7 DEF Linked
<1>10. InOrder(g)
  <2>1. xStart \in Linked(h) /\ \A a \in Listed(h) : a \in Linked(h)
    BY ShapeFacts DEF Listed
  <2>2. QED BY <1>6, <1>9, <2>1 DEF InOrder
<1>11. Bytes(g, Listed(g)) = Bytes(h, Listed(h))
  <2>1. \A a \in Listed(h) : Behind(g, a) = Behind(h, a)
    BY <1>9 DEF Listed
  <2>2. QED BY <1>6, <2>1 DEF Bytes
<1>12. QED BY <1>1, <1>2, <1>3, <1>5, <1>6, <1>8, <1>10, <1>11

\* vPortFree finds the block of a pointer that the task holds marked as in use,
\* and nobody else then holds it.
LEMMA FreeMarksKeeps ==
  ASSUME HeapInv, NEW t \in Client, FreeMarks(t)
  PROVE  HeapInv'
<1>1. /\ MayCall(t) /\ ucHeap' = ucHeap
      /\ \E x \in holds[t] :
       LET b == x.at - xHeapStructSize
       IN /\ holds' = [holds EXCEPT ![t] = @ \ {x}]
          /\ IF ~InHeap(b) \/ b \notin DOMAIN heap.link \/ heap.link[b].alloc = 0 \/ heap.link[b].next # Null
             THEN halted' = "!ASSERT" /\ UNCHANGED <<heap, doing>>
             ELSE /\ heap' = [heap EXCEPT !.link[b].alloc = 0]
                  /\ doing' = [doing EXCEPT ![t] = [op |-> "free", at |-> b, size |-> x.size]]
                  /\ UNCHANGED halted
  BY DEF FreeMarks
<1>2. PICK x \in holds[t] :
       LET b == x.at - xHeapStructSize
       IN /\ holds' = [holds EXCEPT ![t] = @ \ {x}]
          /\ IF ~InHeap(b) \/ b \notin DOMAIN heap.link \/ heap.link[b].alloc = 0 \/ heap.link[b].next # Null
             THEN halted' = "!ASSERT" /\ UNCHANGED <<heap, doing>>
             ELSE /\ heap' = [heap EXCEPT !.link[b].alloc = 0]
                  /\ doing' = [doing EXCEPT ![t] = [op |-> "free", at |-> b, size |-> x.size]]
                  /\ UNCHANGED halted
  BY <1>1
<1>3. PICK h : h = heap
  OBVIOUS
<1>4. PICK b : b = BlockOf(x)
  OBVIOUS
<1>5. /\ ucHeap \in Bases /\ Tiled(h) /\ InOrder(h) /\ Owned(h) /\ Counted(h) /\ DOMAIN h = HeapFields
      /\ Up /\ halted = "no"
      /\ DOMAIN holds = Client /\ DOMAIN doing = Client /\ doing[t] = NoCall
      /\ \A u \in Client : doing[u] = NoCall \/ Freeing(u) \/ (doing[u].op = "failed" /\ doing[u].at = Null)
  <2>1. Up
    BY DEF HeapInv
  <2>2. QED BY <1>1, <1>3, <2>1 DEF HeapInv, CallsInv, MayCall, HeapFields
<1>6. /\ \A u \in Client : \A y \in holds[u] :
           /\ y \in [at : Nat, size : Nat] /\ BlockOf(y) \in Within(h)
           /\ h.link[BlockOf(y)].alloc = 1 /\ h.link[BlockOf(y)].next = Null
           /\ y.size + xHeapStructSize <= h.link[BlockOf(y)].size
      /\ \A u, v \in Client : \A y \in holds[u], z \in holds[v] : y.at = z.at => u = v /\ y = z
      /\ \A u \in Client : Freeing(u) =>
           /\ doing[u].at \in Within(h) /\ h.link[doing[u].at].alloc = 0 /\ h.link[doing[u].at].next = Null
           /\ \A v \in Client : Freeing(v) /\ doing[v].at = doing[u].at => u = v
      /\ \A c \in Within(h) \ Listed(h) :
           IF h.link[c].alloc = 1 THEN \E u \in Client : \E y \in holds[u] : BlockOf(y) = c
           ELSE \E u \in Client : Freeing(u) /\ doing[u].at = c
  BY <1>5 DEF Owned
<1>7. /\ b \in Within(h) \ Listed(h) /\ h.link[b].alloc = 1 /\ h.link[b].next = Null
      /\ b \in Nat /\ b \in DOMAIN h.link
  <2>1. b \in Within(h) /\ h.link[b].alloc = 1 /\ h.link[b].next = Null
    BY <1>4, <1>6
  <2>2. b \notin Linked(h)
    BY <2>1 DEF Linked
  <2>3. b \in Nat /\ b \in DOMAIN h.link
    BY <1>5, <2>1, ShapeFacts
  <2>4. QED BY <2>1, <2>2, <2>3 DEF Listed
<1>8. InHeap(b)
  <2>1. /\ b >= uxStartAddress /\ b < h.pxEnd /\ h.pxEnd = uxEndAddress
    BY <1>5, <1>7, ShapeFacts
  <2>2. /\ uxStartAddress \in Nat /\ uxStartAddress >= ucHeap /\ ucHeap \in Nat /\ uxEndAddress \in Nat
        /\ uxEndAddress + xHeapStructSize <= ucHeap + HeapSize /\ HeapSize \in Nat
        /\ xHeapStructSize \in Nat
    BY <1>5, HeapEnds, Struct, HeapAssumption
  <2>3. QED BY <1>7, <2>1, <2>2 DEF InHeap
<1>9. PICK g : g = heap'
  OBVIOUS
<1>10. /\ holds' = [holds EXCEPT ![t] = @ \ {x}]
       /\ g = [h EXCEPT !.link[b].alloc = 0]
       /\ doing' = [doing EXCEPT ![t] = [op |-> "free", at |-> b, size |-> x.size]]
       /\ halted' = halted
  BY <1>2, <1>3, <1>4, <1>7, <1>8, <1>9 DEF BlockOf
<1>11. /\ DOMAIN g = HeapFields /\ g.link = [h.link EXCEPT ![b].alloc = 0] /\ g.pxEnd = h.pxEnd
       /\ g.free = h.free /\ g.min = h.min /\ g.live = h.live
  BY <1>5, <1>10 DEF HeapFields
<1>12. /\ Tiled(g) /\ InOrder(g) /\ Within(g) = Within(h) /\ Listed(g) = Listed(h)
       /\ g.link[b] = Header(Null, h.link[b].size, 0)
       /\ \A c \in Within(h) \ {b} : g.link[c] = h.link[c]
       /\ Bytes(g, Listed(g)) = Bytes(h, Listed(h))
  <2>1. b \in Within(h) \ Listed(h) /\ h.link[b].next = Null /\ g.pxEnd = h.pxEnd
        /\ g.link = ClearBit(h.link, b)
    BY <1>7, <1>11 DEF ClearBit
  <2>2. QED BY <1>5, <2>1, Marked
<1>13. Counted(g)
  BY <1>5, <1>11, <1>12 DEF Counted
<1>14. /\ DOMAIN holds' = Client /\ DOMAIN doing' = Client
       /\ holds'[t] = holds[t] \ {x} /\ \A u \in Client \ {t} : holds'[u] = holds[u] /\ doing'[u] = doing[u]
       /\ doing'[t].op = "free" /\ doing'[t].at = b
       /\ Freeing(t)' /\ ~Freeing(t)
       /\ \A u \in Client \ {t} : Freeing(u)' <=> Freeing(u)
  <2>1. /\ DOMAIN holds' = Client /\ DOMAIN doing' = Client
        /\ holds'[t] = holds[t] \ {x} /\ \A u \in Client \ {t} : holds'[u] = holds[u] /\ doing'[u] = doing[u]
        /\ doing'[t].op = "free" /\ doing'[t].at = b
    BY <1>5, <1>10
  <2>2. QED BY <1>5, <2>1 DEF Freeing, NoCall
<1>15. g.link[b].alloc = 0 /\ g.link[b].next = Null
  BY <1>12 DEF Header
<1>16. \A u \in Client : \A y \in holds'[u] : y \in holds[u] /\ BlockOf(y) # b
  <2> SUFFICES ASSUME NEW u \in Client, NEW y \in holds'[u] PROVE y \in holds[u] /\ BlockOf(y) # b
    OBVIOUS
  <2>1. y \in holds[u] /\ (u = t => y # x)
    BY <1>14
  <2>2. y.at # x.at
    BY <1>6, <2>1
  <2>3. y.at \in Nat /\ x.at \in Nat /\ xHeapStructSize \in Nat
    BY <1>6, <2>1, Struct
  <2>4. QED BY <1>4, <2>1, <2>2, <2>3 DEF BlockOf
<1>17. \A u \in Client : \A y \in holds'[u] :
         /\ y \in [at : Nat, size : Nat] /\ BlockOf(y) \in Within(g)
         /\ g.link[BlockOf(y)].alloc = 1 /\ g.link[BlockOf(y)].next = Null
         /\ y.size + xHeapStructSize <= g.link[BlockOf(y)].size
  BY <1>6, <1>12, <1>16
<1>18. \A u, v \in Client : \A y \in holds'[u], z \in holds'[v] : y.at = z.at => u = v /\ y = z
  BY <1>6, <1>16
<1>19. \A u \in Client : Freeing(u)' =>
         /\ doing'[u].at \in Within(g) /\ g.link[doing'[u].at].alloc = 0 /\ g.link[doing'[u].at].next = Null
         /\ \A v \in Client : Freeing(v)' /\ doing'[v].at = doing'[u].at => u = v
  <2>1. \A u \in Client \ {t} : Freeing(u)' =>
          /\ doing'[u].at \in Within(g) /\ g.link[doing'[u].at].alloc = 0 /\ g.link[doing'[u].at].next = Null
          /\ doing'[u].at # b
    <3> SUFFICES ASSUME NEW u \in Client \ {t}, Freeing(u)'
                 PROVE  /\ doing'[u].at \in Within(g) /\ g.link[doing'[u].at].alloc = 0
                        /\ g.link[doing'[u].at].next = Null /\ doing'[u].at # b
      OBVIOUS
    <3>1. Freeing(u) /\ doing'[u] = doing[u]
      BY <1>14
    <3>2. doing[u].at \in Within(h) /\ h.link[doing[u].at].alloc = 0 /\ h.link[doing[u].at].next = Null
      BY <1>6, <3>1
    <3> DEFINE c == doing[u].at
    <3>3. c \in Within(h) /\ c # b
      BY <1>7, <3>2
    <3>4. c \in Within(g) /\ g.link[c] = h.link[c]
      <4> HIDE DEF c
      <4>1. QED BY <1>12, <3>3
    <3>5. h.link[c].alloc = 0 /\ h.link[c].next = Null /\ doing'[u].at = c
      BY <3>1, <3>2
    <3>6. QED BY <3>3, <3>4, <3>5
  <2>2. ASSUME NEW u \in Client, NEW v \in Client, Freeing(u)', Freeing(v)', doing'[v].at = doing'[u].at
        PROVE  u = v
    <3>1. CASE u # t /\ v # t
      BY <1>6, <1>14, <2>2, <3>1
    <3>2. CASE u = t \/ v = t
      BY <1>14, <2>1, <2>2, <3>2
    <3>3. QED BY <3>1, <3>2
  <2>3. QED BY <1>7, <1>12, <1>14, <1>15, <2>1, <2>2
<1>20. \A c \in Within(g) \ Listed(g) :
         IF g.link[c].alloc = 1 THEN \E u \in Client : \E y \in holds'[u] : BlockOf(y) = c
         ELSE \E u \in Client : Freeing(u)' /\ doing'[u].at = c
  <2> SUFFICES ASSUME NEW c \in Within(g) \ Listed(g)
               PROVE  IF g.link[c].alloc = 1 THEN \E u \in Client : \E y \in holds'[u] : BlockOf(y) = c
                      ELSE \E u \in Client : Freeing(u)' /\ doing'[u].at = c
    OBVIOUS
  <2>1. CASE c = b
    BY <1>14, <1>15, <2>1
  <2>2. CASE c # b
    <3>1. c \in Within(h) \ Listed(h) /\ g.link[c] = h.link[c]
      BY <1>12, <2>2
    <3>2. CASE h.link[c].alloc = 1
      <4>1. PICK u \in Client : \E y \in holds[u] : BlockOf(y) = c
        BY <1>6, <3>1, <3>2
      <4>2. PICK y \in holds[u] : BlockOf(y) = c
        BY <4>1
      <4>3. y \in holds'[u]
        BY <1>4, <1>14, <2>2, <4>2
      <4>4. QED BY <3>1, <3>2, <4>2, <4>3
    <3>3. CASE h.link[c].alloc # 1
      <4>1. PICK u \in Client : Freeing(u) /\ doing[u].at = c
        BY <1>6, <3>1, <3>3
      <4>2. u # t
        BY <1>14, <4>1
      <4>3. QED BY <1>14, <3>1, <3>3, <4>1, <4>2
    <3>4. QED BY <3>2, <3>3
  <2>3. QED BY <2>1, <2>2
<1>21. Owned(heap)'
  BY <1>9, <1>17, <1>18, <1>19, <1>20 DEF Owned
<1>22. CallsInv'
  <2>1. \A u \in Client : doing'[u] = NoCall \/ Freeing(u)' \/ (doing'[u].op = "failed" /\ doing'[u].at = Null)
    BY <1>5, <1>14
  <2>2. ucHeap' \in Bases /\ halted' \in {"no", "!HEAP"}
    BY <1>1, <1>5, <1>10
  <2>3. QED BY <1>14, <2>1, <2>2 DEF CallsInv
<1>23. Tiled(heap)' /\ InOrder(heap)' /\ Counted(heap)' /\ Up' /\ DOMAIN heap' = HeapFields
  <2>1. Tiled(heap)'
    <3>1. heap' = g /\ ucHeap' = ucHeap /\ Tiled(g)
      BY <1>1, <1>9, <1>12
    <3>2. QED BY <3>1, SamePlace
  <2>2. InOrder(heap)' /\ Counted(heap)' /\ DOMAIN heap' = HeapFields
    BY <1>9, <1>11, <1>12, <1>13
  <2>3. Up'
    BY <1>5, <1>9, <1>12, TiledIsUp DEF Up
  <2>4. QED BY <2>1, <2>2, <2>3
<1>24. QED BY <1>21, <1>22, <1>23 DEF HeapInv, HeapFields

\* The block goes back into the free list, and the other blocks stay with their
\* owners.
LEMMA FreeInsertsKeeps ==
  ASSUME HeapInv, NEW t \in Client, FreeInserts(t)
  PROVE  HeapInv'
<1>1. PICK b : b = doing[t].at
  OBVIOUS
<1>2. PICK h : h = heap
  OBVIOUS
<1>3. PICK g : g = heap'
  OBVIOUS
<1>4. /\ Freeing(t) /\ halted = "no" /\ ucHeap' = ucHeap /\ holds' = holds /\ halted' = halted
      /\ doing' = [doing EXCEPT ![t] = NoCall]
      /\ g = [h EXCEPT !.link = prvInsertBlockIntoFreeList(h, b),
                       !.free = @ + h.link[b].size, !.live = @ - 1]
  BY <1>1, <1>2, <1>3 DEF FreeInserts, FreeBlock, Freeing
<1>5. /\ ucHeap \in Bases /\ Tiled(h) /\ InOrder(h) /\ Owned(h) /\ Counted(h) /\ DOMAIN h = HeapFields
      /\ DOMAIN holds = Client /\ DOMAIN doing = Client
      /\ \A u \in Client : doing[u] = NoCall \/ Freeing(u) \/ (doing[u].op = "failed" /\ doing[u].at = Null)
  <2>1. doing[t] # NoCall
    BY <1>4 DEF Freeing, NoCall
  <2>2. Up
    BY <2>1 DEF HeapInv
  <2>3. QED BY <1>2, <2>2 DEF HeapInv, CallsInv, HeapFields
<1>6. /\ \A u \in Client : \A y \in holds[u] :
           /\ y \in [at : Nat, size : Nat] /\ BlockOf(y) \in Within(h)
           /\ h.link[BlockOf(y)].alloc = 1 /\ h.link[BlockOf(y)].next = Null
           /\ y.size + xHeapStructSize <= h.link[BlockOf(y)].size
      /\ \A u, v \in Client : \A y \in holds[u], z \in holds[v] : y.at = z.at => u = v /\ y = z
      /\ \A u \in Client : Freeing(u) =>
           /\ doing[u].at \in Within(h) /\ h.link[doing[u].at].alloc = 0 /\ h.link[doing[u].at].next = Null
           /\ \A v \in Client : Freeing(v) /\ doing[v].at = doing[u].at => u = v
      /\ \A c \in Within(h) \ Listed(h) :
           IF h.link[c].alloc = 1 THEN \E u \in Client : \E y \in holds[u] : BlockOf(y) = c
           ELSE \E u \in Client : Freeing(u) /\ doing[u].at = c
  BY <1>5 DEF Owned
<1>7. \A c \in Within(h) : h.link[c].next = Null => c \in Within(h) \ Listed(h)
  BY DEF Listed, Linked
<1>8. /\ b \in Within(h) \ Listed(h) /\ h.link[b] = Header(Null, h.link[b].size, 0)
      /\ b \in Nat /\ h.link[b].size \in Nat /\ h.link[b].size > 0 /\ h.link[b].alloc = 0
  <2>1. b \in Within(h) /\ h.link[b].alloc = 0 /\ h.link[b].next = Null
    BY <1>1, <1>4, <1>6
  <2>2. /\ h.link[b] = Header(h.link[b].next, h.link[b].size, h.link[b].alloc)
        /\ b \in Nat /\ h.link[b].size \in Nat /\ h.link[b].size > 0
    BY <1>5, <2>1, ShapeFacts
  <2>3. QED BY <1>7, <2>1, <2>2
<1>9. /\ DOMAIN g = HeapFields /\ g.link = prvInsertBlockIntoFreeList(h, b) /\ g.pxEnd = h.pxEnd
      /\ g.free = h.free + h.link[b].size /\ g.min = h.min /\ g.live = h.live - 1
  BY <1>4, <1>5 DEF HeapFields
<1>10. /\ Tiled(g) /\ InOrder(g) /\ Listed(g) \subseteq Within(g)
       /\ Within(g) \ Listed(g) = (Within(h) \ Listed(h)) \ {b}
       /\ \A c \in (Within(h) \ Listed(h)) \ {b} : g.link[c] = h.link[c]
       /\ Bytes(g, Listed(g)) = Bytes(h, Listed(h)) \cup (b .. Behind(h, b) - 1)
       /\ Bytes(h, Listed(h)) \cap (b .. Behind(h, b) - 1) = {}
  BY <1>5, <1>8, <1>9, Inserted
<1>11. Counted(g)
  <2> DEFINE A == Bytes(h, Listed(h))
             I == b .. Behind(h, b) - 1
             U == Within(h) \ Listed(h)
  <2>1. IsFiniteSet(A) /\ Cardinality(A) = h.free /\ h.free \in Nat
    <3>1. Listed(h) \in SUBSET Within(h)
      BY <1>5, ShapeFacts
    <3>2. QED BY <1>5, <3>1, BytesFinite DEF Counted
  <2>2. IsFiniteSet(I) /\ Cardinality(I) = h.link[b].size
    <3>1. Behind(h, b) = b + h.link[b].size
      BY DEF Behind
    <3> DEFINE e == Behind(h, b) - 1
    <3>2. b \in Int /\ e \in Int /\ ~(b > e) /\ e - b + 1 = h.link[b].size
      BY <1>8, <3>1
    <3> HIDE DEF e
    <3>3. IsFiniteSet(b .. e) /\ Cardinality(b .. e) = IF b > e THEN 0 ELSE e - b + 1
      BY <3>2, FS_Interval
    <3>4. QED BY <3>2, <3>3 DEF e
  <2>3. Cardinality(A \cup I) = Cardinality(A) + Cardinality(I) - Cardinality(A \cap I)
    BY <2>1, <2>2, FS_Union
  <2>4. Cardinality(A \cap I) = 0
    BY <1>10, FS_EmptySet
  <2>5. Cardinality(Bytes(g, Listed(g))) = h.free + h.link[b].size
    BY <1>8, <1>10, <2>1, <2>2, <2>3, <2>4
  <2>6. IsFiniteSet(U) /\ b \in U
    BY <1>5, <1>8, UsedFinite
  <2>7. Cardinality(U \ {b}) = Cardinality(U) - 1
    <3> HIDE DEF U
    <3>1. QED BY <2>6, FS_RemoveElement
  <2>8. h.min \in Nat /\ h.min <= h.free /\ h.live = Cardinality(U)
    BY <1>5 DEF Counted
  <2>9. g.live = Cardinality(Within(g) \ Listed(g))
    BY <1>9, <1>10, <2>7, <2>8
  <2>10. g.free = Cardinality(Bytes(g, Listed(g))) /\ g.min \in Nat /\ g.min <= g.free
    BY <1>8, <1>9, <2>1, <2>5, <2>8
  <2>11. QED BY <2>9, <2>10 DEF Counted
<1>12. /\ DOMAIN doing' = Client /\ doing'[t] = NoCall /\ ~Freeing(t)'
       /\ \A u \in Client \ {t} : doing'[u] = doing[u] /\ (Freeing(u)' <=> Freeing(u))
  <2>1. /\ DOMAIN doing' = Client /\ doing'[t] = NoCall /\ \A u \in Client \ {t} : doing'[u] = doing[u]
    BY <1>4, <1>5
  <2>2. QED BY <2>1 DEF Freeing, NoCall
<1>13. \A u \in Client : \A y \in holds[u] :
         /\ BlockOf(y) \in Within(g) /\ g.link[BlockOf(y)] = h.link[BlockOf(y)]
  <2> SUFFICES ASSUME NEW u \in Client, NEW y \in holds[u]
               PROVE  BlockOf(y) \in Within(g) /\ g.link[BlockOf(y)] = h.link[BlockOf(y)]
    OBVIOUS
  <2>1. BlockOf(y) \in Within(h) /\ h.link[BlockOf(y)].alloc = 1 /\ h.link[BlockOf(y)].next = Null
    BY <1>6
  <2>2. BlockOf(y) \in Within(h) \ Listed(h)
    BY <1>7, <2>1
  <2>3. BlockOf(y) # b
    BY <1>8, <2>1
  <2>4. QED BY <1>10, <2>2, <2>3
<1>14. \A u \in Client \ {t} : Freeing(u) =>
         doing[u].at \in Within(g) /\ g.link[doing[u].at] = h.link[doing[u].at]
  <2> SUFFICES ASSUME NEW u \in Client \ {t}, Freeing(u)
               PROVE  doing[u].at \in Within(g) /\ g.link[doing[u].at] = h.link[doing[u].at]
    OBVIOUS
  <2>1. doing[u].at \in Within(h) \ Listed(h) /\ doing[u].at # b
    BY <1>1, <1>4, <1>6, <1>7
  <2>2. QED BY <1>10, <2>1
<1>15. \A c \in Within(g) \ Listed(g) :
         IF g.link[c].alloc = 1 THEN \E u \in Client : \E y \in holds[u] : BlockOf(y) = c
         ELSE \E u \in Client : Freeing(u)' /\ doing'[u].at = c
  <2> SUFFICES ASSUME NEW c \in Within(g) \ Listed(g)
               PROVE  IF g.link[c].alloc = 1 THEN \E u \in Client : \E y \in holds[u] : BlockOf(y) = c
                      ELSE \E u \in Client : Freeing(u)' /\ doing'[u].at = c
    OBVIOUS
  <2>1. c \in Within(h) \ Listed(h) /\ c # b /\ g.link[c] = h.link[c]
    BY <1>10
  <2>2. CASE h.link[c].alloc = 1
    BY <1>6, <2>1, <2>2
  <2>3. CASE h.link[c].alloc # 1
    <3>1. PICK u \in Client : Freeing(u) /\ doing[u].at = c
      BY <1>6, <2>1, <2>3
    <3>2. u # t
      BY <1>1, <2>1, <3>1
    <3>3. QED BY <1>12, <2>1, <2>3, <3>1, <3>2
  <2>4. QED BY <2>2, <2>3
<1>16. \A u \in Client : Freeing(u)' =>
         /\ doing'[u].at \in Within(g) /\ g.link[doing'[u].at].alloc = 0 /\ g.link[doing'[u].at].next = Null
         /\ \A v \in Client : Freeing(v)' /\ doing'[v].at = doing'[u].at => u = v
  BY <1>6, <1>12, <1>14
<1>17. \A u \in Client : \A y \in holds[u] :
         /\ y \in [at : Nat, size : Nat] /\ BlockOf(y) \in Within(g)
         /\ g.link[BlockOf(y)].alloc = 1 /\ g.link[BlockOf(y)].next = Null
         /\ y.size + xHeapStructSize <= g.link[BlockOf(y)].size
  BY <1>6, <1>13
<1>18. Owned(heap)'
  BY <1>3, <1>4, <1>6, <1>15, <1>16, <1>17 DEF Owned
<1>19. CallsInv'
  <2>1. \A u \in Client : doing'[u] = NoCall \/ Freeing(u)' \/ (doing'[u].op = "failed" /\ doing'[u].at = Null)
    BY <1>5, <1>12
  <2>2. ucHeap' \in Bases /\ halted' \in {"no", "!HEAP"} /\ DOMAIN holds' = Client
    BY <1>4, <1>5
  <2>3. QED BY <1>12, <2>1, <2>2 DEF CallsInv
<1>20. Tiled(heap)' /\ InOrder(heap)' /\ Counted(heap)' /\ Up' /\ DOMAIN heap' = HeapFields
  <2>1. Tiled(heap)'
    <3>1. heap' = g /\ ucHeap' = ucHeap /\ Tiled(g)
      BY <1>3, <1>4, <1>10
    <3>2. QED BY <3>1, SamePlace
  <2>2. InOrder(heap)' /\ Counted(heap)' /\ DOMAIN heap' = HeapFields
    BY <1>3, <1>9, <1>10, <1>11
  <2>3. Up'
    BY <1>3, <1>5, <1>10, TiledIsUp DEF Up
  <2>4. QED BY <2>1, <2>2, <2>3
<1>21. QED BY <1>18, <1>19, <1>20 DEF HeapInv, HeapFields

\* Before the first call nothing is set up and nothing is handed out.
LEMMA InitIsSound == HeapInit => HeapInv
<1> SUFFICES ASSUME HeapInit PROVE HeapInv
  OBVIOUS
<1>1. /\ heap = Empty /\ ucHeap \in Bases /\ halted = "no"
      /\ holds = [t \in Client |-> {}] /\ doing = [t \in Client |-> NoCall]
  BY DEF HeapInit
<1>2. /\ DOMAIN holds = Client /\ DOMAIN doing = Client
      /\ \A t \in Client : holds[t] = {} /\ doing[t] = NoCall
  BY <1>1
<1>3. heap.pxEnd = Null /\ DOMAIN heap = {"link", "pxEnd", "free", "min", "live"}
  BY <1>1 DEF Empty
<1>4. CallsInv
  BY <1>1, <1>2 DEF CallsInv
<1>5. ~Up
  BY <1>3 DEF Up
<1>6. QED BY <1>1, <1>2, <1>3, <1>4, <1>5 DEF HeapInv

\* What vPortHeapResetState leaves is the heap before the first call.
LEMMA ResetKeeps ==
  ASSUME HeapInv, vPortHeapResetState
  PROVE  HeapInv'
<1>1. /\ heap' = Empty /\ holds' = [t \in Client |-> {}] /\ ucHeap' = ucHeap /\ doing' = doing
      /\ halted' = halted /\ \A t \in Client : doing[t] = NoCall
  BY DEF vPortHeapResetState, MayCall
<1>2. ucHeap \in Bases /\ halted \in {"no", "!HEAP"} /\ DOMAIN doing = Client
  BY DEF HeapInv, CallsInv
<1>3. /\ DOMAIN holds' = Client /\ DOMAIN doing' = Client
      /\ \A t \in Client : holds'[t] = {} /\ doing'[t] = NoCall
  BY <1>1, <1>2
<1>4. heap'.pxEnd = Null /\ DOMAIN heap' = {"link", "pxEnd", "free", "min", "live"}
  BY <1>1 DEF Empty
<1>5. CallsInv'
  BY <1>1, <1>2, <1>3 DEF CallsInv
<1>6. ~Up'
  BY <1>4 DEF Up
<1>7. QED BY <1>1, <1>3, <1>4, <1>5, <1>6 DEF HeapInv

\* The hook for a failed pvPortMalloc stops the hart and changes nothing else.
LEMMA FailedKeeps ==
  ASSUME HeapInv, NEW t \in Client, vApplicationMallocFailedHook(t)
  PROVE  HeapInv'
<1>1. /\ ucHeap' = ucHeap /\ heap' = heap /\ holds' = holds /\ doing' = doing /\ halted' = "!HEAP"
  BY DEF vApplicationMallocFailedHook
<1>2. CallsInv'
  BY <1>1 DEF HeapInv, CallsInv, Freeing
<1>3. CASE Up
  <2>1. Tiled(heap) /\ InOrder(heap) /\ Owned(heap) /\ Counted(heap)
    BY <1>3 DEF HeapInv
  <2>2. Tiled(heap)'
    BY <1>1, <2>1, SamePlace
  <2>3. Owned(heap)'
    BY <1>1, <2>1 DEF Owned, Freeing
  <2>4. InOrder(heap)' /\ Counted(heap)' /\ Up'
    BY <1>1, <1>3, <2>1 DEF Up
  <2>5. QED BY <1>1, <1>2, <2>2, <2>3, <2>4 DEF HeapInv
<1>4. CASE ~Up
  <2>1. heap' = Empty /\ ~Up' /\ \A u \in Client : holds'[u] = {} /\ doing'[u] = NoCall
    BY <1>1, <1>4 DEF HeapInv, Up
  <2>2. QED BY <1>1, <1>2, <2>1 DEF HeapInv
<1>5. QED BY <1>3, <1>4

\* A size and a product of two sizes are natural numbers.
LEMMA AskedFor ==
  /\ \A n \in Requests : n \in Nat
  /\ \A a \in Arrays : a[1] * a[2] \in Nat
<1>1. SizeMod \in Nat /\ Requests \subseteq 0 .. SizeMod - 1
  BY HeapAssumption
<1>2. Arrays \subseteq (0 .. SizeMod - 1) \X (0 .. SizeMod - 1)
  BY HeapAssumption
<1>3. ASSUME NEW a \in Arrays PROVE a[1] * a[2] \in Nat
  <2>1. a[1] \in 0 .. SizeMod - 1 /\ a[2] \in 0 .. SizeMod - 1
    BY <1>2
  <2>2. a[1] \in Nat /\ a[2] \in Nat
    BY <1>1, <2>1
  <2>3. QED BY <2>2
<1>4. QED BY <1>1, <1>3

\* Every step of a task, and a restart of the scheduler, keeps the invariant.
LEMMA HeapStep == HeapInv /\ [HeapNext]_heapVars => HeapInv'
<1> SUFFICES ASSUME HeapInv, [HeapNext]_heapVars PROVE HeapInv'
  OBVIOUS
<1>1. CASE vPortHeapResetState
  BY <1>1, ResetKeeps
<1>2. ASSUME NEW t \in Client, Malloc(t) PROVE HeapInv'
  <2>1. MayCall(t)
    BY <1>2 DEF Malloc
  <2>2. PICK n \in Requests : Gets(t, n)
    BY <1>2 DEF Malloc
  <2>3. n \in Nat
    BY <2>2, AskedFor
  <2>4. QED BY <2>1, <2>2, <2>3, GetsKeeps
<1>3. CASE UNCHANGED heapVars
  <2>1. /\ ucHeap' = ucHeap /\ heap' = heap /\ holds' = holds /\ doing' = doing /\ halted' = halted
    BY <1>3 DEF heapVars
  <2>2. CallsInv'
    BY <2>1 DEF HeapInv, CallsInv, Freeing
  <2>3. CASE Up
    <3>1. Tiled(heap) /\ InOrder(heap) /\ Owned(heap) /\ Counted(heap)
      BY <2>3 DEF HeapInv
    <3>2. Tiled(heap)'
      BY <2>1, <3>1, SamePlace
    <3>3. Owned(heap)'
      BY <2>1, <3>1 DEF Owned, Freeing
    <3>4. InOrder(heap)' /\ Counted(heap)' /\ Up'
      BY <2>1, <2>3, <3>1 DEF Up
    <3>5. QED BY <2>1, <2>2, <3>2, <3>3, <3>4 DEF HeapInv
  <2>4. CASE ~Up
    <3>1. heap' = Empty /\ ~Up' /\ \A u \in Client : holds'[u] = {} /\ doing'[u] = NoCall
      BY <2>1, <2>4 DEF HeapInv, Up
    <3>2. QED BY <2>1, <2>2, <3>1 DEF HeapInv
  <2>5. QED BY <2>3, <2>4
<1>4. ASSUME NEW t \in Client, Calloc(t) PROVE HeapInv'
  <2>1. MayCall(t)
    BY <1>4 DEF Calloc
  <2>2. PICK a \in Arrays :
          IF a[1] > 0 /\ a[2] > (SizeMod - 1) \div a[1] THEN UNCHANGED heapVars ELSE Gets(t, a[1] * a[2])
    BY <1>4 DEF Calloc
  <2>3. CASE UNCHANGED heapVars
    BY <1>3, <2>3
  <2>4. CASE Gets(t, a[1] * a[2])
    <3>1. PICK n \in Nat : n = a[1] * a[2]
      BY <2>2, AskedFor
    <3>2. Gets(t, n)
      BY <2>4, <3>1
    <3>3. QED BY <2>1, <3>2, GetsKeeps
  <2>5. QED BY <2>2, <2>3, <2>4
<1>5. ASSUME NEW t \in Client, FreeMarks(t) PROVE HeapInv'
  BY <1>5, FreeMarksKeeps
<1>6. ASSUME NEW t \in Client, FreeInserts(t) PROVE HeapInv'
  BY <1>6, FreeInsertsKeeps
<1>7. ASSUME NEW t \in Client, vApplicationMallocFailedHook(t) PROVE HeapInv'
  BY <1>7, FailedKeeps
<1>8. QED BY <1>1, <1>2, <1>3, <1>4, <1>5, <1>6, <1>7 DEF HeapNext

\* In every state the headers are sound and every block has its owner.
LEMMA HeapInvariant == HeapSpec => []HeapInv
<1>1. HeapInit => HeapInv
  BY InitIsSound
<1>2. HeapInv /\ [HeapNext]_heapVars => HeapInv'
  BY HeapStep
<1>3. QED BY <1>1, <1>2, PTL DEF HeapSpec

-----------------------------------------------------------------------------
(* What the invariant says of the heap *)

\* The blocks that are neither held nor being freed are those of the free list.
LEMMA FreeAreListed ==
  ASSUME HeapInv, Up
  PROVE  /\ ucHeap \in Bases /\ Tiled(heap) /\ InOrder(heap) /\ Owned(heap) /\ Counted(heap)
         /\ Blocks = Within(heap) /\ FreeBlocks = Listed(heap)
<1>1. ucHeap \in Bases /\ Tiled(heap) /\ InOrder(heap) /\ Owned(heap) /\ Counted(heap)
  BY DEF HeapInv, CallsInv
<1>2. Blocks = Within(heap)
  BY DEF Blocks, Within
<1>3. ASSUME NEW b \in FreeBlocks PROVE b \in Listed(heap)
  <2>1. b \in Within(heap) /\ heap.link[b].alloc = 0 /\ \A t \in Client : doing[t].at # b
    BY <1>2, <1>3 DEF FreeBlocks
  <2>2. ASSUME b \notin Listed(heap) PROVE FALSE
    <3>1. PICK t \in Client : Freeing(t) /\ doing[t].at = b
      BY <1>1, <2>1, <2>2 DEF Owned
    <3>2. QED BY <2>1, <3>1
  <2>3. QED BY <2>2
<1>4. ASSUME NEW b \in Listed(heap) PROVE b \in FreeBlocks
  <2>1. b \in Linked(heap) /\ b \in Within(heap) /\ heap.link[b].next # Null
    BY <1>1, ShapeFacts DEF Listed, Linked
  <2>2. heap.link[b].alloc = 0 /\ b \in Nat
    BY <1>1, <2>1, ShapeFacts DEF InOrder
  <2>3. ASSUME NEW t \in Client PROVE doing[t].at # b
    <3>1. CASE Freeing(t)
      <4>1. heap.link[doing[t].at].next = Null
        BY <1>1, <3>1 DEF Owned
      <4>2. QED BY <2>1, <4>1
    <3>2. CASE ~Freeing(t)
      <4>1. doing[t].at = Null
        BY <3>2 DEF HeapInv, CallsInv, NoCall
      <4>2. QED BY <2>2, <4>1 DEF Null
    <3>3. QED BY <3>1, <3>2
  <2>4. QED BY <1>2, <2>1, <2>2, <2>3 DEF FreeBlocks
<1>5. QED BY <1>1, <1>2, <1>3, <1>4

\* The headers, the counters and the calls keep their types.
LEMMA TypesHold == HeapInv => TypeOK
<1> SUFFICES ASSUME HeapInv PROVE TypeOK
  OBVIOUS
<1>1. /\ ucHeap \in Bases /\ halted \in {"no", "!HEAP"}
      /\ \A t \in Client : doing[t].op \in {"none", "free", "failed"}
  BY DEF HeapInv, CallsInv, NoCall, Freeing
<1>2. CASE Up
  <2>1. /\ Tiled(heap) /\ InOrder(heap) /\ Owned(heap) /\ Counted(heap)
    BY <1>2 DEF HeapInv
  <2>2. heap.pxEnd \in Nat
    BY <1>1, <2>1, TiledIsUp
  <2>3. \A a \in DOMAIN heap.link : heap.link[a] \in [next : {Null} \cup Nat, size : Nat, alloc : {0, 1}]
    <3>1. \A a \in Within(heap) : heap.link[a] \in [next : {Null} \cup Nat, size : Nat, alloc : {0, 1}]
      BY <2>1 DEF Tiled
    <3>2. heap.link[xStart] \in [next : {Null} \cup Nat, size : Nat, alloc : {0, 1}]
      BY <2>1 DEF InOrder
    <3>3. heap.link[heap.pxEnd] \in [next : {Null} \cup Nat, size : Nat, alloc : {0, 1}]
      BY <2>1 DEF Tiled, Header
    <3>4. QED BY <3>1, <3>2, <3>3 DEF Within
  <2>4. heap.free \in Nat /\ heap.min \in Nat
    <3>1. Listed(heap) \in SUBSET Within(heap)
      BY <1>1, <2>1, ShapeFacts
    <3>2. QED BY <1>1, <2>1, <3>1, BytesFinite DEF Counted
  <2>5. heap.live \in Nat
    <3>1. IsFiniteSet(Within(heap) \ Listed(heap))
      BY <2>1, UsedFinite
    <3>2. QED BY <2>1, <3>1, FS_CardinalityType DEF Counted
  <2>6. \A t \in Client : \A r \in holds[t] : r \in [at : Nat, size : Nat]
    BY <2>1 DEF Owned
  <2>7. QED BY <1>1, <2>2, <2>3, <2>4, <2>5, <2>6 DEF TypeOK
<1>3. CASE ~Up
  <2>1. heap = Empty /\ \A t \in Client : holds[t] = {}
    BY <1>3 DEF HeapInv
  <2>2. DOMAIN heap.link = {} /\ heap.pxEnd = Null /\ heap.free = 0 /\ heap.min = 0 /\ heap.live = 0
    BY <2>1 DEF Empty
  <2>3. QED BY <1>1, <2>1, <2>2 DEF TypeOK
<1>4. QED BY <1>2, <1>3

\* Each block starts where another ends, from the first aligned byte to the end
\* marker.
LEMMA BlocksDoTile == HeapInv => BlocksTile
<1> SUFFICES ASSUME HeapInv, Up
             PROVE  /\ \A b \in Blocks : heap.link[b].size >= xHeapStructSize
                    /\ {End(b) : b \in Blocks} \cup {uxStartAddress} = Blocks \cup {heap.pxEnd}
  BY DEF BlocksTile
<1>1. /\ ucHeap \in Bases /\ Tiled(heap) /\ Blocks = Within(heap)
  BY FreeAreListed
<1>2. \A b : End(b) = Behind(heap, b)
  BY DEF End, Behind
<1>3. \A b \in Blocks : heap.link[b].size >= xHeapStructSize
  BY <1>1 DEF Tiled
<1>4. /\ uxStartAddress \in Within(heap)
      /\ \A b \in Within(heap) : Behind(heap, b) \in Within(heap) \cup {heap.pxEnd}
      /\ \A c \in Within(heap) \cup {heap.pxEnd} :
           c = uxStartAddress \/ \E a \in Within(heap) : Behind(heap, a) = c
  BY <1>1 DEF Tiled
<1>5. QED BY <1>1, <1>2, <1>3, <1>4

\* Following pxNextFreeBlock from xStart meets every free block, and no two of
\* them touch.
LEMMA FreeListInOrder == HeapInv => FreeListIsOrdered
<1> SUFFICES ASSUME HeapInv, Up
             PROVE  /\ {heap.link[b].next : b \in FreeBlocks \cup {xStart}} = FreeBlocks \cup {heap.pxEnd}
                    /\ \A b \in FreeBlocks : heap.link[b].next > End(b) \/ heap.link[b].next = heap.pxEnd
  BY DEF FreeListIsOrdered
<1>1. ucHeap \in Bases /\ Tiled(heap) /\ InOrder(heap) /\ FreeBlocks = Listed(heap)
  BY FreeAreListed
<1>2. Listed(heap) \cup {xStart} = Linked(heap)
  BY <1>1, ShapeFacts DEF Listed
<1>3. \A a \in Linked(heap) : heap.link[a].next \in Listed(heap) \cup {heap.pxEnd}
  BY <1>1, ShapeFacts
<1>4. \A b \in Listed(heap) \cup {heap.pxEnd} : \E a \in Linked(heap) : heap.link[a].next = b
  <2> SUFFICES ASSUME NEW b \in Listed(heap) \cup {heap.pxEnd}
               PROVE  \E a \in Linked(heap) : heap.link[a].next = b
    OBVIOUS
  <2>1. \E a \in Linked(heap) : heap.link[a].next = b /\ a < b
    BY <1>1, HasPrevious
  <2>2. QED BY <2>1
<1>5. \A a \in Listed(heap) : heap.link[a].next > Behind(heap, a) \/ heap.link[a].next = heap.pxEnd
  BY <1>1 DEF InOrder
<1>6. QED BY <1>1, <1>2, <1>3, <1>4, <1>5 DEF End, Behind

\* xFreeBytesRemaining counts the bytes of the free blocks.
LEMMA BytesAreCounted == HeapInv => FreeBytesAreExact
<1> SUFFICES ASSUME HeapInv, Up
             PROVE  /\ heap.free = Cardinality(UNION {b .. End(b) - 1 : b \in FreeBlocks})
                    /\ heap.min <= heap.free
                    /\ heap.live = Cardinality(Blocks \ FreeBlocks)
  BY DEF FreeBytesAreExact
<1>1. Counted(heap) /\ Blocks = Within(heap) /\ FreeBlocks = Listed(heap)
  BY FreeAreListed
<1>2. Bytes(heap, Listed(heap)) = UNION {b .. End(b) - 1 : b \in FreeBlocks}
  BY <1>1 DEF Bytes, Behind, End
<1>3. QED BY <1>1, <1>2 DEF Counted

\* With nothing in use every block is in the free list, and two blocks in a row
\* would touch.
LEMMA WholeAgain == HeapInv => AllFreeIsWhole
<1> SUFFICES ASSUME HeapInv, Up, \A t \in Client : holds[t] = {} /\ doing[t].op # "free"
             PROVE  Blocks = {uxStartAddress} /\ heap.free = uxEndAddress - uxStartAddress
  BY DEF AllFreeIsWhole
<1> DEFINE h == heap
           s == uxStartAddress
<1>1. /\ ucHeap \in Bases /\ Tiled(h) /\ InOrder(h) /\ Owned(h) /\ Counted(h) /\ Blocks = Within(h)
  BY FreeAreListed
<1>2. Listed(h) = Within(h)
  <2>1. \A b \in Within(h) \ Listed(h) : FALSE
    BY <1>1 DEF Owned, Freeing
  <2>2. QED BY <1>1, <2>1, ShapeFacts
<1>3. s \in Within(h) /\ s \in Int
  BY <1>1, HeapEnds DEF Tiled
<1>4. ASSUME NEW b \in Within(h), b # s PROVE FALSE
  <2>1. PICK a \in Within(h) : Behind(h, a) = b
    BY <1>1, <1>4 DEF Tiled
  <2>2. a \in Nat /\ b \in Nat /\ a < b /\ b < h.pxEnd /\ h.pxEnd \in Nat /\ h.link[a].next \in Nat
    <3>1. a \in Nat /\ h.link[a].size \in Nat /\ h.link[a].size > 0 /\ b \in Nat /\ b < h.pxEnd /\ h.pxEnd \in Nat
      BY <1>1, <2>1, ShapeFacts
    <3>2. a \in Linked(h)
      BY <1>2, <2>1 DEF Listed
    <3>3. h.link[a].next \in Nat
      BY <1>1, <3>2, ShapeFacts
    <3>4. QED BY <2>1, <3>1, <3>3 DEF Behind
  <2>3. h.link[a].next > b \/ h.link[a].next = h.pxEnd
    BY <1>1, <1>2, <2>1 DEF InOrder
  <2>4. h.link[a].next <= b
    BY <1>1, <1>2, <1>4, <2>1, <2>2 DEF InOrder, Listed
  <2>5. QED BY <2>2, <2>3, <2>4
<1>5. Within(h) = {s}
  BY <1>3, <1>4
<1>6. Behind(h, s) = uxEndAddress
  <2>1. Behind(h, s) \in Within(h) \cup {h.pxEnd} /\ h.pxEnd = uxEndAddress
    BY <1>1, <1>3 DEF Tiled
  <2>2. Behind(h, s) # s
    <3>1. h.link[s].size \in Nat /\ h.link[s].size > 0
      BY <1>1, <1>3, ShapeFacts
    <3>2. QED BY <1>3, <3>1 DEF Behind
  <2>3. QED BY <1>5, <2>1, <2>2
<1>7. h.free = uxEndAddress - s
  <2>1. Listed(h) = {s} /\ Listed(h) \in SUBSET Within(h)
    BY <1>2, <1>5
  <2>2. Bytes(h, Listed(h)) = s .. Behind(h, s) - 1
    BY <2>1 DEF Bytes
  <2>3. Cardinality(s .. Behind(h, s) - 1) = h.link[s].size
    BY <1>1, <2>1, BytesFinite
  <2>4. h.link[s].size = uxEndAddress - s
    <3>1. h.link[s].size \in Nat /\ uxEndAddress \in Int
      BY <1>1, <1>3, ShapeFacts, HeapEnds
    <3>2. QED BY <1>3, <1>6, <3>1 DEF Behind
  <2>5. QED BY <1>1, <2>2, <2>3, <2>4 DEF Counted
<1>8. QED BY <1>1, <1>5, <1>7

(* The statistics of a set of free blocks, and what vPortGetHeapStats makes of *)
(* those of the blocks further on when it comes to a block of the given size.  *)
Sizes(h, B) == {h.link[c].size : c \in B}
Report(h, B) == [n |-> Cardinality(B),
                 max |-> IF B = {} THEN 0 ELSE Max(Sizes(h, B)),
                 min |-> IF B = {} THEN SizeMod - 1 ELSE Min(Sizes(h, B))]
Adds(r, s) == [n |-> r.n + 1, max |-> IF s > r.max THEN s ELSE r.max,
               min |-> IF s < r.min THEN s ELSE r.min]

\* A set of sizes has a largest and a smallest one.
LEMMA Extremes ==
  ASSUME NEW A, NEW bound \in Int, A # {}, \A a \in A : a \in Int /\ 0 <= a /\ a <= bound
  PROVE  /\ Max(A) \in A /\ \A a \in A : a <= Max(A)
         /\ Min(A) \in A /\ \A a \in A : Min(A) <= a
<1>1. \E a \in A : \A b \in A : b <= a
  BY HasMax
<1>2. \E a \in A : \A b \in A : a <= b
  <2>1. 0 \in Int /\ \A a \in A : a \in Int /\ a >= 0
    OBVIOUS
  <2>2. QED BY <2>1, HasMin
<1>3. \E a \in A : \A b \in A : a >= b
  BY <1>1
<1>4. Max(A) \in A /\ \A b \in A : Max(A) >= b
  BY <1>3 DEF Max
<1>5. Min(A) \in A /\ \A b \in A : Min(A) <= b
  BY <1>2 DEF Min
<1>6. QED BY <1>4, <1>5

\* One more free block adds its size to the statistics.
LEMMA ReportAdds ==
  ASSUME NEW h, NEW B, IsFiniteSet(B), NEW a, a \notin B,
         \A c \in B \cup {a} : h.link[c].size \in Nat /\ h.link[c].size <= SizeMod - 1
  PROVE  Report(h, B \cup {a}) = Adds(Report(h, B), h.link[a].size)
<1> DEFINE A == Sizes(h, B)
           s == h.link[a].size
           D == Sizes(h, B \cup {a})
<1>1. SizeMod \in Nat
  BY HeapAssumption
<1>2. Cardinality(B \cup {a}) = Cardinality(B) + 1
  BY FS_AddElement
<1>3. D = A \cup {s} /\ (B = {} <=> A = {}) /\ D # {} /\ B \cup {a} # {}
  BY DEF Sizes
<1>4. s \in Nat /\ s <= SizeMod - 1 /\ SizeMod - 1 \in Int
  BY <1>1
<1>5. \A d \in D : d \in Int /\ 0 <= d /\ d <= SizeMod - 1
  BY DEF Sizes
<1> HIDE DEF D, A, s
<1>6. /\ Max(D) \in D /\ \A d \in D : d <= Max(D)
      /\ Min(D) \in D /\ \A d \in D : Min(D) <= d
  BY <1>3, <1>4, <1>5, Extremes
<1>7. CASE B = {}
  <2>1. D = {s}
    BY <1>3, <1>7
  <2>2. Max(D) = s /\ Min(D) = s
    BY <1>6, <2>1
  <2>3. /\ Max(D) = IF s > 0 THEN s ELSE 0
        /\ Min(D) = IF s < SizeMod - 1 THEN s ELSE SizeMod - 1
    BY <1>1, <1>4, <2>2
  <2>4. QED BY <1>2, <1>3, <1>7, <2>3 DEF Report, Adds, D, A, s
<1>8. CASE B # {}
  <2>1. A # {} /\ \A d \in A : d \in Int /\ 0 <= d /\ d <= SizeMod - 1
    BY <1>3, <1>5, <1>8
  <2>2. /\ Max(A) \in A /\ \A d \in A : d <= Max(A)
        /\ Min(A) \in A /\ \A d \in A : Min(A) <= d
    BY <1>4, <2>1, Extremes
  <2> DEFINE maxD == Max(D)
             minD == Min(D)
             maxA == Max(A)
             minA == Min(A)
  <2>a. /\ maxD \in A \/ maxD = s
        /\ minD \in A \/ minD = s
        /\ s <= maxD /\ minD <= s /\ maxD \in Int /\ minD \in Int
    BY <1>3, <1>5, <1>6
  <2>b. /\ maxA \in Int /\ minA \in Int /\ maxA <= maxD /\ minD <= minA
        /\ maxD \in A => maxD <= maxA
        /\ minD \in A => minA <= minD
    BY <1>3, <1>6, <2>1, <2>2
  <2> HIDE DEF maxD, minD, maxA, minA
  <2>c. maxD = IF s > maxA THEN s ELSE maxA
    BY <1>4, <2>a, <2>b
  <2>d. minD = IF s < minA THEN s ELSE minA
    BY <1>4, <2>a, <2>b
  <2>3. Max(D) = IF s > Max(A) THEN s ELSE Max(A)
    BY <2>c DEF maxD, maxA
  <2>4. Min(D) = IF s < Min(A) THEN s ELSE Min(A)
    BY <2>d DEF minD, minA
  <2>5. QED BY <1>2, <1>3, <1>8, <2>3, <2>4 DEF Report, Adds, D, A, s
<1>9. QED BY <1>7, <1>8

(* The free blocks from an address on, and a walk that adds them up. *)
From(h, a) == {c \in Linked(h) : a <= c}
AddsUp(f, h) ==
  f = [a \in Linked(h) \cup {h.pxEnd} |->
         IF a = h.pxEnd THEN [n |-> 0, max |-> 0, min |-> SizeMod - 1]
         ELSE Adds(f[h.link[a].next], h.link[a].size)]
Reports(f, h) == f = [a \in Linked(h) \cup {h.pxEnd} |-> Report(h, From(h, a))]

\* A step of the walk adds the block it is at to those further on.
LEMMA FromNext ==
  ASSUME NEW h, ucHeap \in Bases, Tiled(h), InOrder(h)
  PROVE  /\ Report(h, From(h, h.pxEnd)) = [n |-> 0, max |-> 0, min |-> SizeMod - 1]
         /\ \A a \in Linked(h) : Report(h, From(h, a)) = Adds(Report(h, From(h, h.link[a].next)), h.link[a].size)
<1>1. /\ h.pxEnd \in Nat
      /\ \A a \in Linked(h) :
           /\ a \in Int /\ a < h.pxEnd /\ a < h.link[a].next /\ h.link[a].next \in Nat
           /\ \A b \in Linked(h) : a < b => h.link[a].next <= b
  <2>1. /\ h.pxEnd \in Nat
        /\ \A a \in Linked(h) :
             /\ a \in Int /\ xStart <= a /\ a < h.pxEnd /\ a < h.link[a].next
             /\ h.link[a].next \in Nat
    BY ShapeFacts
  <2>2. ASSUME NEW a \in Linked(h), NEW b \in Linked(h), a < b PROVE h.link[a].next <= b
    <3>1. b # xStart
      BY <2>1, <2>2 DEF xStart
    <3>2. QED BY <2>2, <3>1 DEF InOrder, Listed
  <2>3. QED BY <2>1, <2>2
<1>2. From(h, h.pxEnd) = {}
  BY <1>1 DEF From
<1>3. Report(h, {}) = [n |-> 0, max |-> 0, min |-> SizeMod - 1]
  BY FS_EmptySet DEF Report
<1>4. \A c \in Linked(h) : h.link[c].size \in Nat /\ h.link[c].size <= SizeMod - 1
  <2> SUFFICES ASSUME NEW c \in Linked(h)
               PROVE  h.link[c].size \in Nat /\ h.link[c].size <= SizeMod - 1
    OBVIOUS
  <2>1. SizeMod \in Nat /\ HeapSize \in Nat /\ 2 * HeapSize < SizeMod
    BY HeapAssumption
  <2>2. CASE c = xStart
    BY <2>1, <2>2 DEF InOrder
  <2>3. CASE c # xStart
    <3>1. c \in Within(h)
      BY <2>3, ShapeFacts DEF Listed
    <3>2. /\ c \in Nat /\ h.link[c].size \in Nat /\ c + h.link[c].size <= h.pxEnd /\ c >= uxStartAddress
          /\ h.pxEnd = uxEndAddress
      BY <3>1, ShapeFacts
    <3>3. /\ ucHeap \in Nat /\ uxStartAddress \in Nat /\ uxStartAddress >= ucHeap /\ uxEndAddress \in Nat
          /\ uxEndAddress + xHeapStructSize <= ucHeap + HeapSize /\ xHeapStructSize \in Nat
      BY HeapEnds, Struct
    <3>4. QED BY <2>1, <3>2, <3>3
  <2>4. QED BY <2>2, <2>3
<1>5. IsFiniteSet(Linked(h))
  <2>1. Linked(h) \subseteq DOMAIN h.link /\ IsFiniteSet(DOMAIN h.link)
    BY DEF Linked, Tiled
  <2>2. QED BY <2>1, FS_Subset
<1>6. ASSUME NEW a \in Linked(h)
      PROVE  Report(h, From(h, a)) = Adds(Report(h, From(h, h.link[a].next)), h.link[a].size)
  <2>1. PICK B : B = From(h, h.link[a].next)
    OBVIOUS
  <2>2. From(h, a) = B \cup {a} /\ a \notin B /\ B \subseteq Linked(h)
    BY <1>1, <2>1 DEF From
  <2>3. IsFiniteSet(B)
    BY <1>5, <2>2, FS_Subset
  <2>4. \A c \in B \cup {a} : h.link[c].size \in Nat /\ h.link[c].size <= SizeMod - 1
    BY <1>4, <2>2
  <2>5. Report(h, B \cup {a}) = Adds(Report(h, B), h.link[a].size)
    BY <2>2, <2>3, <2>4, ReportAdds
  <2>6. QED BY <2>1, <2>2, <2>5
<1>7. QED BY <1>2, <1>3, <1>6

\* There is one walk that adds the free blocks up, and it reports on them.
LEMMA OneReport ==
  ASSUME NEW h, ucHeap \in Bases, Tiled(h), InOrder(h)
  PROVE  \A f : AddsUp(f, h) <=> Reports(f, h)
<1> DEFINE S == Linked(h) \cup {h.pxEnd}
           zero == [n |-> 0, max |-> 0, min |-> SizeMod - 1]
<1>1. /\ h.pxEnd \in Nat /\ h.pxEnd \notin Linked(h)
      /\ \A a \in S : a \in Int /\ a <= h.pxEnd
      /\ \A a \in Linked(h) : h.link[a].next \in S /\ a < h.link[a].next
  <2>1. /\ h.pxEnd \in Nat /\ h.pxEnd \notin Linked(h)
        /\ \A a \in Linked(h) :
             /\ a \in Int /\ xStart <= a /\ a < h.pxEnd /\ a < h.link[a].next
             /\ h.link[a].next \in Nat /\ h.link[a].next \in Listed(h) \cup {h.pxEnd}
    BY ShapeFacts
  <2>2. QED BY <2>1 DEF Listed
<1>2. /\ Report(h, From(h, h.pxEnd)) = zero
      /\ \A a \in Linked(h) : Report(h, From(h, a)) = Adds(Report(h, From(h, h.link[a].next)), h.link[a].size)
  BY FromNext
<1>3. ASSUME NEW f, Reports(f, h) PROVE AddsUp(f, h)
  <2>1. f = [a \in S |-> Report(h, From(h, a))]
    BY <1>3 DEF Reports
  <2>2. \A a \in S : Report(h, From(h, a)) = IF a = h.pxEnd THEN zero ELSE Adds(f[h.link[a].next], h.link[a].size)
    BY <1>1, <1>2, <2>1
  <2>3. QED BY <2>1, <2>2 DEF AddsUp
<1>4. ASSUME NEW f, AddsUp(f, h) PROVE Reports(f, h)
  <2>1. f = [a \in S |-> IF a = h.pxEnd THEN zero ELSE Adds(f[h.link[a].next], h.link[a].size)]
    BY <1>4 DEF AddsUp
  <2> DEFINE U == {a \in S : f[a] # Report(h, From(h, a))}
  <2>2. ASSUME U # {} PROVE FALSE
    <3>1. \A a \in U : a \in Int /\ a <= h.pxEnd
      BY <1>1
    <3>2. PICK a \in U : \A b \in U : b <= a
      <4> HIDE DEF U
      <4>1. QED BY <1>1, <2>2, <3>1, HasMax
    <3>3. a \in S /\ a # h.pxEnd /\ f[a] # Report(h, From(h, a))
      <4>1. f[h.pxEnd] = zero
        BY <2>1
      <4>2. QED BY <1>2, <4>1
    <3>4. a \in Linked(h) /\ f[a] = Adds(f[h.link[a].next], h.link[a].size)
      BY <2>1, <3>3
    <3>5. h.link[a].next \in S /\ a < h.link[a].next /\ h.link[a].next \in Int /\ a \in Int
      BY <1>1, <3>4
    <3>6. h.link[a].next \notin U
      <4> HIDE DEF U
      <4>1. QED BY <3>2, <3>5
    <3>7. f[h.link[a].next] = Report(h, From(h, h.link[a].next))
      BY <3>5, <3>6
    <3>8. QED BY <1>2, <3>3, <3>4, <3>7
  <2>3. \A a \in S : f[a] = Report(h, From(h, a))
    BY <2>2
  <2>4. f = [a \in S |-> f[a]]
    BY <2>1
  <2>5. QED BY <2>3, <2>4 DEF Reports
<1>5. QED BY <1>3, <1>4

\* vPortGetHeapStats reports on the free list.
LEMMA StatsReport ==
  ASSUME NEW h, ucHeap \in Bases, Tiled(h), InOrder(h)
  PROVE  vPortGetHeapStats(h) = Report(h, Listed(h))
<1> DEFINE S == Linked(h) \cup {h.pxEnd}
           first == h.link[xStart].next
           F == [a \in S |-> Report(h, From(h, a))]
<1>1. xStart \in Linked(h) /\ first \in S
  BY ShapeFacts DEF Listed
<1>2. Reports(F, h)
  BY DEF Reports
<1>3. PICK w : w = CHOOSE f : AddsUp(f, h)
  OBVIOUS
<1>4. vPortGetHeapStats(h) = w[first]
  BY <1>3 DEF vPortGetHeapStats, AddsUp, Adds
<1>5. AddsUp(w, h)
  <2>1. \E f : AddsUp(f, h)
    <3> HIDE DEF F
    <3>1. QED BY <1>2, OneReport
  <2>2. QED BY <1>3, <2>1
<1>6. w = F
  BY <1>5, OneReport DEF Reports
<1>7. w[first] = Report(h, From(h, first))
  BY <1>1, <1>6
<1>8. From(h, first) = Listed(h)
  <2>1. first \in Nat /\ xStart < first
    BY <1>1, ShapeFacts
  <2>2. ASSUME NEW c \in Linked(h), first <= c PROVE c \in Listed(h)
    BY <2>1, <2>2 DEF Listed, xStart
  <2>3. ASSUME NEW c \in Listed(h) PROVE c \in Linked(h) /\ first <= c
    <3>1. c \in Linked(h) /\ xStart < c
      BY <2>3, ShapeFacts DEF Listed
    <3>2. QED BY <1>1, <2>3, <3>1 DEF InOrder
  <2>4. QED BY <2>2, <2>3 DEF From
<1>9. QED BY <1>4, <1>7, <1>8

\* vPortGetHeapStats counts the free blocks and finds the largest and the
\* smallest of them.
LEMMA StatsHold == HeapInv => StatsAreTrue
<1> SUFFICES ASSUME HeapInv, Up PROVE StatsAreTrue
  BY DEF StatsAreTrue
<1> DEFINE B == Listed(heap)
<1>1. /\ ucHeap \in Bases /\ Tiled(heap) /\ InOrder(heap) /\ FreeBlocks = B
  BY FreeAreListed
<1>2. vPortGetHeapStats(heap) = Report(heap, B)
  BY <1>1, StatsReport
<1>3. {heap.link[b].size : b \in FreeBlocks} = Sizes(heap, B) /\ (Sizes(heap, B) = {} <=> B = {})
  BY <1>1 DEF Sizes
<1>4. PICK sizes : sizes = {heap.link[b].size : b \in FreeBlocks}
  OBVIOUS
<1>5. sizes = Sizes(heap, B) /\ (sizes = {} <=> B = {})
  BY <1>3, <1>4
<1>6. PICK s : s = vPortGetHeapStats(heap)
  OBVIOUS
<1>7. /\ s.n = Cardinality(FreeBlocks)
      /\ s.max = (IF sizes = {} THEN 0 ELSE Max(sizes))
      /\ s.min = (IF sizes = {} THEN SizeMod - 1 ELSE Min(sizes))
  BY <1>1, <1>2, <1>5, <1>6 DEF Report
<1>8. QED BY <1>4, <1>6, <1>7 DEF StatsAreTrue

\* The heap of heap_4.c is sound after any order of splits, merges and frees by
\* any number of tasks.
THEOREM HeapStaysSound == HeapSpec => []HeapIsSound
<1>1. HeapInv => HeapIsSound
  <2>1. HeapInv => NoAssertionFails
    BY DEF HeapInv, CallsInv, NoAssertionFails
  <2>2. QED BY <2>1, TypesHold, BlocksDoTile, FreeListInOrder, BytesAreCounted, WholeAgain, StatsHold
            DEF HeapIsSound
<1>2. QED BY <1>1, HeapInvariant, PTL

-----------------------------------------------------------------------------
(* What the tasks are served *)

\* A step that fails a request leaves the heap it searched, which holds no free
\* block that would do.
LEMMA FailingStep ==
  ASSUME HeapInv, NEW t \in Client, MayCall(t), NEW n \in Nat, Gets(t, n),
         NEW u \in Client, doing'[u].op = "failed", doing[u].op # "failed"
  PROVE  \/ doing'[u].size = 0
         \/ \A b \in FreeBlocks' : heap'.link[b].size < doing'[u].size + xHeapStructSize
<1>1. PICK r \in {pvPortMalloc(n)} :
        /\ heap' = r.h
        /\ IF r.pv = Null
           THEN doing' = [doing EXCEPT ![t] = [op |-> "failed", at |-> Null, size |-> n]] /\ UNCHANGED holds
           ELSE holds' = [holds EXCEPT ![t] = @ \cup {[at |-> r.pv, size |-> n]}] /\ UNCHANGED doing
  BY DEF Gets
<1>2. PICK h : h = Base
  OBVIOUS
<1>3. /\ ucHeap \in Bases /\ Tiled(h) /\ InOrder(h) /\ Owned(h)
  BY <1>2, BaseIsSound
<1>4. /\ DOMAIN doing = Client /\ doing[t] = NoCall
  BY DEF HeapInv, CallsInv, MayCall
<1>5. r.pv = Null /\ doing' = [doing EXCEPT ![t] = [op |-> "failed", at |-> Null, size |-> n]]
  BY <1>1
<1>6. /\ u = t /\ doing'[u].size = n /\ doing'[u].at = Null
      /\ \A v \in Client \ {t} : doing'[v] = doing[v]
  BY <1>4, <1>5
<1>7. r.h = h /\ (n = 0 \/ \A b \in Listed(h) : h.link[b].size < n + xHeapStructSize)
  <2>1. r = pvPortMalloc(n)
    BY <1>1
  <2>2. \/ /\ r.h = h /\ r.pv = Null
           /\ n = 0 \/ \A b \in Listed(h) : h.link[b].size < n + xHeapStructSize
        \/ \E b \in Listed(h) :
             /\ Takes(h, r.h, b) /\ r.pv = b + xHeapStructSize
             /\ r.h.link[b].size >= n + xHeapStructSize
    BY <1>2, <2>1, MallocCases
  <2>3. ASSUME NEW b \in Listed(h), r.pv = b + xHeapStructSize PROVE FALSE
    <3>1. b \in Nat /\ xHeapStructSize \in Nat
      BY <1>3, ShapeFacts, Struct
    <3>2. QED BY <1>5, <2>3, <3>1 DEF Null
  <2>4. QED BY <2>2, <2>3
<1>8. FreeBlocks' \subseteq Listed(h)
  <2> SUFFICES ASSUME NEW b \in FreeBlocks', b \notin Listed(h) PROVE FALSE
    OBVIOUS
  <2>1. heap' = h
    BY <1>1, <1>7
  <2>2. b \in Within(h) /\ h.link[b].alloc = 0 /\ \A v \in Client : doing'[v].at # b
    BY <2>1 DEF FreeBlocks, Blocks, Within
  <2>3. PICK v \in Client : Freeing(v) /\ doing[v].at = b
    BY <1>3, <2>2 DEF Owned
  <2>4. v # t
    BY <1>4, <2>3 DEF Freeing, NoCall
  <2>5. QED BY <1>6, <2>2, <2>3, <2>4
<1>9. QED BY <1>1, <1>6, <1>7, <1>8

\* pvPortMalloc and pvPortCalloc are the only steps that fail a request.
LEMMA OnlyGetsFail ==
  ASSUME HeapInv, HeapNext, NEW u \in Client, doing'[u].op = "failed", doing[u].op # "failed"
  PROVE  \E t \in Client, n \in Nat : MayCall(t) /\ Gets(t, n)
<1>1. CASE vPortHeapResetState
  BY <1>1 DEF vPortHeapResetState
<1>2. ASSUME NEW t \in Client, Malloc(t) PROVE \E n \in Nat : MayCall(t) /\ Gets(t, n)
  BY <1>2, AskedFor DEF Malloc
<1>3. ASSUME NEW t \in Client, Calloc(t) PROVE \E n \in Nat : MayCall(t) /\ Gets(t, n)
  <2>1. PICK a \in Arrays :
          IF a[1] > 0 /\ a[2] > (SizeMod - 1) \div a[1] THEN UNCHANGED heapVars ELSE Gets(t, a[1] * a[2])
    BY <1>3 DEF Calloc
  <2>2. doing' # doing
    OBVIOUS
  <2>3. Gets(t, a[1] * a[2])
    BY <2>1, <2>2 DEF heapVars
  <2>4. PICK n \in Nat : n = a[1] * a[2]
    BY <2>1, AskedFor
  <2>5. Gets(t, n) /\ MayCall(t)
    BY <1>3, <2>3, <2>4 DEF Calloc
  <2>6. QED BY <2>5
<1>4. DOMAIN doing = Client
  BY DEF HeapInv, CallsInv
<1>5. ASSUME NEW t \in Client, FreeMarks(t) PROVE FALSE
  <2>1. doing' = doing \/ \E x : x.op = "free" /\ doing' = [doing EXCEPT ![t] = x]
    <3>1. PICK r \in holds[t] :
            \/ doing' = doing
            \/ doing' = [doing EXCEPT ![t] = [op |-> "free", at |-> r.at - xHeapStructSize, size |-> r.size]]
      BY <1>5 DEF FreeMarks
    <3>2. [op |-> "free", at |-> r.at - xHeapStructSize, size |-> r.size].op = "free"
      OBVIOUS
    <3>3. QED BY <3>1, <3>2
  <2>2. QED BY <1>4, <2>1
<1>6. ASSUME NEW t \in Client, FreeInserts(t) PROVE FALSE
  <2>1. doing' = [doing EXCEPT ![t] = NoCall] /\ NoCall.op # "failed"
    BY <1>6 DEF FreeInserts, NoCall
  <2>2. QED BY <1>4, <2>1
<1>7. ASSUME NEW t \in Client, vApplicationMallocFailedHook(t) PROVE FALSE
  BY <1>7 DEF vApplicationMallocFailedHook
<1>8. QED BY <1>1, <1>2, <1>3, <1>5, <1>6, <1>7 DEF HeapNext

\* A request fails, and with it the system, only if no free block holds it: the
\* counter that pvPortMalloc looks at first never hides a block.
LEMMA NoNeedlessFailure == HeapSpec => FailsOnlyWhenFull
<1>1. HeapInv /\ [HeapNext]_heapVars =>
        [\A t \in Client : doing'[t].op = "failed" /\ doing[t].op # "failed" =>
           \/ doing'[t].size = 0
           \/ \A b \in FreeBlocks' : heap'.link[b].size < doing'[t].size + xHeapStructSize]_heapVars
  <2> SUFFICES ASSUME HeapInv, HeapNext, NEW u \in Client, doing'[u].op = "failed", doing[u].op # "failed"
               PROVE  \/ doing'[u].size = 0
                      \/ \A b \in FreeBlocks' : heap'.link[b].size < doing'[u].size + xHeapStructSize
    OBVIOUS
  <2>1. PICK t \in Client, n \in Nat : MayCall(t) /\ Gets(t, n)
    BY OnlyGetsFail
  <2>2. QED BY <2>1, FailingStep
<1>2. QED BY <1>1, HeapInvariant, PTL DEF HeapSpec, FailsOnlyWhenFull

(* The sizes that can be asked for. *)
Asked == Requests \cup {a[1] * a[2] : a \in Arrays}

\* A pointer that pvPortMalloc returns is aligned, and the bytes behind it are in
\* ucHeap and in nobody else's block.
LEMMA GetsTakes ==
  ASSUME HeapInv, NEW t \in Client, MayCall(t), NEW n \in Nat, n \in Asked, Gets(t, n)
  PROVE  ucHeap' = ucHeap /\ (holds' = holds \/ Served!Take(t))
<1>1. PICK r \in {pvPortMalloc(n)} :
        /\ heap' = r.h
        /\ IF r.pv = Null
           THEN doing' = [doing EXCEPT ![t] = [op |-> "failed", at |-> Null, size |-> n]] /\ UNCHANGED holds
           ELSE holds' = [holds EXCEPT ![t] = @ \cup {[at |-> r.pv, size |-> n]}] /\ UNCHANGED doing
        /\ UNCHANGED ucHeap
  BY DEF Gets
<1>2. PICK h : h = Base
  OBVIOUS
<1>3. /\ ucHeap \in Bases /\ Tiled(h) /\ InOrder(h) /\ Owned(h)
  BY <1>2, BaseIsSound
<1>4. \/ r.pv = Null
      \/ \E b \in Listed(h) :
           /\ Takes(h, r.h, b) /\ r.pv = b + xHeapStructSize
           /\ r.h.link[b].size >= n + xHeapStructSize
  <2>1. r = pvPortMalloc(n)
    BY <1>1
  <2>2. QED BY <1>2, <2>1, MallocCases
<1>5. CASE r.pv = Null
  BY <1>1, <1>5
<1>6. ASSUME NEW b \in Listed(h), Takes(h, r.h, b), r.pv = b + xHeapStructSize, r.pv # Null,
             r.h.link[b].size >= n + xHeapStructSize
      PROVE  Served!Take(t)
  <2>1. PICK g : g = r.h
    OBVIOUS
  <2>2. PICK at : at = b + xHeapStructSize
    OBVIOUS
  <2>3. holds' = [holds EXCEPT ![t] = @ \cup {[at |-> at, size |-> n]}]
    BY <1>1, <1>6, <2>2
  <2>4. /\ Tiled(g) /\ InOrder(g) /\ Within(h) \subseteq Within(g) /\ g.link[b].size \in Nat
        /\ \A c \in Within(h) \ Listed(h) : g.link[c] = h.link[c]
        /\ g.link[b].size >= n + xHeapStructSize
    BY <1>6, <2>1 DEF Takes
  <2>5. /\ b \in Within(h) /\ b \in Within(g) /\ b \in Linked(h) /\ b \in Nat /\ b % Align = 0
        /\ b >= uxStartAddress /\ g.pxEnd = uxEndAddress /\ b + g.link[b].size <= g.pxEnd
    <3>1. b \in Within(h) /\ b \in Linked(h)
      BY <1>3, <1>6, ShapeFacts DEF Listed
    <3>2. b \in Within(g)
      BY <2>4, <3>1
    <3>3. QED BY <1>3, <2>4, <3>1, <3>2, ShapeFacts
  <2>6. xHeapStructSize \in Nat /\ xHeapStructSize > 0 /\ xHeapStructSize % Align = 0
    BY Struct
  <2>7. /\ ucHeap \in Nat /\ uxStartAddress \in Nat /\ uxStartAddress >= ucHeap /\ uxEndAddress \in Nat
        /\ uxEndAddress + xHeapStructSize <= ucHeap + HeapSize /\ HeapSize \in Nat
    BY <1>3, HeapEnds, HeapAssumption
  <2>8. at % Align = 0
    <3>1. b \in Int /\ xHeapStructSize \in Int
      BY <2>5, <2>6
    <3>2. (b + xHeapStructSize) % Align = 0
      BY <2>5, <2>6, <3>1, Aligned
    <3>3. QED BY <2>2, <3>2
  <2>9. at \in Nat /\ at \in ucHeap .. ucHeap + HeapSize - 1 /\ at + n <= ucHeap + HeapSize
    BY <2>2, <2>4, <2>5, <2>6, <2>7
  <2>10. ASSUME NEW u \in Client, NEW s \in holds[u]
         PROVE  (s.at .. s.at + s.size - 1) \cap (at .. at + n - 1) = {}
    <3>1. PICK c : c = BlockOf(s)
      OBVIOUS
    <3>2. /\ s \in [at : Nat, size : Nat] /\ c \in Within(h) /\ h.link[c].next = Null
          /\ s.size + xHeapStructSize <= h.link[c].size
      BY <1>3, <3>1 DEF Owned
    <3>3. c \notin Linked(h) /\ c # b
      BY <2>5, <3>2 DEF Linked
    <3>4. c \in Within(g) /\ g.link[c] = h.link[c] /\ c \in Nat /\ h.link[c].size \in Nat
      <4>1. c \in Within(h) \ Listed(h)
        BY <3>2, <3>3 DEF Listed
      <4>2. QED BY <1>3, <2>4, <3>2, <4>1, ShapeFacts
    <3>5. (c < b => c + g.link[c].size <= b) /\ (b < c => b + g.link[b].size <= c)
      BY <2>4, <2>5, <3>4 DEF Tiled, Behind
    <3>6. s.at \in Nat /\ s.size \in Nat /\ s.at = c + xHeapStructSize
      BY <2>6, <3>1, <3>2 DEF BlockOf
    <3>7. s.at + s.size <= at \/ at + n <= s.at
      BY <2>2, <2>4, <2>5, <2>6, <3>2, <3>3, <3>4, <3>5, <3>6
    <3>8. QED BY <2>9, <3>6, <3>7
  <2>11. PICK x : x = [at |-> at, size |-> n]
    OBVIOUS
  <2>12. x.at = at /\ x.size = n
    BY <2>11
  <2>13. Served!Free(x)
    BY <2>10, <2>12 DEF Served!Free, Served!Bytes
  <2>14. holds' = [holds EXCEPT ![t] = @ \cup {x}]
    BY <2>3, <2>11
  <2>15. QED BY <2>8, <2>9, <2>11, <2>13, <2>14 DEF Served!Take, Asked
<1>7. QED BY <1>1, <1>4, <1>5, <1>6

\* A step of the heap hands out a range, takes one back, forgets all of them or
\* changes nothing that a task holds.
LEMMA ServedStep == HeapInv /\ [HeapNext]_heapVars => [Served!Next]_<<ucHeap, holds>>
<1> SUFFICES ASSUME HeapInv, [HeapNext]_heapVars
             PROVE  [Served!Next]_<<ucHeap, holds>>
  OBVIOUS
<1>1. CASE UNCHANGED heapVars
  BY <1>1 DEF heapVars
<1>2. CASE vPortHeapResetState
  BY <1>2 DEF vPortHeapResetState, Served!Next, Served!Forget
<1>3. ASSUME NEW t \in Client, Malloc(t) PROVE [Served!Next]_<<ucHeap, holds>>
  <2>1. MayCall(t)
    BY <1>3 DEF Malloc
  <2>2. PICK n \in Requests : Gets(t, n)
    BY <1>3 DEF Malloc
  <2>3. n \in Nat /\ n \in Asked
    BY <2>2, AskedFor DEF Asked
  <2>4. ucHeap' = ucHeap /\ (holds' = holds \/ Served!Take(t))
    BY <2>1, <2>2, <2>3, GetsTakes
  <2>5. QED BY <2>4 DEF Served!Next
<1>4. ASSUME NEW t \in Client, Calloc(t) PROVE [Served!Next]_<<ucHeap, holds>>
  <2>1. MayCall(t)
    BY <1>4 DEF Calloc
  <2>2. PICK a \in Arrays :
          IF a[1] > 0 /\ a[2] > (SizeMod - 1) \div a[1] THEN UNCHANGED heapVars ELSE Gets(t, a[1] * a[2])
    BY <1>4 DEF Calloc
  <2>3. CASE UNCHANGED heapVars
    BY <1>1, <2>3
  <2>4. CASE Gets(t, a[1] * a[2])
    <3>1. PICK n \in Nat : n = a[1] * a[2]
      BY <2>2, AskedFor
    <3>2. n \in Asked /\ Gets(t, n)
      BY <2>2, <2>4, <3>1 DEF Asked
    <3>3. ucHeap' = ucHeap /\ (holds' = holds \/ Served!Take(t))
      BY <2>1, <3>1, <3>2, GetsTakes
    <3>4. QED BY <3>3 DEF Served!Next
  <2>5. QED BY <2>2, <2>3, <2>4
<1>5. ASSUME NEW t \in Client, FreeMarks(t) PROVE [Served!Next]_<<ucHeap, holds>>
  <2>1. PICK r \in holds[t] : holds' = [holds EXCEPT ![t] = @ \ {r}] /\ ucHeap' = ucHeap
    BY <1>5 DEF FreeMarks
  <2>2. Served!Give(t)
    BY <2>1 DEF Served!Give
  <2>3. QED BY <2>1, <2>2 DEF Served!Next
<1>6. ASSUME NEW t \in Client, FreeInserts(t) PROVE [Served!Next]_<<ucHeap, holds>>
  BY <1>6 DEF FreeInserts
<1>7. ASSUME NEW t \in Client, vApplicationMallocFailedHook(t) PROVE [Served!Next]_<<ucHeap, holds>>
  BY <1>7 DEF vApplicationMallocFailedHook
<1>8. QED BY <1>1, <1>2, <1>3, <1>4, <1>5, <1>6, <1>7 DEF HeapNext

\* pvPortMalloc and vPortFree keep what they promise their callers: aligned ranges
\* of ucHeap of their own, as large as they asked for, and no failure while a free
\* block would do.
THEOREM HeapServesClients == HeapSpec => ServesClients
<1>1. HeapInit => Served!Init
  BY DEF HeapInit, Served!Init
<1>2. HeapSpec => ServesRanges
  BY <1>1, ServedStep, HeapInvariant, PTL DEF HeapSpec, ServesRanges, Served!Spec
<1>3. QED BY <1>2, NoNeedlessFailure DEF ServesClients
=============================================================================
