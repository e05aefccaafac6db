-------------------------- MODULE TimerQueue_proofs --------------------------
(***************************************************************************)
(* Proofs about TimerQueue for every queue size, every set of delays and   *)
(* repeats and every bound on the clock.                                   *)
(***************************************************************************)
EXTENDS TimerQueue, FiniteSetTheorems, TLAPS

\* The ns-to-ticks conversion of register_timer and execute_timer yields a
\* natural number of ticks.
LEMMA TicksNat == \A n \in Nat : Ticks(n) \in Nat
  BY TimerConstants DEF TimerConstants, Ticks

\* The queue indices a bounded loop of timer.c visits.
LEMMA SlotFacts ==
  /\ 0 \in Slots
  /\ \A i \in Slots : i \in Nat /\ i < TIMER_QUEUE_MAX
  /\ \A i \in 0 .. TIMER_QUEUE_MAX : i < TIMER_QUEUE_MAX => i \in Slots
  /\ \A i \in 0 .. TIMER_QUEUE_MAX :
       i < TIMER_QUEUE_MAX => i + 1 \in 0 .. TIMER_QUEUE_MAX
  BY TimerConstants DEF TimerConstants, Slots

\* Every value the timer code stores stays in its C type: indices inside the
\* queue, TIMER_COUNT inside unsigned int, times natural.
THEOREM TypeCorrect == Spec => []TypeOK
<1>1. Init => TypeOK
  <2> SUFFICES ASSUME Init PROVE TypeOK
    OBVIOUS
  <2>1. CallersMask \in BOOLEAN /\ UsesClear \in BOOLEAN /\ Repeats \subseteq Nat
    BY TimerConstants DEF TimerConstants, Init
  <2>2. QED
    BY <2>1, TimerConstants, SlotFacts
    DEF TimerConstants, Init, TypeOK, NoReg, NoClr, NoIsr
<1>2. TypeOK /\ [Next]_vars => TypeOK'
  <2> SUFFICES ASSUME TypeOK, [Next]_vars PROVE TypeOK'
    OBVIOUS
  <2>0. UNCHANGED <<CallersMask, UsesClear, Repeats>> BY DEF Next, vars, program
  <2> USE TimerConstants, SlotFacts, <2>0 DEF TimerConstants, TypeOK, MainRuns,
          queueVars, mainVars, isrVars, csrVars
  <2>1. CASE Tick BY <2>1 DEF Tick
  <2>2. CASE InitTimeintHandler BY <2>2 DEF InitTimeintHandler
  <2>3. CASE GlobalInterruptEnable BY <2>3 DEF GlobalInterruptEnable
  <2>4. CASE GlobalInterruptDisable BY <2>4 DEF GlobalInterruptDisable
  <2>5. CASE Register
    <3>1. CASE \E d \in Delays, r \in Repeats : RegisterTimer(d, r)
      BY <3>1 DEF RegisterTimer
    <3>2. CASE RegisterTimerExeTime BY <3>2, TicksNat DEF RegisterTimerExeTime
    <3>3. CASE RegisterTimerCompare BY <3>3 DEF RegisterTimerCompare
    <3>4. CASE RegisterTimerArm BY <3>4 DEF RegisterTimerArm
    <3>5. CASE RegisterTimerInsert
      BY <3>5 DEF RegisterTimerInsert, IncCount, NoReg
    <3>6. QED BY <2>5, <3>1, <3>2, <3>3, <3>4, <3>5 DEF Register
  <2>6. CASE Clear
    <3>1. CASE \E i \in Slots : ClearTimer(i) BY <3>1 DEF ClearTimer, NoClr
    <3>2. CASE ClearTimerHandler
      <4>1. handler' \in [Slots -> {0, 1}] BY <3>2 DEF ClearTimerHandler
      <4>2. 0 \in 0 .. TIMER_QUEUE_MAX /\ NEVER \in Nat OBVIOUS
      <4>3. clr' \in [idx : Slots, scan : 0 .. TIMER_QUEUE_MAX, min : Nat,
                      cnt : 0 .. UINT_MAX]
        BY <3>2, <4>2 DEF ClearTimerHandler
      <4>4. QED BY <3>2, <4>1, <4>3 DEF ClearTimerHandler
    <3>3. CASE ClearTimerScan BY <3>3 DEF ClearTimerScan
    <3>4. CASE ClearTimerArm BY <3>4 DEF ClearTimerArm
    <3>5. CASE ClearTimerLoadCount BY <3>5 DEF ClearTimerLoadCount
    <3>6. CASE ClearTimerStoreCount BY <3>6 DEF ClearTimerStoreCount, DecCount, NoClr
    <3>7. CASE ClearAll BY <3>7 DEF ClearAll, NoClr
    <3>8. CASE ClearAllSlot BY <3>8 DEF ClearAllSlot
    <3>9. CASE ClearAllCount BY <3>9 DEF ClearAllCount
    <3>10. CASE ClearAllArm BY <3>10 DEF ClearAllArm, NoClr
    <3>11. QED
      BY <2>6, <3>1, <3>2, <3>3, <3>4, <3>5, <3>6, <3>7, <3>8, <3>9, <3>10
      DEF Clear
  <2>7. CASE TimerInterrupt BY <2>7 DEF TimerInterrupt
  <2>8. CASE ExecuteTimer
    <3>1. CASE ExecuteSkip BY <3>1 DEF ExecuteSkip
    <3>2. CASE ExecutePending BY <3>2 DEF ExecutePending
    <3>3. CASE ExecuteOneShot BY <3>3 DEF ExecuteOneShot, DecCount
    <3>4. CASE ExecuteRepeat
      <4> DEFINE next == isr.time + Ticks(repeat_ns[isr.i])
      <4>1. isr.i \in Slots /\ isr.i + 1 \in 0 .. TIMER_QUEUE_MAX
        BY <3>4 DEF ExecuteRepeat
      <4>2. next \in Nat
        BY <4>1, TicksNat
      <4>3. /\ exe_time' = [exe_time EXCEPT ![isr.i] = next]
            /\ isr' = [isr EXCEPT !.i = isr.i + 1,
                                  !.min = IF next > isr.min THEN next ELSE isr.min]
            /\ UNCHANGED <<time, mtimecmp, mie, mtie, handler, repeat_ns, count,
                           overrun, pc, reg, clr, ipc>>
        BY <3>4 DEF ExecuteRepeat
      <4> HIDE DEF next
      <4>4. QED BY <4>1, <4>2, <4>3
    <3>5. CASE ExecuteReturn BY <3>5 DEF ExecuteReturn, NoIsr
    <3>6. QED BY <2>8, <3>1, <3>2, <3>3, <3>4, <3>5 DEF ExecuteTimer
  <2>9. CASE UNCHANGED vars BY <2>9 DEF vars, state
  <2>10. QED
    BY <2>1, <2>2, <2>3, <2>4, <2>5, <2>6, <2>7, <2>8, <2>9 DEF Next
<1>3. QED
  BY <1>1, <1>2, PTL DEF Spec

\* One step of a masked caller, of one-shot timers or of the handler keeps what
\* each point of timer.c knows of the comparator.
LEMMA ArmInvInductive ==
  ASSUME CallersMask, Repeats \subseteq {0}, TypeOK, ArmInv, [Next]_vars
  PROVE  ArmInv'
<1> USE TimerConstants, SlotFacts
    DEF TypeOK, ArmInv, Armed, CallsAreMasked, OneShotOnly, InRegister,
        MainRuns, MayCall, queueVars, mainVars, isrVars, csrVars
<1>1. CASE Tick BY <1>1 DEF Tick
<1>2. CASE InitTimeintHandler BY <1>2 DEF InitTimeintHandler
<1>3. CASE GlobalInterruptEnable BY <1>3 DEF GlobalInterruptEnable
<1>4. CASE GlobalInterruptDisable BY <1>4 DEF GlobalInterruptDisable
<1>5. CASE Register
  <2>1. CASE \E d \in Delays, r \in Repeats : RegisterTimer(d, r)
    BY <2>1 DEF RegisterTimer
  <2>2. CASE RegisterTimerExeTime BY <2>2 DEF RegisterTimerExeTime
  <2>3. CASE RegisterTimerCompare BY <2>3 DEF RegisterTimerCompare
  <2>4. CASE RegisterTimerArm BY <2>4 DEF RegisterTimerArm
  <2>5. CASE RegisterTimerInsert BY <2>5 DEF RegisterTimerInsert, NoReg
  <2>6. QED BY <1>5, <2>1, <2>2, <2>3, <2>4, <2>5 DEF Register
<1>6. CASE Clear
  <2>1. CASE \E i \in Slots : ClearTimer(i) BY <2>1 DEF ClearTimer
  <2>2. CASE ClearTimerHandler BY <2>2 DEF ClearTimerHandler
  <2>3. CASE ClearTimerScan BY <2>3 DEF ClearTimerScan
  <2>4. CASE ClearTimerArm BY <2>4 DEF ClearTimerArm
  <2>5. CASE ClearTimerLoadCount BY <2>5 DEF ClearTimerLoadCount
  <2>6. CASE ClearTimerStoreCount BY <2>6 DEF ClearTimerStoreCount
  <2>7. CASE ClearAll BY <2>7 DEF ClearAll, NoClr
  <2>8. CASE ClearAllSlot BY <2>8 DEF ClearAllSlot
  <2>9. CASE ClearAllCount BY <2>9 DEF ClearAllCount
  <2>10. CASE ClearAllArm BY <2>10 DEF ClearAllArm
  <2>11. QED
    BY <1>6, <2>1, <2>2, <2>3, <2>4, <2>5, <2>6, <2>7, <2>8, <2>9, <2>10
    DEF Clear
<1>7. CASE TimerInterrupt BY <1>7 DEF TimerInterrupt
<1>8. CASE ExecuteTimer
  <2>1. CASE ExecuteSkip BY <2>1 DEF ExecuteSkip
  <2>2. CASE ExecutePending BY <2>2 DEF ExecutePending
  <2>3. CASE ExecuteOneShot
    <3>1. /\ ipc = "scan" /\ isr.i \in Slots
          /\ \A i \in Slots : handler'[i] # 0 => handler[i] # 0 /\ i # isr.i
          /\ isr'.i = isr.i + 1 /\ isr'.min = isr.min
          /\ UNCHANGED <<mtimecmp, mie, exe_time, repeat_ns, pc, reg, clr, ipc>>
      BY <2>3 DEF ExecuteOneShot
    <3>2. pc = "idle" BY <3>1
    <3>3. QED BY <3>1, <3>2
  <2>4. CASE ExecuteRepeat BY <2>4 DEF ExecuteRepeat
  <2>5. CASE ExecuteReturn BY <2>5 DEF ExecuteReturn
  <2>6. QED BY <1>8, <2>1, <2>2, <2>3, <2>4, <2>5 DEF ExecuteTimer
<1>9. CASE UNCHANGED vars BY <1>9 DEF vars, state
<1>10. QED
  BY <1>1, <1>2, <1>3, <1>4, <1>5, <1>6, <1>7, <1>8, <1>9 DEF Next

\* With masking callers and one-shot timers the comparator is never later than
\* a queued timer, whatever the queue size, the delays and the interleaving of
\* calls, clock and handler (register_timer, clear_timer, execute_timer).
THEOREM EarliestArmed == Spec => []EarliestIsArmed
<1> DEFINE OneShotInv == CallersMask /\ Repeats \subseteq {0} => ArmInv
<1>1. Init => OneShotInv
  BY SlotFacts
  DEF Init, ArmInv, Armed, CallsAreMasked, OneShotOnly, InRegister, NoReg
<1>2. TypeOK /\ OneShotInv /\ [Next]_vars => OneShotInv'
  <2> SUFFICES ASSUME TypeOK, OneShotInv, [Next]_vars, CallersMask', Repeats' \subseteq {0}
               PROVE  ArmInv'
    OBVIOUS
  <2>1. CallersMask /\ Repeats \subseteq {0} BY DEF Next, vars, program
  <2>2. QED BY <2>1, ArmInvInductive
<1>3. OneShotInv => EarliestIsArmed
  BY DEF ArmInv, Armed, EarliestIsArmed, Quiescent, Occupied
<1> HIDE DEF OneShotInv
<1>4. QED
  BY <1>1, <1>2, <1>3, TypeCorrect, PTL DEF Spec

\* The number of queued timers is at most the queue size, and equals it only
\* when every slot is taken.
LEMMA OccupiedBound ==
  ASSUME TypeOK
  PROVE  /\ IsFiniteSet(Occupied)
         /\ Cardinality(Occupied) \in 0 .. TIMER_QUEUE_MAX
         /\ Cardinality(Occupied) = TIMER_QUEUE_MAX => Occupied = Slots
<1>1. IsFiniteSet(Slots) /\ Cardinality(Slots) = TIMER_QUEUE_MAX
  BY FS_Interval, TimerConstants DEF Slots, TimerConstants
<1>2. Occupied \in SUBSET Slots
  BY DEF Occupied
<1>3. /\ IsFiniteSet(Occupied)
      /\ Cardinality(Occupied) <= Cardinality(Slots)
      /\ Cardinality(Slots) = Cardinality(Occupied) => Slots = Occupied
  BY <1>1, <1>2, FS_Subset
<1>4. Cardinality(Occupied) \in Nat
  BY <1>3, FS_CardinalityType
<1>5. QED
  BY <1>1, <1>3, <1>4, TimerConstants DEF TimerConstants

\* Freeing a taken slot (handler = 0) removes one queued timer.
LEMMA FreeSlot ==
  ASSUME TypeOK, NEW k \in Slots, handler[k] # 0,
         handler' = [handler EXCEPT ![k] = 0]
  PROVE  Cardinality(Occupied') = Cardinality(Occupied) - 1
<1>1. Occupied' = Occupied \ {k} /\ k \in Occupied
  BY DEF Occupied, TypeOK
<1>2. IsFiniteSet(Occupied)
  BY OccupiedBound
<1>3. QED
  BY <1>1, <1>2, FS_RemoveElement

\* Filling a free slot adds one.
LEMMA TakeSlot ==
  ASSUME TypeOK, NEW k \in Slots, handler[k] = 0,
         handler' = [i \in Slots |-> IF i = k THEN 1 ELSE handler[i]]
  PROVE  Cardinality(Occupied') = Cardinality(Occupied) + 1
<1>1. Occupied' = Occupied \cup {k} /\ k \notin Occupied
  BY DEF Occupied, TypeOK
<1>2. IsFiniteSet(Occupied)
  BY OccupiedBound
<1>3. QED
  BY <1>1, <1>2, FS_AddElement

\* register_timer's search ends at a free slot: TIMER_COUNT was below the queue
\* size when it was tested, and it is the number of taken slots.
LEMMA InsertFindsSlot ==
  ASSUME TypeOK, CountInv, RegisterTimerInsert
  PROVE  \E idx \in Slots :
           /\ handler[idx] = 0
           /\ handler' = [i \in Slots |-> IF i = idx THEN 1 ELSE handler[i]]
           /\ exe_time' =
                [i \in Slots |-> IF i = idx THEN reg.exe ELSE exe_time[i]]
           /\ overrun' = overrun
<1>1. PICK idx \in 0 .. TIMER_QUEUE_MAX :
        /\ \A j \in 0 .. idx - 1 : handler[j] # 0
        /\ idx \in Slots => handler[idx] = 0
        /\ handler' = [i \in Slots |-> IF i = idx THEN 1 ELSE handler[i]]
        /\ exe_time' = [i \in Slots |-> IF i = idx THEN reg.exe ELSE exe_time[i]]
        /\ overrun' = IF idx = TIMER_QUEUE_MAX THEN 1 ELSE overrun
  BY DEF RegisterTimerInsert
<1>2. idx # TIMER_QUEUE_MAX
  <2>1. SUFFICES ASSUME idx = TIMER_QUEUE_MAX PROVE FALSE
    OBVIOUS
  <2>2. Occupied = Slots
    BY <1>1, <2>1 DEF Occupied, Slots
  <2>3. Cardinality(Occupied) = TIMER_QUEUE_MAX
    BY <2>2, FS_Interval, TimerConstants DEF Slots, TimerConstants
  <2>4. QED
    BY <2>3, TimerConstants
    DEF RegisterTimerInsert, MainRuns, CountInv, InRegister, TimerConstants
<1>3. idx \in Slots
  BY <1>2, SlotFacts, TimerConstants DEF TimerConstants
<1>4. QED BY <1>1, <1>2, <1>3

\* One step keeps what each point of timer.c knows of TIMER_COUNT, as long as
\* no interrupt falls inside a clear_timer.
LEMMA CountInvInductive ==
  ASSUME ClearIsSafe, TypeOK, CountInv, [Next]_vars
  PROVE  CountInv'
<1> DEFINE n == Cardinality(Occupied)
<1>a. /\ n \in 0 .. TIMER_QUEUE_MAX
      /\ n = TIMER_QUEUE_MAX => Occupied = Slots
  BY OccupiedBound
<1>b. handler' = handler => Occupied' = Occupied
  BY DEF Occupied
<1>c. UINT_MAX \in Nat /\ UINT_MAX > TIMER_QUEUE_MAX /\ TIMER_QUEUE_MAX \in Nat \ {0}
  BY TimerConstants DEF TimerConstants
<1> USE SlotFacts, <1>a, <1>b, <1>c
    DEF TypeOK, CountInv, InRegister, InClear, MainRuns, MayCall, ClearIsSafe,
        queueVars, mainVars, isrVars, csrVars
<1>1. CASE Tick BY <1>1 DEF Tick
<1>2. CASE InitTimeintHandler BY <1>2 DEF InitTimeintHandler
<1>3. CASE GlobalInterruptEnable BY <1>3 DEF GlobalInterruptEnable
<1>4. CASE GlobalInterruptDisable BY <1>4 DEF GlobalInterruptDisable
<1>5. CASE Register
  <2>1. CASE \E d \in Delays, r \in Repeats : RegisterTimer(d, r)
    BY <2>1 DEF RegisterTimer
  <2>2. CASE RegisterTimerExeTime BY <2>2 DEF RegisterTimerExeTime
  <2>3. CASE RegisterTimerCompare BY <2>3 DEF RegisterTimerCompare
  <2>4. CASE RegisterTimerArm BY <2>4 DEF RegisterTimerArm
  <2>5. CASE RegisterTimerInsert
    <3>1. PICK idx \in Slots :
            /\ handler[idx] = 0
            /\ handler' = [i \in Slots |-> IF i = idx THEN 1 ELSE handler[i]]
            /\ overrun' = overrun
      BY <2>5, InsertFindsSlot
    <3>2. Cardinality(Occupied') = n + 1
      BY <3>1, TakeSlot
    <3>3. count' = n + 1 /\ pc' = "idle" /\ overrun' = 0
      BY <2>5, <3>1 DEF RegisterTimerInsert, IncCount
    <3>4. QED BY <3>2, <3>3
  <2>6. QED BY <1>5, <2>1, <2>2, <2>3, <2>4, <2>5 DEF Register
<1>6. CASE Clear
  <2>1. CASE \E i \in Slots : ClearTimer(i) BY <2>1 DEF ClearTimer, NoClr
  <2>2. CASE ClearTimerHandler
    <3>1. Cardinality(Occupied') = n - 1
      BY <2>2, FreeSlot DEF ClearTimerHandler
    <3>2. QED BY <2>2, <3>1 DEF ClearTimerHandler
  <2>3. CASE ClearTimerScan BY <2>3 DEF ClearTimerScan
  <2>4. CASE ClearTimerArm BY <2>4 DEF ClearTimerArm
  <2>5. CASE ClearTimerLoadCount BY <2>5 DEF ClearTimerLoadCount
  <2>6. CASE ClearTimerStoreCount BY <2>6 DEF ClearTimerStoreCount, DecCount
  <2>7. CASE ClearAll BY <2>7 DEF ClearAll, NoClr
  <2>8. CASE ClearAllSlot BY <2>8 DEF ClearAllSlot
  <2>9. CASE ClearAllCount
    <3>1. Occupied' = {}
      BY <2>9 DEF ClearAllCount, Occupied
    <3>2. QED BY <2>9, <3>1 DEF ClearAllCount
  <2>10. CASE ClearAllArm BY <2>10, FS_EmptySet DEF ClearAllArm
  <2>11. QED
    BY <1>6, <2>1, <2>2, <2>3, <2>4, <2>5, <2>6, <2>7, <2>8, <2>9, <2>10
    DEF Clear
<1>7. CASE TimerInterrupt BY <1>7 DEF TimerInterrupt
<1>8. CASE ExecuteTimer
  <2>1. CASE ExecuteSkip BY <2>1 DEF ExecuteSkip
  <2>2. CASE ExecutePending BY <2>2 DEF ExecutePending
  <2>3. CASE ExecuteOneShot
    <3>1. /\ isr.i \in Slots /\ handler[isr.i] # 0
          /\ handler' = [handler EXCEPT ![isr.i] = 0]
      BY <2>3 DEF ExecuteOneShot
    <3>2. Cardinality(Occupied') = n - 1
      BY <3>1, FreeSlot
    <3>3. n # 0
      <4>1. isr.i \in Occupied BY <3>1 DEF Occupied
      <4>2. IsFiniteSet(Occupied) BY OccupiedBound
      <4>3. QED BY <4>1, <4>2, FS_EmptySet
    <3>4. QED BY <2>3, <3>2, <3>3 DEF ExecuteOneShot, DecCount
  <2>4. CASE ExecuteRepeat BY <2>4 DEF ExecuteRepeat
  <2>5. CASE ExecuteReturn BY <2>5 DEF ExecuteReturn
  <2>6. QED BY <1>8, <2>1, <2>2, <2>3, <2>4, <2>5 DEF ExecuteTimer
<1>9. CASE UNCHANGED vars BY <1>9 DEF vars, state
<1>10. QED
  BY <1>1, <1>2, <1>3, <1>4, <1>5, <1>6, <1>7, <1>8, <1>9 DEF Next

\* As long as no interrupt can fall inside a clear_timer, TIMER_COUNT is the
\* number of queued timers between calls and register_timer never writes past
\* pTIMER_QUEUE, for every queue size; register_timer itself needs no masking.
THEOREM CountAndBounds == Spec => []SlotsAreCounted
<1> DEFINE SafeInv == ClearIsSafe => CountInv
<1>1. Init => SafeInv
  <2>1. Init => Occupied = {} BY DEF Init, Occupied
  <2>2. QED BY <2>1, FS_EmptySet DEF Init, CountInv, InClear, InRegister
<1>2. TypeOK /\ SafeInv /\ [Next]_vars => SafeInv'
  <2> SUFFICES ASSUME TypeOK, SafeInv, [Next]_vars, ClearIsSafe' PROVE CountInv'
    OBVIOUS
  <2>1. ClearIsSafe BY DEF ClearIsSafe, Next, vars, program
  <2>2. QED BY <2>1, CountInvInductive
<1>3. SafeInv => SlotsAreCounted
  BY DEF CountInv, SlotsAreCounted, CountIsOccupancy, NoQueueOverrun
<1> HIDE DEF SafeInv
<1>4. QED
  BY <1>1, <1>2, <1>3, TypeCorrect, PTL DEF Spec

\* One step of a masked caller or of the handler keeps where the comparator's
\* value comes from: every rewrite of TIMECMP stores -1 or a queued expiry.
LEMMA ExactInvInductive ==
  ASSUME CallersMask, TypeOK, CountInv, ExactInv, [Next]_vars
  PROVE  ExactInv'
<1>a. TIMER_QUEUE_MAX \in Nat \ {0}
  BY TimerConstants DEF TimerConstants
<1> USE SlotFacts, <1>a
    DEF TypeOK, ExactInv, Exact, CallsAreMasked, MainRuns, MayCall,
        queueVars, mainVars, isrVars, csrVars
<1>1. CASE Tick BY <1>1 DEF Tick
<1>2. CASE InitTimeintHandler BY <1>2 DEF InitTimeintHandler
<1>3. CASE GlobalInterruptEnable BY <1>3 DEF GlobalInterruptEnable
<1>4. CASE GlobalInterruptDisable BY <1>4 DEF GlobalInterruptDisable
<1>5. CASE Register
  <2>1. CASE \E d \in Delays, r \in Repeats : RegisterTimer(d, r)
    BY <2>1 DEF RegisterTimer
  <2>2. CASE RegisterTimerExeTime BY <2>2 DEF RegisterTimerExeTime
  <2>3. CASE RegisterTimerCompare BY <2>3 DEF RegisterTimerCompare
  <2>4. CASE RegisterTimerArm BY <2>4 DEF RegisterTimerArm
  <2>5. CASE RegisterTimerInsert
    <3>1. PICK idx \in Slots :
            /\ handler[idx] = 0
            /\ handler' = [i \in Slots |-> IF i = idx THEN 1 ELSE handler[i]]
            /\ exe_time' =
                 [i \in Slots |-> IF i = idx THEN reg.exe ELSE exe_time[i]]
      BY <2>5, InsertFindsSlot
    <3>2. pc = "reg_insert" /\ pc' = "idle" /\ UNCHANGED <<mtimecmp, ipc, mie>>
      BY <2>5 DEF RegisterTimerInsert
    <3>3. CASE mtimecmp = reg.exe BY <3>1, <3>2, <3>3
    <3>4. CASE Exact(mtimecmp, TIMER_QUEUE_MAX) BY <3>1, <3>2, <3>4
    <3>5. QED BY <3>2, <3>3, <3>4
  <2>6. QED BY <1>5, <2>1, <2>2, <2>3, <2>4, <2>5 DEF Register
<1>6. CASE Clear
  <2>1. CASE \E i \in Slots : ClearTimer(i) BY <2>1 DEF ClearTimer
  <2>2. CASE ClearTimerHandler BY <2>2 DEF ClearTimerHandler
  <2>3. CASE ClearTimerScan BY <2>3 DEF ClearTimerScan
  <2>4. CASE ClearTimerArm BY <2>4 DEF ClearTimerArm
  <2>5. CASE ClearTimerLoadCount BY <2>5 DEF ClearTimerLoadCount
  <2>6. CASE ClearTimerStoreCount BY <2>6 DEF ClearTimerStoreCount
  <2>7. CASE ClearAll BY <2>7 DEF ClearAll, NoClr
  <2>8. CASE ClearAllSlot BY <2>8 DEF ClearAllSlot
  <2>9. CASE ClearAllCount BY <2>9 DEF ClearAllCount
  <2>10. CASE ClearAllArm BY <2>10 DEF ClearAllArm
  <2>11. QED
    BY <1>6, <2>1, <2>2, <2>3, <2>4, <2>5, <2>6, <2>7, <2>8, <2>9, <2>10
    DEF Clear
<1>7. CASE TimerInterrupt BY <1>7 DEF TimerInterrupt
<1>8. CASE ExecuteTimer
  <2>1. CASE ExecuteSkip BY <2>1 DEF ExecuteSkip
  <2>2. CASE ExecutePending BY <2>2 DEF ExecutePending
  <2>3. CASE ExecuteOneShot BY <2>3 DEF ExecuteOneShot
  <2>4. CASE ExecuteRepeat BY <2>4 DEF ExecuteRepeat
  <2>5. CASE ExecuteReturn BY <2>5 DEF ExecuteReturn
  <2>6. QED BY <1>8, <2>1, <2>2, <2>3, <2>4, <2>5 DEF ExecuteTimer
<1>9. CASE UNCHANGED vars BY <1>9 DEF vars, state
<1>10. QED
  BY <1>1, <1>2, <1>3, <1>4, <1>5, <1>6, <1>7, <1>8, <1>9 DEF Next

\* With masking callers the comparator, when armed, is armed for a timer that
\* is still queued: no call of register_timer or clear_timer and no run of
\* execute_timer, with one-shot or periodic timers, leaves a wakeup for a timer
\* that was cancelled or has fired.
THEOREM NoStale == Spec => []NoStaleWakeup
<1> DEFINE MaskedInv == CallersMask => CountInv /\ ExactInv
<1>1. Init => MaskedInv
  <2>1. Init => Occupied = {} BY DEF Init, Occupied
  <2>2. QED
    BY <2>1, FS_EmptySet
    DEF Init, CountInv, InClear, InRegister, ExactInv, CallsAreMasked
<1>2. TypeOK /\ MaskedInv /\ [Next]_vars => MaskedInv'
  <2> SUFFICES ASSUME TypeOK, MaskedInv, [Next]_vars, CallersMask'
               PROVE  CountInv' /\ ExactInv'
    OBVIOUS
  <2>1. CallersMask BY DEF Next, vars, program
  <2>2. QED BY <2>1, CountInvInductive, ExactInvInductive DEF ClearIsSafe
<1>3. MaskedInv => NoStaleWakeup
  BY DEF ExactInv, Exact, NoStaleWakeup, Quiescent, Occupied
<1> HIDE DEF MaskedInv
<1>4. QED
  BY <1>1, <1>2, <1>3, TypeCorrect, PTL DEF Spec
=============================================================================
