----------------------------- MODULE TimerQueue -----------------------------
(***************************************************************************)
(* The soft timer queue of Platform/Common/Src/timer.c: one hardware       *)
(* comparator (the CLINT's mtimecmp) shared by TIMER_QUEUE_MAX callbacks.  *)
(*                                                                         *)
(* One hart runs everything.  The main line calls register_timer and       *)
(* clear_timer; execute_timer runs as the timer interrupt, suspends the    *)
(* main line between any two of its accesses to shared memory, and is not  *)
(* itself interrupted.  Every access of the main line to TIMECMP, to       *)
(* pTIMER_QUEUE or to TIMER_COUNT is therefore a step of its own, except   *)
(* where the code has cleared mstatus.MIE.                                 *)
(***************************************************************************)
EXTENDS Integers, FiniteSets

CONSTANTS
  TIMER_QUEUE_MAX,  \* slots of pTIMER_QUEUE
  CLOCK_TIME,       \* numerator of the ns-to-ticks conversion, over 1024
  Delays,           \* delay_ns arguments of register_timer
  Programs,         \* the programs considered: see the variables they give
  NEVER,            \* (uint64_t)-1, the disarmed comparator
  UINT_MAX,         \* largest unsigned int: TIMER_COUNT wraps to it below 0
  MaxTime           \* bound: the clock stops here

ASSUME TimerConstants ==
  /\ TIMER_QUEUE_MAX \in Nat \ {0}
  /\ CLOCK_TIME \in Nat
  /\ Delays \subseteq Nat
  /\ Programs \subseteq
       [CallersMask : BOOLEAN, UsesClear : BOOLEAN, Repeats : SUBSET Nat]
  /\ NEVER \in Nat
  /\ UINT_MAX \in Nat /\ UINT_MAX > TIMER_QUEUE_MAX
  /\ MaxTime \in Nat

\* No reachable expiry is as late as the disarmed comparator.
ASSUME NeverIsLate ==
  \A t \in 0 .. MaxTime, d \in Delays \cup UNION {p.Repeats : p \in Programs} :
     t + (d * CLOCK_TIME) \div 1024 < NEVER

Slots == 0 .. TIMER_QUEUE_MAX - 1

VARIABLES
  CallersMask,  \* TRUE: the API is only called with mstatus.MIE clear
  UsesClear,    \* TRUE: the program also calls clear_timer
  Repeats,      \* repeat_ns arguments of its register_timer calls
  time,       \* CLINT mtime
  mtimecmp,   \* CLINT mtimecmp
  mie,        \* mstatus.MIE as the main line left it
  mtie,       \* mie.MTIE
  handler,    \* pTIMER_QUEUE[i].handler: 0, or 1 for a callback
  exe_time,   \* pTIMER_QUEUE[i].exe_time
  repeat_ns,  \* pTIMER_QUEUE[i].repeat_ns
  count,      \* TIMER_COUNT
  overrun,    \* some register_timer wrote pTIMER_QUEUE[TIMER_QUEUE_MAX]
  pc,         \* where the main line is
  reg,        \* register_timer's arguments and exe_time
  clr,        \* clear_timer's idx, loop index, min_time and loaded TIMER_COUNT
  ipc,        \* where the interrupt handler is; "off" when none runs
  isr         \* execute_timer's locals

queueVars == <<handler, exe_time, repeat_ns, count, overrun>>
mainVars  == <<pc, reg, clr>>
isrVars   == <<ipc, isr>>
csrVars   == <<mie, mtie>>
program   == <<CallersMask, UsesClear, Repeats>>  \* never changes
state     == <<time, mtimecmp, csrVars, queueVars, mainVars, isrVars>>
vars == <<program, state>>

Ticks(ns) == (ns * CLOCK_TIME) \div 1024

DecCount(c) == IF c = 0 THEN UINT_MAX ELSE c - 1
IncCount(c) == IF c = UINT_MAX THEN 0 ELSE c + 1

Occupied == {i \in Slots : handler[i] # 0}

\* CLINT: mip.MTIP is the level mtime >= mtimecmp.
MTIP == time >= mtimecmp

MainRuns(at) == ipc = "off" /\ pc = at

NoReg == [delay |-> 0, repeat |-> 0, exe |-> 0]
NoClr == [idx |-> 0, scan |-> 0, min |-> 0, cnt |-> 0]
NoIsr == [i |-> 0, time |-> 0, min |-> 0]

Init ==
  /\ \E p \in Programs : /\ CallersMask = p.CallersMask
                        /\ UsesClear = p.UsesClear
                        /\ Repeats = p.Repeats
  /\ time = 0
  /\ mtimecmp \in {0, NEVER}       \* the comparator has no defined reset value
  /\ mie = 0 /\ mtie = 0
  /\ handler = [i \in Slots |-> 0]
  /\ exe_time = [i \in Slots |-> 0]
  /\ repeat_ns = [i \in Slots |-> 0]
  /\ count = 0
  /\ overrun = 0
  /\ pc = "boot" /\ reg = NoReg /\ clr = NoClr
  /\ ipc = "off" /\ isr = NoIsr

-----------------------------------------------------------------------------
(* The hardware clock and the caller's interrupt windows.                  *)

Tick ==
  /\ time < MaxTime
  /\ time' = time + 1
  /\ UNCHANGED <<mtimecmp, csrVars, queueVars, mainVars, isrVars>>

InitTimeintHandler ==
  /\ MainRuns("boot")
  /\ mtimecmp' = NEVER
  /\ mtie' = 1
  /\ pc' = "idle"
  /\ UNCHANGED <<time, mie, queueVars, reg, clr, isrVars>>

GlobalInterruptEnable ==
  /\ MainRuns("idle") /\ mie = 0
  /\ mie' = 1
  /\ UNCHANGED <<time, mtimecmp, mtie, queueVars, mainVars, isrVars>>

GlobalInterruptDisable ==
  /\ MainRuns("idle") /\ mie = 1
  /\ mie' = 0
  /\ UNCHANGED <<time, mtimecmp, mtie, queueVars, mainVars, isrVars>>

MayCall == MainRuns("idle") /\ (CallersMask => mie = 0)

-----------------------------------------------------------------------------
(* register_timer(handler, delay_ns, repeat_ns)                            *)

\* A full queue returns TIMER_COUNT and changes nothing.
RegisterTimer(d, r) ==
  /\ MayCall
  /\ count < TIMER_QUEUE_MAX
  /\ pc' = "reg_time"
  /\ reg' = [delay |-> d, repeat |-> r, exe |-> 0]
  /\ UNCHANGED <<time, mtimecmp, csrVars, queueVars, clr, isrVars>>

\* Slip: the delay is subtracted from the clock.
RegisterTimerExeTimeBack ==
  /\ MainRuns("reg_time")
  /\ reg' = [reg EXCEPT !.exe = time - Ticks(reg.delay)]
  /\ pc' = "reg_cmp"
  /\ UNCHANGED <<time, mtimecmp, csrVars, queueVars, clr, isrVars>>

RegisterTimerExeTime ==
  /\ MainRuns("reg_time")
  /\ reg' = [reg EXCEPT !.exe = time + Ticks(reg.delay)]
  /\ pc' = "reg_cmp"
  /\ UNCHANGED <<time, mtimecmp, csrVars, queueVars, clr, isrVars>>

RegisterTimerCompare ==
  /\ MainRuns("reg_cmp")
  /\ pc' = IF reg.exe < mtimecmp THEN "reg_arm" ELSE "reg_insert"
  /\ UNCHANGED <<time, mtimecmp, csrVars, queueVars, reg, clr, isrVars>>

RegisterTimerArm ==
  /\ MainRuns("reg_arm")
  /\ mtimecmp' = reg.exe
  /\ pc' = "reg_insert"
  /\ UNCHANGED <<time, csrVars, queueVars, reg, clr, isrVars>>

\* mstatus.MIE is clear from the search of the slot to TIMER_COUNT++.  The
\* search stops at the first free slot, or one past the last slot.
RegisterTimerInsert ==
  /\ MainRuns("reg_insert")
  /\ \E idx \in 0 .. TIMER_QUEUE_MAX :
       /\ \A j \in 0 .. idx - 1 : handler[j] # 0
       /\ idx \in Slots => handler[idx] = 0
       /\ handler' = [i \in Slots |-> IF i = idx THEN 1 ELSE handler[i]]
       /\ exe_time' = [i \in Slots |-> IF i = idx THEN reg.exe ELSE exe_time[i]]
       /\ repeat_ns' =
            [i \in Slots |-> IF i = idx THEN reg.repeat ELSE repeat_ns[i]]
       /\ overrun' = IF idx = TIMER_QUEUE_MAX THEN 1 ELSE overrun
  /\ count' = IncCount(count)
  /\ pc' = "idle" /\ reg' = NoReg
  /\ UNCHANGED <<time, mtimecmp, csrVars, clr, isrVars>>

-----------------------------------------------------------------------------
(* clear_timer(idx), and clear_timer(-1) for the whole queue               *)

ClearTimer(i) ==
  /\ UsesClear /\ MayCall
  /\ handler[i] # 0
  /\ pc' = "clr_handler"
  /\ clr' = [NoClr EXCEPT !.idx = i]
  /\ UNCHANGED <<time, mtimecmp, csrVars, queueVars, reg, isrVars>>

ClearTimerHandler ==
  /\ MainRuns("clr_handler")
  /\ handler' = [handler EXCEPT ![clr.idx] = 0]
  /\ clr' = [clr EXCEPT !.min = NEVER, !.scan = 0]
  /\ pc' = "clr_scan"
  /\ UNCHANGED <<time, mtimecmp, csrVars, exe_time, repeat_ns, count, overrun,
                 reg, isrVars>>

ClearTimerScan ==
  /\ MainRuns("clr_scan")
  /\ clr.scan < TIMER_QUEUE_MAX
  /\ clr' = [clr EXCEPT !.scan = @ + 1,
                        !.min = IF handler[clr.scan] # 0 /\ exe_time[clr.scan] < @
                                THEN exe_time[clr.scan] ELSE @]
  /\ UNCHANGED <<time, mtimecmp, csrVars, queueVars, pc, reg, isrVars>>

\* Slip: the comparator keeps the cancelled timer's expiry.
ClearTimerArmKeeps ==
  /\ MainRuns("clr_scan")
  /\ clr.scan = TIMER_QUEUE_MAX
  /\ pc' = "clr_load"
  /\ UNCHANGED <<time, mtimecmp, csrVars, queueVars, clr, reg, isrVars>>

ClearTimerArm ==
  /\ MainRuns("clr_scan")
  /\ clr.scan = TIMER_QUEUE_MAX
  /\ mtimecmp' = clr.min
  /\ pc' = "clr_load"
  /\ UNCHANGED <<time, csrVars, queueVars, clr, reg, isrVars>>

\* TIMER_COUNT-- is a load and a store to an interrupt.
ClearTimerLoadCount ==
  /\ MainRuns("clr_load")
  /\ clr' = [clr EXCEPT !.cnt = count]
  /\ pc' = "clr_store"
  /\ UNCHANGED <<time, mtimecmp, csrVars, queueVars, reg, isrVars>>

ClearTimerStoreCount ==
  /\ MainRuns("clr_store")
  /\ count' = DecCount(clr.cnt)
  /\ pc' = "idle" /\ clr' = NoClr
  /\ UNCHANGED <<time, mtimecmp, csrVars, handler, exe_time, repeat_ns, overrun,
                 reg, isrVars>>

ClearAll ==
  /\ UsesClear /\ MayCall
  /\ pc' = "all_slot" /\ clr' = NoClr
  /\ UNCHANGED <<time, mtimecmp, csrVars, queueVars, reg, isrVars>>

\* __wrap_memset walks the queue; an interrupt may fall between two slots.
ClearAllSlot ==
  /\ MainRuns("all_slot")
  /\ clr.scan < TIMER_QUEUE_MAX
  /\ handler' = [handler EXCEPT ![clr.scan] = 0]
  /\ exe_time' = [exe_time EXCEPT ![clr.scan] = 0]
  /\ repeat_ns' = [repeat_ns EXCEPT ![clr.scan] = 0]
  /\ clr' = [clr EXCEPT !.scan = @ + 1]
  /\ UNCHANGED <<time, mtimecmp, csrVars, count, overrun, pc, reg, isrVars>>

ClearAllCount ==
  /\ MainRuns("all_slot")
  /\ clr.scan = TIMER_QUEUE_MAX
  /\ count' = 0
  /\ pc' = "all_arm"
  /\ UNCHANGED <<time, mtimecmp, csrVars, handler, exe_time, repeat_ns, overrun,
                 clr, reg, isrVars>>

ClearAllArm ==
  /\ MainRuns("all_arm")
  /\ mtimecmp' = NEVER
  /\ pc' = "idle" /\ clr' = NoClr
  /\ UNCHANGED <<time, csrVars, queueVars, reg, isrVars>>

-----------------------------------------------------------------------------
(* execute_timer, entered through the trap                                 *)

TimerInterrupt ==
  /\ ipc = "off" /\ mie = 1 /\ mtie = 1 /\ MTIP
  /\ ipc' = "scan"
  /\ isr' = [i |-> 0, time |-> time, min |-> NEVER]
  /\ UNCHANGED <<time, mtimecmp, csrVars, queueVars, mainVars>>

ExecuteSkip ==
  /\ ipc = "scan" /\ isr.i < TIMER_QUEUE_MAX
  /\ handler[isr.i] = 0
  /\ isr' = [isr EXCEPT !.i = @ + 1]
  /\ UNCHANGED <<time, mtimecmp, csrVars, queueVars, mainVars, ipc>>

\* Slip: the latest pending expiry is kept instead of the earliest.
ExecutePendingLatest ==
  /\ ipc = "scan" /\ isr.i < TIMER_QUEUE_MAX
  /\ handler[isr.i] # 0 /\ exe_time[isr.i] >= isr.time
  /\ isr' = [isr EXCEPT !.i = @ + 1,
                        !.min = IF exe_time[isr.i] > @ \/ @ = NEVER
                                THEN exe_time[isr.i] ELSE @]
  /\ UNCHANGED <<time, mtimecmp, csrVars, queueVars, mainVars, ipc>>

ExecutePending ==
  /\ ipc = "scan" /\ isr.i < TIMER_QUEUE_MAX
  /\ handler[isr.i] # 0 /\ exe_time[isr.i] >= isr.time
  /\ isr' = [isr EXCEPT !.i = @ + 1,
                        !.min = IF exe_time[isr.i] < @
                                THEN exe_time[isr.i] ELSE @]
  /\ UNCHANGED <<time, mtimecmp, csrVars, queueVars, mainVars, ipc>>

\* Slip: the slot is freed and TIMER_COUNT is not decremented.
ExecuteOneShotKeepsCount ==
  /\ ipc = "scan" /\ isr.i < TIMER_QUEUE_MAX
  /\ handler[isr.i] # 0 /\ exe_time[isr.i] < isr.time
  /\ repeat_ns[isr.i] = 0
  /\ handler' = [handler EXCEPT ![isr.i] = 0]
  /\ isr' = [isr EXCEPT !.i = @ + 1]
  /\ UNCHANGED <<time, mtimecmp, csrVars, exe_time, repeat_ns, count, overrun,
                 mainVars, ipc>>

ExecuteOneShot ==
  /\ ipc = "scan" /\ isr.i < TIMER_QUEUE_MAX
  /\ handler[isr.i] # 0 /\ exe_time[isr.i] < isr.time
  /\ repeat_ns[isr.i] = 0
  /\ handler' = [handler EXCEPT ![isr.i] = 0]
  /\ count' = DecCount(count)
  /\ isr' = [isr EXCEPT !.i = @ + 1]
  /\ UNCHANGED <<time, mtimecmp, csrVars, exe_time, repeat_ns, overrun,
                 mainVars, ipc>>

\* The comparison with min_time is the code's: the new expiry replaces
\* min_time when it is the LATER of the two.
ExecuteRepeat ==
  /\ ipc = "scan" /\ isr.i < TIMER_QUEUE_MAX
  /\ handler[isr.i] # 0 /\ exe_time[isr.i] < isr.time
  /\ repeat_ns[isr.i] > 0
  /\ LET next == isr.time + Ticks(repeat_ns[isr.i])
     IN  /\ exe_time' = [exe_time EXCEPT ![isr.i] = next]
         /\ isr' = [isr EXCEPT !.i = @ + 1,
                               !.min = IF next > @ THEN next ELSE @]
  /\ UNCHANGED <<time, mtimecmp, csrVars, handler, repeat_ns, count, overrun,
                 mainVars, ipc>>

\* Slip: the handler returns without rearming, mtimecmp pushed to -1.
ExecuteReturnDisarmed ==
  /\ ipc = "scan" /\ isr.i = TIMER_QUEUE_MAX
  /\ mtimecmp' = NEVER
  /\ ipc' = "off" /\ isr' = NoIsr
  /\ UNCHANGED <<time, csrVars, queueVars, mainVars>>

ExecuteReturn ==
  /\ ipc = "scan" /\ isr.i = TIMER_QUEUE_MAX
  /\ mtimecmp' = isr.min
  /\ ipc' = "off" /\ isr' = NoIsr
  /\ UNCHANGED <<time, csrVars, queueVars, mainVars>>

-----------------------------------------------------------------------------
Register ==
  \/ \E d \in Delays, r \in Repeats : RegisterTimer(d, r)
  \/ RegisterTimerExeTime
  \/ RegisterTimerCompare
  \/ RegisterTimerArm
  \/ RegisterTimerInsert

Clear ==
  \/ \E i \in Slots : ClearTimer(i)
  \/ ClearTimerHandler
  \/ ClearTimerScan
  \/ ClearTimerArm
  \/ ClearTimerLoadCount
  \/ ClearTimerStoreCount
  \/ ClearAll
  \/ ClearAllSlot
  \/ ClearAllCount
  \/ ClearAllArm

ExecuteTimer ==
  \/ ExecuteSkip
  \/ ExecutePending
  \/ ExecuteOneShot
  \/ ExecuteRepeat
  \/ ExecuteReturn

Next ==
  /\ \/ Tick
     \/ InitTimeintHandler
     \/ GlobalInterruptEnable
     \/ GlobalInterruptDisable
     \/ Register
     \/ Clear
     \/ TimerInterrupt
     \/ ExecuteTimer
  /\ UNCHANGED program

Spec == Init /\ [][Next]_vars

\* The steps of an API call that has begun.
CallStep ==
  \/ RegisterTimerExeTime \/ RegisterTimerCompare \/ RegisterTimerArm
  \/ RegisterTimerInsert
  \/ ClearTimerHandler \/ ClearTimerScan \/ ClearTimerArm
  \/ ClearTimerLoadCount \/ ClearTimerStoreCount
  \/ ClearAllSlot \/ ClearAllCount \/ ClearAllArm

\* The clock runs, a call and a handler that have begun run on, and a pending
\* interrupt is taken in some window; callers open windows again and again, as
\* the round loop of CLINT_timer_interrupt does.
Fairness ==
  /\ WF_state(Tick)
  /\ WF_state(InitTimeintHandler)
  /\ WF_state(CallStep)
  /\ WF_state(ExecuteTimer)
  /\ SF_state(TimerInterrupt)
  /\ SF_state(GlobalInterruptEnable)

FairSpec == Spec /\ Fairness

-----------------------------------------------------------------------------
TypeOK ==
  /\ CallersMask \in BOOLEAN /\ UsesClear \in BOOLEAN /\ Repeats \subseteq Nat
  /\ time \in 0 .. MaxTime
  /\ mtimecmp \in Nat
  /\ mie \in {0, 1} /\ mtie \in {0, 1}
  /\ handler \in [Slots -> {0, 1}]
  /\ exe_time \in [Slots -> Nat]
  /\ repeat_ns \in [Slots -> Nat]
  /\ count \in 0 .. UINT_MAX
  /\ overrun \in {0, 1}
  /\ pc \in {"boot", "idle", "reg_time", "reg_cmp", "reg_arm", "reg_insert",
             "clr_handler", "clr_scan", "clr_load", "clr_store",
             "all_slot", "all_arm"}
  /\ reg \in [delay : Nat, repeat : Nat, exe : Nat]
  /\ clr \in [idx : Slots, scan : 0 .. TIMER_QUEUE_MAX, min : Nat,
              cnt : 0 .. UINT_MAX]
  /\ ipc \in {"off", "scan"}
  /\ isr \in [i : 0 .. TIMER_QUEUE_MAX, time : Nat, min : Nat]

\* No interrupt can fall inside a clear_timer: callers mask, or none is called.
ClearIsSafe == CallersMask \/ ~UsesClear

Quiescent == pc = "idle" /\ ipc = "off"

\* The comparator never sleeps past a timer: whenever neither an API call nor
\* the handler is in progress, mtimecmp is no later than the expiry of any
\* queued timer (register_timer, execute_timer and clear_timer all rewrite it).
\* It holds for callers that mask and for one-shot timers: see RepeatIsRearmed.
EarliestIsArmed ==
  Quiescent /\ CallersMask /\ Repeats \subseteq {0} =>
     \A i \in Occupied : mtimecmp <= exe_time[i]

\* A repeating timer stays armed: once a periodic timer is queued the comparator
\* is never left later than its next expiry (execute_timer's rearming).
RepeatIsRearmed ==
  Quiescent => \A i \in Occupied : repeat_ns[i] > 0 => mtimecmp <= exe_time[i]

\* TIMER_COUNT, which register_timer trusts before it searches a slot and which
\* three functions update on their own, is the number of queued timers whenever
\* no API call is in progress, inside the handler too, unless an interrupt may
\* fall inside a clear_timer.
CountIsOccupancy ==
  pc = "idle" /\ ClearIsSafe => count = Cardinality(Occupied)

\* register_timer never runs off the end of pTIMER_QUEUE: the test of
\* TIMER_COUNT before the search guarantees a free slot after it.
NoQueueOverrun == ClearIsSafe => overrun = 0

\* register_timer may trust TIMER_COUNT: the count is the occupancy, and the
\* slot it stands for is there, whatever interrupts fall into the call.
SlotsAreCounted == CountIsOccupancy /\ NoQueueOverrun

\* A disarmed comparator means an empty queue, and an armed one is the exact
\* expiry of a queued timer: nothing wakes the hart for a timer that was
\* cancelled or has fired, if callers mask.
NoStaleWakeup ==
  Quiescent /\ CallersMask /\ mtimecmp # NEVER =>
     \E i \in Occupied : mtimecmp = exe_time[i]

\* Every queued one-shot timer due within the bounded clock is eventually fired
\* or cancelled, in a program that masks and has no periodic timers.
EveryTimerFires ==
  \A i \in Slots :
    (CallersMask /\ Repeats \subseteq {0} /\ handler[i] # 0 /\ exe_time[i] < MaxTime)
      ~> handler[i] = 0

-----------------------------------------------------------------------------
(* The inductive invariants behind EarliestIsArmed, CountIsOccupancy and   *)
(* NoStaleWakeup.                                                          *)

InRegister == {"reg_time", "reg_cmp", "reg_arm", "reg_insert"}

Armed == \A i \in Slots : handler[i] # 0 => mtimecmp <= exe_time[i]

\* Callers that mask keep the handler out of their calls.
CallsAreMasked == pc # "idle" => ipc = "off" /\ mie = 0

OneShotOnly ==
  /\ \A i \in Slots : repeat_ns[i] = 0
  /\ reg.repeat = 0

\* What each point of the code knows of the comparator and the queue.
ArmInv ==
  /\ CallsAreMasked
  /\ OneShotOnly
  /\ pc = "boot" => \A i \in Slots : handler[i] = 0
  /\ pc = "idle" /\ ipc = "off" => Armed
  /\ pc \in InRegister => Armed
  /\ pc = "reg_insert" => mtimecmp <= reg.exe
  /\ pc = "reg_arm" => reg.exe < mtimecmp
  /\ pc = "clr_scan" => \A i \in Slots :
        i < clr.scan /\ handler[i] # 0 => clr.min <= exe_time[i]
  /\ pc \in {"clr_load", "clr_store"} => Armed
  /\ pc = "all_slot" => \A i \in Slots : i < clr.scan => handler[i] = 0
  /\ pc = "all_arm" => \A i \in Slots : handler[i] = 0
  /\ ipc = "scan" => \A i \in Slots :
        i < isr.i /\ handler[i] # 0 => isr.min <= exe_time[i]

InClear == {"clr_handler", "clr_scan", "clr_load", "clr_store",
            "all_slot", "all_arm"}

\* What TIMER_COUNT is at each point of the code.
CountInv ==
  /\ overrun = 0
  /\ pc \in InClear => ipc = "off" /\ mie = 0
  /\ pc \in {"boot", "idle", "clr_handler"} \cup InRegister =>
        count = Cardinality(Occupied)
  /\ pc \in InRegister => count < TIMER_QUEUE_MAX
  /\ pc = "clr_handler" => handler[clr.idx] # 0
  /\ pc \in {"clr_scan", "clr_load"} => count = Cardinality(Occupied) + 1
  /\ pc = "clr_store" => clr.cnt = Cardinality(Occupied) + 1
  /\ pc = "all_slot" => \A i \in Slots : i < clr.scan => handler[i] = 0
  /\ pc = "all_arm" => count = 0 /\ Occupied = {}

\* m disarms the comparator, or is the expiry of a timer queued below slot n.
Exact(m, n) ==
  m = NEVER \/ \E i \in Slots : i < n /\ handler[i] # 0 /\ exe_time[i] = m

\* Where the value that is, or will be, in the comparator comes from.
ExactInv ==
  /\ CallsAreMasked
  /\ (pc = "idle" /\ ipc = "off")
       \/ pc \in {"reg_time", "reg_cmp", "reg_arm", "clr_load", "clr_store"} =>
        Exact(mtimecmp, TIMER_QUEUE_MAX)
  /\ pc = "reg_insert" =>
        mtimecmp = reg.exe \/ Exact(mtimecmp, TIMER_QUEUE_MAX)
  /\ pc = "clr_scan" => Exact(clr.min, clr.scan)
  /\ ipc = "scan" => Exact(isr.min, isr.i)
=============================================================================
