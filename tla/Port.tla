-------------------------------- MODULE Port --------------------------------
(* The RISC-V port under the scheduler (port/RISC-V) and the test of          *)
(* preemption on top of it (FREERTOS/preempt): one hart, whose context a trap *)
(* saves on the stack of the task it interrupts and reloads from the stack of *)
(* the task the scheduler chose, and the machine timer, a 64-bit counter and  *)
(* comparator that the hart reads and writes as two words.                    *)
(*                                                                            *)
(* Only the distance of a time from now matters to the comparator.  A high    *)
(* word is therefore kept relative to the high word of mtime, which makes the *)
(* clock finite without ever stopping it: a carry out of the low word of      *)
(* mtime lowers every other high word by one.                                 *)
EXTENDS Tasks

CONSTANTS
  Builds,     \* <<configUSE_PREEMPTION, configUSE_TIME_SLICING>> and the program
  WordMod,    \* 2^32
  Increment,  \* uxTimerIncrementsForOneTick
  Target,     \* PREEMPT_SWITCH_TARGET
  MaxNesting, \* bound: critical sections inside each other
  MaxLate     \* bound: ticks the hart can be behind the clock

ASSUME PortAssumption ==
  /\ Task = {0, 1, Idle} /\ Idle \notin {0, 1} /\ MAX_PRIORITIES > 1
  /\ \A b \in Builds : b.preempt \in {0, 1} /\ b.slicing \in {0, 1} /\ b.main \in {"test", "any"}
  /\ WordMod \in Nat \ {0, 1} /\ Increment \in 1 .. WordMod - 1
  /\ Target \in Nat \ {0} /\ MaxNesting \in Nat /\ MaxLate \in Nat \ {0}

VARIABLES
  build,  \* the configuration (never changes)
  k,      \* the scheduler's variables
  hart,   \* the running context: pc, mstatus.MIE, xCriticalNesting
  frame,  \* the context each task has on its stack
  clint,  \* mtime's low word, the words of mtimecmp and ullNextTime, and the two
          \* locals of vPortSetupTimerInterrupt
  late,   \* time since ulCurrentTimeLow was read: a rest below Increment, and
          \* the whole periods less the ticks taken (no variables of the code)
  test    \* the variables of FREERTOS_preempt.c; forced counts the ticks that
          \* took the hart from one task and gave it to another
vars == <<build, k, hart, frame, clint, late, test>>

Spin == {0, 1}
-----------------------------------------------------------------------------
(* The machine timer *)

Aged(x) == [x EXCEPT !.hi = @ - 1]
MTIP == clint.cmp.hi < 0 \/ (clint.cmp.hi = 0 /\ clint.cmp.lo <= clint.lo)

(* Before the end of vPortSetupTimerInterrupt mtimecmp has no value yet. *)
InSetup == hart.pc \in {"setup", "setup_low", "setup_again"}

Clock ==
  /\ late.owed < MaxLate /\ test.exit = "none"
  /\ LET lo == (clint.lo + 1) % WordMod
     IN clint' = IF lo # 0 THEN [clint EXCEPT !.lo = lo]
                 ELSE IF InSetup THEN [clint EXCEPT !.lo = lo, !.read = Aged(@)]
                 ELSE [clint EXCEPT !.lo = lo, !.cmp = Aged(@), !.next = Aged(@)]
  /\ late' = IF late.rest + 1 < Increment THEN [late EXCEPT !.rest = @ + 1]
             ELSE [rest |-> 0, owed |-> late.owed + 1]
  /\ UNCHANGED <<build, k, hart, frame, test>>

\* Slip: the carry out of the low word is dropped.
PlusDropsCarry(x) == [x EXCEPT !.lo = (@ + Increment) % WordMod]

(* add, sltu, add: the carry is seen from the sum being less than a summand. *)
Plus(x) ==
  LET lo == (x.lo + Increment) % WordMod
  IN [lo |-> lo, hi |-> x.hi + (IF lo < x.lo THEN 1 ELSE 0)]

(* portUPDATE_MTIMER_COMPARE_REGISTER.  The comparator is written in three    *)
(* stores, but with interrupts off nobody looks at MTIP meanwhile.            *)
UpdateCompare == [clint EXCEPT !.cmp = clint.next, !.next = Plus(@)]

(* The end of vPortSetupTimerInterrupt: mtimecmp is one period from the time  *)
(* read, ullNextTime two.                                                     *)
Zero == [hi |-> 0, lo |-> 0]
Armed == [clint EXCEPT !.cmp = Plus(clint.read), !.next = Plus(Plus(clint.read)), !.read = Zero]

(* vPortSetupTimerInterrupt: high word, low word, high word again. *)
SetupReadHigh ==
  /\ hart.pc = "setup" /\ hart' = [hart EXCEPT !.pc = "setup_low"]
  /\ clint' = [clint EXCEPT !.read.hi = 0]
  /\ UNCHANGED <<build, k, frame, late, test>>

SetupReadLow ==
  /\ hart.pc = "setup_low" /\ hart' = [hart EXCEPT !.pc = "setup_again"]
  /\ clint' = [clint EXCEPT !.read.lo = clint.lo]
  /\ late' = [rest |-> 0, owed |-> 0]
  /\ UNCHANGED <<build, k, frame, test>>

SetupReadAgain ==
  /\ hart.pc = "setup_again"
  /\ IF clint.read.hi # 0
     THEN hart' = [hart EXCEPT !.pc = "setup"] /\ UNCHANGED clint
     ELSE clint' = Armed /\ hart' = [hart EXCEPT !.pc = "first"]
  /\ UNCHANGED <<build, k, frame, late, test>>
-----------------------------------------------------------------------------
(* Contexts and traps *)

(* pxPortInitialiseStack: mepc is the task's function, MPIE is set. *)
pxPortInitialiseStack == [pc |-> "loop", mie |-> 1, nesting |-> 0]

xPortStartFirstTask ==
  /\ hart.pc = "first" /\ hart' = frame[k.cur]
  /\ UNCHANGED <<build, k, frame, clint, late, test>>

\* Slip: xCriticalNesting is not part of the context.
SharesNesting(k1, mepc) ==
  /\ k' = k1
  /\ frame' = [frame EXCEPT ![k.cur] = [hart EXCEPT !.pc = mepc]]
  /\ hart' = [frame'[k1.cur] EXCEPT !.nesting = hart.nesting]

(* portcontextSAVE_CONTEXT_INTERNAL, what the trap does to the scheduler's    *)
(* variables, and portcontextRESTORE_CONTEXT.                                 *)
Trap(k1, mepc) ==
  /\ k' = k1
  /\ frame' = [frame EXCEPT ![k.cur] = [hart EXCEPT !.pc = mepc]]
  /\ hart' = frame'[k1.cur]

Started == ~InSetup /\ hart.pc \notin {"first", "halt"}

(* freertos_risc_v_trap_handler, on the machine timer interrupt. *)
TimerInterrupt ==
  /\ Started /\ hart.mie = 1 /\ MTIP
  /\ clint' = UpdateCompare
  /\ \E r \in {xTaskIncrementTick(k)} :
       \E k1 \in {IF r.switch THEN vTaskSwitchContext(r.k) ELSE r.k} :
         /\ Trap(k1, hart.pc)
         /\ test' = IF k1.cur = k.cur \/ test.forced = Target + 2 THEN test
                    ELSE [test EXCEPT !.forced = @ + 1]
  /\ late' = [late EXCEPT !.owed = @ - 1]
  /\ UNCHANGED build

(* The same on an ecall: mepc is moved past it. *)
Ecall(next) ==
  /\ \E k1 \in {vTaskSwitchContext(k)} : Trap(k1, next)
  /\ UNCHANGED <<build, clint, late, test>>

(* portENTER_CRITICAL, portEXIT_CRITICAL *)
portENTER_CRITICAL(next) ==
  hart' = [pc |-> next, mie |-> 0, nesting |-> hart.nesting + 1]

\* Slip: interrupts stay off.
ExitStaysMasked(next) == hart' = [hart EXCEPT !.pc = next, !.nesting = @ - 1]

portEXIT_CRITICAL(next) ==
  hart' = [pc |-> next, nesting |-> hart.nesting - 1,
           mie |-> IF hart.nesting = 1 THEN 1 ELSE hart.mie]
-----------------------------------------------------------------------------
(* FREERTOS_preempt.c *)

At(place) == hart.pc = place /\ build.main = "test"
Me == k.cur
Stays == UNCHANGED <<build, k, frame, clint, late>>

(* main, up to vPortSetupTimerInterrupt.  The other program, in place of      *)
(* prvSpinTask, runs tasks that take and leave critical sections and yield in *)
(* them, as the scheduler's own functions do.                                 *)
Init ==
  /\ build \in Builds
  /\ k = LET one == prvAddNewTaskToReadyList(prvInitialiseTaskLists(build.preempt, build.slicing), 0, 1)
         IN vTaskStartScheduler(prvAddNewTaskToReadyList(one, 1, 1))
  /\ hart = [pc |-> "setup", mie |-> 0, nesting |-> 0]
  /\ frame = [t \in Task |-> pxPortInitialiseStack]
  /\ \E lo \in 0 .. WordMod - 1 :
       clint = [lo |-> lo, cmp |-> Zero, next |-> Zero, read |-> Zero]
  /\ late = [rest |-> 0, owed |-> 0]
  /\ test = [ran |-> [t \in Spin |-> 0], lastRunner |-> -1, switches |-> 0, done |-> 0,
             seq |-> [t \in Spin |-> 0], switched |-> [t \in Spin |-> 0], forced |-> 0,
             exit |-> "none"]

(* ulRunCount[iMe]++, of which only whether it is 0 matters. *)
SpinCounts ==
  /\ At("loop") /\ hart' = [hart EXCEPT !.pc = "enter"] /\ Stays
  /\ test' = [test EXCEPT !.ran[Me] = 1, !.seq[Me] = 0, !.switched[Me] = 0]

SpinEnters == At("enter") /\ portENTER_CRITICAL("test") /\ Stays /\ UNCHANGED test

\* Slip: a task counts every time it comes round.
NoticesAlways == test.done = 0

(* The test of iLastRunner and iDone, and the updates. *)
Noticed == test.lastRunner # Me /\ test.done = 0
SpinTests ==
  /\ At("test") /\ hart' = [hart EXCEPT !.pc = IF Noticed THEN "update" ELSE "exit"] /\ Stays
  /\ UNCHANGED test

SpinUpdates ==
  /\ At("update") /\ hart' = [hart EXCEPT !.pc = "exit"] /\ Stays
  /\ LET n == test.switches + (IF test.lastRunner >= 0 THEN 1 ELSE 0)
     IN test' = [test EXCEPT !.switched[Me] = 1, !.lastRunner = Me, !.switches = n,
                             !.seq[Me] = IF test.lastRunner >= 0 THEN n ELSE 0]

SpinExits ==
  /\ At("exit") /\ portEXIT_CRITICAL(IF test.switched[Me] = 1 THEN "print" ELSE "check") /\ Stays
  /\ UNCHANGED test

(* uart_putc, and the end of the test. *)
SpinPrints ==
  /\ At("print") /\ hart' = [hart EXCEPT !.pc = "check"] /\ Stays
  /\ test' = [test EXCEPT !.done = IF test.seq[Me] >= Target THEN 1 ELSE @]

SpinGoesOn ==
  /\ At("check") /\ test.done = 0 /\ hart' = [hart EXCEPT !.pc = "loop"] /\ Stays
  /\ UNCHANGED test

(* Task 1 steps aside. *)
SpinYields == At("check") /\ test.done = 1 /\ Me = 1 /\ Ecall("loop")

(* Task 0 gives the verdict, with interrupts disabled. *)
SpinReports ==
  /\ At("check") /\ test.done = 1 /\ Me = 0
  /\ hart' = [hart EXCEPT !.mie = 0, !.pc = "halt"] /\ Stays
  /\ test' = [test EXCEPT !.exit = IF /\ \A t \in Spin : test.ran[t] # 0
                                      /\ test.switches >= Target
                                   THEN "success" ELSE "fail"]
-----------------------------------------------------------------------------
(* The other program *)

AtAny == Started /\ build.main = "any"
AnyEnters == AtAny /\ hart.nesting < MaxNesting /\ portENTER_CRITICAL("loop") /\ Stays /\ UNCHANGED test
AnyExits == AtAny /\ hart.nesting > 0 /\ portEXIT_CRITICAL("loop") /\ Stays /\ UNCHANGED test
AnyYields == AtAny /\ Ecall("loop")

SpinStep ==
  \/ SpinCounts \/ SpinEnters \/ SpinTests \/ SpinUpdates \/ SpinExits
  \/ SpinPrints \/ SpinGoesOn \/ SpinYields \/ SpinReports
TaskStep == SpinStep \/ AnyEnters \/ AnyExits \/ AnyYields
Setup == SetupReadHigh \/ SetupReadLow \/ SetupReadAgain \/ xPortStartFirstTask

Next == Clock \/ Setup \/ TimerInterrupt \/ TaskStep
Spec == Init /\ [][Next]_vars

(* The clock runs, an interrupt that is enabled and pending is taken, and     *)
(* each task gets on in the slices it is given: a slice is 1 ms, 500000       *)
(* cycles, and the longest step, a character on the UART, takes 43400.        *)
FairSpec ==
  /\ Spec /\ WF_vars(Clock) /\ WF_vars(Setup) /\ SF_vars(TimerInterrupt)
  /\ \A t \in Spin : SF_vars(SpinStep /\ k.cur = t)
-----------------------------------------------------------------------------
Slices == build.preempt = 1 /\ build.slicing = 1

(* The machine timer interrupt is pending exactly when a tick is due: ticks   *)
(* come one period after another from the moment the clock was read, and none *)
(* is early, lost or doubled, however the two halves of the 64-bit times are  *)
(* read and carried.                                                          *)
TicksKeepTime == Started => (MTIP <=> late.owed > 0)

(* A task runs with interrupts enabled exactly outside its own critical       *)
(* sections, whatever the task before it was in the middle of; so does every  *)
(* task that waits for the hart.                                              *)
MaskMatchesNesting ==
  /\ Started => (hart.mie = 1 <=> hart.nesting = 0)
  /\ \A t \in Task : frame[t].mie = 1 <=> frame[t].nesting = 0

(* Every switch the test counts was forced by a tick: the test cannot count   *)
(* one twice, and no task gives the hart away before the last one.            *)
CountedSwitchIsForced == test.switches <= test.forced

(* Without time slicing the test cannot report: no counted switch, no verdict. *)
NoSlicingNoVerdict == ~Slices => test.switches = 0 /\ test.exit = "none"

(* When the test reports, both tasks ran and the switches are enough: the     *)
(* verdict is never "fail".                                                   *)
VerdictIsSuccess == test.exit # "fail"

(* The preemption test reports success exactly for what it is to show: only   *)
(* forced switches count, enough of them, in a build that slices time.        *)
VerdictIsRight == CountedSwitchIsForced /\ NoSlicingNoVerdict /\ VerdictIsSuccess

(* Once the scheduler runs with time slicing, the test ends. *)
TestEnds == (Started /\ build.main = "test" /\ Slices) ~> (test.exit = "success")
-----------------------------------------------------------------------------
(* The inductive invariant.  The two tasks of the test are the only ones of   *)
(* their priority and never block, so that the lists never change.            *)


Sched(x) ==
  /\ DOMAIN x = Fields /\ DOMAIN x.index = Lists
  /\ x.list[Ready(1)] = <<0, 1>>
  /\ x.list[Delayed(0)] = <<>> /\ x.list[Delayed(1)] = <<>>
  /\ x.index[Ready(1)] \in Nat
  /\ x.cur \in Spin /\ \A t \in Spin : x.prio[t] = 1
  /\ x.top = 1 /\ x.susp = 0 /\ x.yield = 0 /\ x.del \in {0, 1}

(* Contexts: a task is preempted, or yields, outside the critical section of  *)
(* the test.                                                                  *)
InCritical == {"test", "update", "exit"}
Places == InCritical \cup {"loop", "enter", "print", "check"}
Before == {"setup", "setup_low", "setup_again", "first"}

ContextInv ==
  /\ hart \in [pc : Places \cup Before \cup {"halt"}, mie : {0, 1}, nesting : Nat]
  /\ frame \in [Task -> [pc : Places, mie : {0, 1}, nesting : Nat]]
  /\ Sched(k) /\ k.preempt = build.preempt /\ k.slicing = build.slicing
  /\ build \in Builds
  /\ MaskMatchesNesting
  /\ build.main = "test" =>
       /\ Started => hart.nesting = IF hart.pc \in InCritical THEN 1 ELSE 0
       /\ \A t \in Task : frame[t].pc \notin InCritical /\ frame[t].nesting = 0

(* The comparator is one period after the tick before it, the ticks are       *)
(* Increment apart since the clock was read, and what is left of the last     *)
(* period is rest.  While the clock is being read, every carry since the low  *)
(* word was read has also lowered the high word read before it.               *)
Word == 0 .. WordMod - 1
Times == [hi : Int, lo : Word]
Val(x) == x.hi * WordMod + x.lo
Elapsed == late.owed * Increment + late.rest

TimeType ==
  /\ clint \in [lo : Word, cmp : Times, next : Times, read : Times]
  /\ late \in [rest : 0 .. Increment - 1, owed : Nat]

ClockInv ==
  /\ hart.pc \in {"setup_low", "setup_again"} => clint.read.hi <= 0
  /\ hart.pc = "setup_again" =>
       \E c \in 0 .. -clint.read.hi : clint.read.lo + Elapsed = clint.lo + c * WordMod
  /\ ~InSetup => /\ Val(clint.cmp) + Elapsed = clint.lo + Increment
                 /\ Val(clint.next) = Val(clint.cmp) + Increment

(* The test: PcOf is where a task is, running or not.  A task that has seen   *)
(* enough switches ends the test when it gets to print; until then the other  *)
(* one may count one more.                                                    *)
PcOf(t) == IF t = k.cur /\ hart.pc \notin Before THEN hart.pc ELSE frame[t].pc
Ends(t) == IF PcOf(t) \in {"exit", "print"} /\ test.seq[t] >= Target THEN 1 ELSE 0
Unnoticed == IF test.lastRunner \in Spin \ {k.cur} THEN 1 ELSE 0

TestType ==
  test \in [ran : [Spin -> {0, 1}], lastRunner : Spin \cup {-1}, switches : Nat, done : {0, 1},
            seq : [Spin -> Nat], switched : [Spin -> {0, 1}], forced : 0 .. Target + 2,
            exit : {"none", "success"}]

CountInv ==
  /\ \A t \in Spin : PcOf(t) # "loop" => test.ran[t] = 1
  /\ test.lastRunner \in Spin => test.ran[test.lastRunner] = 1
  /\ test.lastRunner = -1 => test.switches = 0
  /\ test.switches > 0 => \A t \in Spin : test.ran[t] = 1
  /\ \A t \in Spin : test.seq[t] <= test.switches /\ (test.seq[t] > 0 => test.switched[t] = 1)
  /\ hart.pc = "update" => test.done = 0 /\ test.lastRunner # k.cur
  /\ test.done = 0 => /\ test.switches < Target + Ends(0) + Ends(1)
                      /\ test.switches + Unnoticed <= test.forced
  /\ test.done = 1 => test.switches \in {Target, Target + 1} /\ test.switches <= test.forced
  /\ ~Slices => k.cur = 1 /\ test.lastRunner # 0 /\ test.switches = 0 /\ test.exit = "none"

TestInv ==
  /\ TestType
  /\ build.main = "test" => CountInv
  /\ build.main = "any" => test.switches = 0 /\ test.exit = "none"

IInv == ContextInv /\ TimeType /\ ClockInv /\ TestInv
=============================================================================
