# chip_platform: a TLA+ verification project

chip_platform is bare-metal RISC-V firmware, the drivers under it and the
co-simulation frame that tests it. A *DUT* (Rocket under verilator, the Spike
ISS, or silicon) runs one test ELF. A *host* sequence (a "Vseq", C++) drives the
same test from outside, through words of the DUT's memory and its interrupt
lines. The project models the parts written for this repository, and the FreeRTOS
kernel as the repository configures it: `kernel/` is upstream code, but the port,
the configuration and the preemption test only make sense on top of it. CoreMark
and Dhrystone are vendored too and left out.

Paths are relative to `src/`. `PROJECT.json` lists every component, the runs, the
mutants (one seeded slip per property), the source lines behind each definition,
the hazards and the theorems.

## 1. Inventory

| Component | Sources | State | Operations | What is hard about it | Correct when |
|---|---|---|---|---|---|
| Soft timer queue | `Platform/Common/Src/timer.c` | `pTIMER_QUEUE`, `TIMER_COUNT`, CLINT `mtimecmp` | `init_timeint_handler`, `register_timer`, `clear_timer`, `execute_timer` | the interrupt handler runs between any two accesses of a caller that does not mask | the comparator is never later than a queued expiry; the count is the occupancy; every timer fires |
| Breakpoint mailbox, boot barrier | `Platform/Common/Src/util.c`, `verif/backend/chipyard/verif_host.h` | the word `BREAK_POINT` | `bp_init`, `dut_set_bp`, `dut_wait_bp`; `host_set_bp`, `host_wait_bp`, `host_check_bp`, `wait_dut_ready` | one word, two writers, no ownership; bounded polls | no round is skipped, repeated or confused with the next |
| CLINT/sw_interrupt test | `verif/ip/S5740/CLINT/sw_interrupt` | `MSIP`, `TEST` | round loop, `swint_test`, host sequence | the next pulse may arrive in the previous round | one pulse, one count; both sides finish |
| External interrupts, PLIC/enable test | `Platform/Common/Src/interrupt.c`, `syscalls.c`, `verif/ip/S5740/PLIC/enable` | PLIC pending/enable/priority, the handler table, `TEST` | `init_extint_handler`, `register_extint_handler`, claim and dispatch, both phases | two-instruction interrupt windows; enable before the handler is stored | every line counted in its window; only registered handlers called |
| GDB server | `vp/spike/gdb_rsp.h` | ack mode, breakpoints, `exited`, the connection | `recv_packet`, `send_packet`, `handle_packet`, `do_continue`, `do_step` | debugger, target and Ctrl-C race; damaged packets | one reply per request, ack modes agree, nobody waits for ever |
| Exception layer | `Platform/Common/Src/exceptions.c`, `trap_entry.S`, `Inc/trap.h` | policies, record, expectation | `exceptions_init`, `exception_set_action`/`_handler`, `exception_expect`/`_matched`, `handle_exception`, `trap_dispatch` | expectation, policy and instruction length combine | verdicts are exact, nothing slips through |
| PMP driver | `Platform/Common/Src/pmp.c` | `pmpcfg`, `pmpaddr` | `pmp_set_region`, `pmp_lock_region`, `pmp_clear_region` | two CSR writes per call, locks are final, entries have priorities | each entry guards exactly what was asked |
| Trap vector, boot code | `Platform/Chipset/TinyRocket/mtvec.S`, `crt.S`, `Platform/Common/Src/boot.c`, `data_init.c` | registers, `.data`/`.bss` | trap entry and return, `boot_check`, `data_init` | section bounds, nested entry | partly modelled, see 6 |
| FreeRTOS tasks and lists | `Middleware/FreeRTOS/kernel/tasks.c`, `list.c` | ready, delayed, pending and suspended lists, tick count, cached wake time and top priority | create, delay, suspend, resume, set priority, lock and unlock the scheduler, tick, notify and wait | interrupts between critical sections; a wrapping tick; lists that disagree while the scheduler is locked | the highest ready task runs; no tick, wake-up or notification is lost |
| FreeRTOS queues, semaphores | `kernel/queue.c` (in the tree, not in the build) | ring buffer, two wait lists, two lock counts | send, receive, peek, take, give, reset, and from interrupts | an interrupt between "it is full" and "I am waiting" | nobody sleeps beside what he waits for; a FIFO |
| FreeRTOS port, preempt test | `port/RISC-V`, `verif/ip/S5740/FREERTOS/preempt` | task contexts, `mtimecmp`, critical nesting | tick, yield, context switch, critical sections | two-word timer; a switch anywhere | ticks keep time; only a forced switch counts |
| heap_4 | `kernel/portable/MemMang/heap_4.c` | block headers, free list, byte counts | malloc, calloc, free, statistics, reset | merging in any order; sizes at the edge of `size_t` | disjoint blocks that tile the heap |
| Spike virtual platform, HTIF | `vp/spike/verif_spike.h`, `verif_spike_run.cc`, `verif_ca_run.cc`, `Platform/Common/Inc/htif.h` | the hart, `tohost`, the mailbox | step, poll, run the sequence, judge | one thread runs hart and host; half-written `tohost` | a pass means exit(0); the driver ends |
| Timing model, cycle mirror, CA/measure | `vp/spike/timing_model.h`, `Platform/Common/Inc/verif_ca.h`, `verif/ip/S5740/CA/measure` | data cache, scoreboard, counters, table and mirror | price an instruction or trap; read and publish the count | 64-bit counts in two words; stale scoreboard | readings are whole; a pair differs by its stalls only |
| Other mailbox tests | `verif/ip/S5740/{CLINT/timer_interrupt,CLINT/rtc,PLIC/latency,I2SR,WFI}` | as the sw_interrupt test | | | not modelled, see 6 |
| Application, IPC | `App/` | registered handlers, message sizes | | | not modelled, see 6 |
| UART, printf, encodings, benchmarks, scripts | | | | pure I/O, generated or vendored | left out |

How they interact: the boot code calls `bp_init`, which writes the mailbox the
host's barrier polls. Each test then alternates `dut_wait_bp` and `dut_set_bp`
with the host's `host_set_bp` and `host_wait_bp`. Interrupts reach the firmware
through the vector and `trap_handler`, which calls the software handler,
`execute_timer`, or claims a PLIC line and calls its registered handler. The
exception tests install `trap_entry.S` in place of that vector and judge what
`handle_exception` recorded. The GDB server replaces the runner of the Spike
platform and steps the same hart. The runner prices each step with the timing
model, whose total the firmware reads as `mcycle`. Under FreeRTOS the port owns
`mtvec`: a tick or an `ecall` saves the context, asks the kernel for the next
task and loads its context; queues and the heap use the kernel's scheduler lock.

## 2. Plan

Order of work; the first ten groups are done.

1. **TimerQueue**, `TimerQueue_proofs`: the driver with the most intricate
   interleaving.
2. **Mailbox**, **Lockstep**, **SwInterrupt**, `SwInterrupt_proofs`: the mailbox,
   the abstract protocol of rounds, and the test that composes mailbox, boot,
   trap and host, shown to implement it.
3. **PlicEnable**, `PlicEnable_proofs`: the second client of the mailbox, with the
   external-interrupt path.
4. **GdbRsp**: the server and the debugger, which implement `Lockstep` too.
5. **Pmp**, **Exceptions**, `Exceptions_proofs`: the exception layer over the PMP.
6. **Tasks**, **Kernel**, `Kernel_proofs`: the scheduler's data structures and its
   API.
7. **Queue**, `Queue_proofs`, shown to implement **Fifo**.
8. **Port**: the two-word timer, the context switch and the preemption test, on
   the same `Tasks`.
9. **Heap4**, shown to serve ranges as **Arena** does. `Portable_proofs` has the
   proofs about both parts of the kernel's portable layer, `Port` and `Heap4`.
10. **TimingModel**, **Spike**: the virtual platform, the cycle mirror, the
    measurements. `VirtualPlatform_proofs` has the proofs about what is under
    `vp/spike`: `GdbRsp` and `Spike`.

Who uses whom: `SwInterrupt` and `PlicEnable` EXTEND `Mailbox`; `Exceptions`
EXTENDS `Pmp`; `Kernel` and `Port` EXTEND `Tasks`; `Queue` EXTENDS `Kernel`;
`Spike` EXTENDS `TimingModel`. `SwInterrupt` and `GdbRsp` instantiate `Lockstep`,
`Queue` instantiates `Fifo` and `Heap4` instantiates `Arena`, each with a
refinement mapping. A module `X_proofs` EXTENDS `X` (`Portable_proofs` EXTENDS
`Port` and `Heap4`, `VirtualPlatform_proofs` EXTENDS `GdbRsp` and `Spike`, pairs
that share nothing); the inductive invariant it proves stands at the end of `X`,
where TLC can evaluate it, and that of `Spike`, which speaks of the shape of
programs, in the proof module. Each `MC` module
EXTENDS its specification and only adds constants.

## 3. The modules

Definitions named `...Not`, `...Never`, `...Back` and the like, with a comment
"Slip:", are the seeded faults. They are not part of any specification: each
shows that the property it belongs to fails when the code has that fault.

### TimerQueue

`handler`, `exe_time` and `repeat_ns` are the fields of `pTIMER_QUEUE`, `count` is
`TIMER_COUNT`, an unsigned that wraps to `UINT_MAX`. `pc` is the main line's place
in the API call it executes, `reg` and `clr` its locals; `ipc` and `isr` are those
of `execute_timer`. One hart runs both: the main line moves only while `ipc` is
"off". Every access of the main line to `TIMECMP`, the queue or the count is a
step; only where `register_timer` clears `mstatus.MIE` is the sequence one step
(`RegisterTimerInsert`, search to `TIMER_COUNT++`). The search may end one past the
last slot, which sets `overrun`. `execute_timer` is one step per slot, so that the
clock may move while it scans.

`Programs` are the programs considered. Which one runs is chosen in `Init` and kept
in three variables that never change: `CallersMask` says whether it calls the API
with interrupts disabled, as `CLINT_timer_interrupt.c` does (nothing in `timer.h`
demands it), `UsesClear` whether it calls `clear_timer`, and `Repeats` which periods
it asks for.

`Ticks` is the conversion of the code, `ns * CLOCK_TIME / 1024`.

### Mailbox, Lockstep, SwInterrupt

`Mailbox` is the word and what `dut_wait_bp` and `dut_set_bp` make of it:
`Releases(n)`, `Aborts(n)`, `SetIsRefused`. `dut_set_bp` is a test and a store, two
steps.

`SwInterrupt` starts at `crt.S`. The firmware runs `bp_init` (with `-DPRELOAD` it
goes on at once, without it it waits for a memory write, which the host, always
built with `PRELOAD`, never announces: the first `BP_TEST_begin` releases it), then
the rounds; a
pending enabled interrupt is taken before the next instruction; the handler
counts and clears `MSIP` in two steps. The host's barrier either sees `bp_init`'s
value or gives up and starts the sequence. `slow = 1` stands for a hart too slow
for the bounds of the polls (`VERIF_BP_TIMEOUT`, `VERIF_DUT_READY_TIMEOUT`): a poll
may then run out at any moment.

`Lockstep` is the abstract promise: a round is opened only when the last one has
been checked, answered only when open, checked only when answered. In
`SwInterrupt` a round is opened by the host's begin, answered by the firmware's
`BP_TEST_end`, checked by `host_check_bp`.

### PlicEnable

`pending`, `enabled` and `priority` are the PLIC, external to the repository and
modelled from how `interrupt.c` and `trap_handler` use it. `OpenWindow` and
`CloseWindow` are the two instructions between which the firmware takes a line. A
claim returns the pending enabled line of the highest priority, the lowest number
first, or 0 when there is none. `register_extint_handler` is its three stores: the
line is enabled (`EnablePlicInt`), its handler stored (`StoreHandler`), its
priority set (`SetPlicIntPriority`), while the host may raise it at any of
them. The state starts
behind the boot barrier, which `SwInterrupt` covers. With `slow = 0` a host poll
runs out only if the firmware cannot answer it any more, with `slow = 1` at any
moment.

`Builds` are the builds of the test considered; the one that runs is in
`MAX_PLIC_NUMBER` and `MASK_BITS`, which never change. `MASK_BITS` is the width of
`trigger_irq`'s argument: the Vseq passes a 64-bit one-hot value to a 32-bit mask
(`PLIC_enable.cc:22`). Lines beyond it never become pending; `LineIsCounted` is stated for those within it, and `Carried` is how
many of the first half's rounds they are: 32 of the 45 of `PLIC_enable.h`.

### GdbRsp

The two byte streams are sequences of tokens: acks, naks, Ctrl-Cs and packets.
Checksums are a flag, registers and memory are the pc and `tohost`, and the
firmware is a program of `LAST + 1` instructions which terminates or spins. The
server's actions follow `recv_packet` (while halted, stray acks and Ctrl-Cs are
dropped), `handle_packet` (one action per kind), `send_packet` (wait for the ack,
repeat on a nak) and `do_continue` (stop, step, or look at the socket). GDB is
external: it sends one request at a time, repeats on a nak, may press Ctrl-C
while it waits for a stop, and may close at any moment.

### Pmp and Exceptions

`Pmp` has one step per CSR write. The unit (external) decodes NA4 and NAPOT,
takes the first matching entry and ignores writes to a locked one. Addresses are
`XLEN` bits wide. `asked` is a history of what each entry was last told.

`Exceptions` runs on top of it a test that makes any calls in any order: policies,
handlers that skip or refuse, PMP calls, and `expect_and_run` over a trigger
function. The triggers' code is a function from halfword addresses to
instructions of 1 or 2 halfwords, and `Memory` is the halfwords themselves.
`trap_skip_insn` knows `mepc` only: `trap_insn_len` decodes the length from the low
two bits of the halfword there. A trap is one step, because the handler runs with
interrupts off and does not trap itself; its three outcomes (`TrapExpected`,
`TrapResumes`, `TrapFatal`) are the branches of `handle_exception`.
`DispatchInterrupt` is an interrupt that nobody handled, which ends the program.
`raised` is the history of what the trigger really raised, `entry` and `passed` of
where it started and which instructions it has executed or trapped at.

### Tasks and Kernel

`Tasks` is a library: `k` is a record of the variables of `tasks.c`, and each
function of the code is an operator from `k` to `k`. A list is the sequence of its
tasks with an index (`pxIndex`), sorted by item value where `vListInsert` keeps it
so. `evt[t]` is the list the event item of a task is on. Tick counts are modulo
`TickMod` (2^32 in the code), the overflow count modulo `OverflowMod`.
`configASSERT` sets `k.fault`. `ForEach` is the code's loops over a list: what one
turn does, done for each member in order.

`Kernel` makes a step of each critical section, because interrupts are masked
inside it and taken between two of them; code between `vTaskSuspendAll` and
`xTaskResumeAll` is in steps of its own. `pc[t]` is the place of a task inside the
call it makes. A task in its own code makes any call its application lists. `ticks`
(all tick interrupts) and `held` (tasks suspended and not resumed since) are
histories. The last section of each module is the inductive invariant: `Data` in
`Tasks`, of the record alone, and `SchedInv` in `Kernel`, of the record, the
places of the tasks and the histories.

### Queue and Fifo

One queue on that scheduler. `q` is the `Queue_t`: the ring `buf` with its write and
read places, `n` items, and the two lock counts. A blocking call is the loop of the
code: try, lock the scheduler and the queue, look at the clock, place the task on
the wait list, unlock, give way, try again. `Fifo` is a sequence with puts at both
ends; `IsFifo` maps the ring to it.

### Port

The scheduler of `Tasks` below a trap that saves `hart` (place, interrupt enable,
nesting) to `frame` of the task and loads another. `mtime` never stops: its high
word is 0 by definition and the others are relative to it, so that the state space
is finite without a bound on time. `vPortSetupTimerInterrupt` reads high, low, high
again in three steps. The builds are the test as configured, without time slicing,
without preemption, and a program of nested critical sections.

### Heap4 and Arena

`heap.link` is the headers by address with their free links, `doing` the task's
place in `vPortFree`, which marks its block before it locks the scheduler and
inserts it after. Allocation runs under that lock and is one step. A failed
allocation calls `vApplicationMallocFailedHook`, which halts. Only the difference
of the two call counters is kept, because only it is bounded. `Arena` hands out
disjoint, aligned ranges and takes them back; `ServesRanges` maps the heap to it.
The searches of `pvPortMalloc`, `prvInsertBlockIntoFreeList` and
`vPortGetHeapStats` are recursive functions on the headers of the free list.

### TimingModel and Spike

`TimingModel` prices an instruction (a class, registers, and a place in memory):
phase 1 by class, phase 2 with load-use stalls, regions of memory and the data
cache. `Spike` is one thread: `tick(n)` runs `n` steps of the firmware, each priced,
then the driver looks. The firmware is a sequence of instructions per scenario:
`exit` and console requests as two stores to `tohost` in either order, the
handshake demo, `irq_latency.S`, `CA_measure` with one pair of blocks, a silent loop,
and any short sequence of loads, stores and others. A step is a function of the
instruction's `do`; loops of a fixed number of turns are unrolled, as the assembler
does with `.rept` (`Repeat`, `Walk`). `truth` is the history the
properties compare with: cycles at the low-word read, lines in order of use, the
exit code asked for.

## 4. What the runs check

| Run | Instance | Shows |
|---|---|---|
| `timers` | 3 slots, delays of 0, 1 and 2 ticks, clock to 3, two programs: callers that mask, one-shot timers, `clear_timer` used; interrupts open, periodic timers too, no `clear_timer` | In the first the comparator is at the earliest expiry (`EarliestIsArmed`) and every timer due within the clock fires (`EveryTimerFires`). Where callers mask it wakes for no timer that is gone (`NoStaleWakeup`). `SlotsAreCounted`, in both: `TIMER_COUNT` is the occupancy inside the handler too (`CountIsOccupancy`), and the search never leaves the queue (`NoQueueOverrun`). |
| `timer_repeat` | 2 slots, clock to 4, callers that mask, periodic timers | **Violated:** `RepeatIsRearmed`, see Findings. |
| `sw_rounds` | 5 rounds, both builds, with and without slow harts | `PulsesAreCounted`: one pulse, one count (`OnePulseOneCount`, `NoPulseIsLost`); the refinement `RunsInLockstep`; the host always reports (`HostAlwaysReports`); without time-outs both sides finish (`BothSidesFinish`), whichever way the firmware was built. |
| `plic_lines` | 45 lines with a mask of 32 bits, the code's own constants; 8 lines with the same mask; with and without slow harts | `LinesAreSound`: each line the mask carries is counted once (`LineIsCounted`) by a registered handler (`DispatchIsRegistered`), with host and firmware on the same line (`LinesInStep`). `HostFinishes`: the host always reports (`HostAlwaysReports`), and without early time-outs every line the mask carries passes (`CarriedLinesPass`): 32 of the 45, all of the 8. |
| `plic_listed` | 45 lines with a mask of 32 bits | **Violated:** `PassesAsListed`, see Findings. |
| `gdb_session` | 4 requests of any kind, 1 Ctrl-C, 1 damaged packet, close at any moment | `SessionIsSound` (`InterruptIsFresh`, `AckModesAgree`), `TargetHaltsForGdb`, the refinement `RequestsInLockstep`, and as liveness `SessionProgresses` (`EveryRequestAnswered`, `InterruptStops`, `SessionEndsWithFirmware`). |
| `traps` | 3 calls of any kind, 2 PMP entries over 32 bytes, 7 triggers | `GuardsAsAsked` (`RegionIsAsAsked`, `LockedIsAsAsked`), `EachInstructionOnce`: a trap passes the instruction that raised it and no other, `NothingSlipsThrough`, `VerdictIsExact`, `TriggerEnds`. |
| `kernel_sched` | 2 tasks and the idle task, 2 priorities, ticks modulo 4, 3 applications with an interrupt handler | `SchedulerIsSound`: the lists and what is cached about them agree (`ListsAgree`, `TopIsHighest`) and no assertion of the kernel fails (`NoAssertFails`). The highest ready task runs (`HighestReadyRuns`), sleepers wake on time across the wrap (`WakesOnTime`), no tick or notification is lost (`NoTickIsLost`, `NoNotificationIsLost`), and a suspended task stays out (`SuspendedStaysOut`). |
| `kernel_queue` | the same tasks on a queue of 1 or 2, or a semaphore, 8 applications | `WaitersAreServed`: nobody sleeps beside what he waits for (`NoReceiverForgotten`, `NoSenderForgotten`), with `LockIsHeldAlone` and `ListsAgree`. `TimeoutIsHonest`, and the refinement `IsFifo`. |
| `preempt` | words modulo 3, 2 switches asked for, nesting to 2, 4 builds | `TicksKeepTime`, `MaskMatchesNesting`; `VerdictIsRight`: only forced switches count (`CountedSwitchIsForced`), a build that does not slice time gives no verdict (`NoSlicingNoVerdict`), and the verdict is never "fail" (`VerdictIsSuccess`). The builds that slice time end (`TestEnds`). |
| `heap` | 20 bytes at an even or odd address, 2 tasks, requests from 0 to the largest `size_t` | `HeapIsSound` (`BlocksTile`, `FreeListIsOrdered`, `FreeBytesAreExact`, `AllFreeIsWhole`, `StatsAreTrue`, `NoAssertionFails`) and `ServesClients` (`FailsOnlyWhenFull` and the refinement `ServesRanges`). |
| `spike` | both drivers, all firmwares above, a carry of the counter between any two readings | `PassIsExitZero`, `DriverEnds`, `CycleReadIsWhole`; `ReadingsAreSound` (`MirrorIsNeverBehind`, `HostSeesTheRun`); `MeasuresAreExact` (`PairsIsolateStall`, `LatencyIsExact`, `LruIsLru`). |

A property that names others in parentheses is their conjunction: one claim about a
component, with each part stated and explained where it is defined. `TypeOK` is a
part of `LinesAreSound`, `SessionIsSound`, `GuardsAsAsked`, `SchedulerIsSound`,
`HeapIsSound` and `ReadingsAreSound`, is checked alone in `timers`, and is
proved for `SwInterrupt` (section 5).

**Why the bounds are enough.** The timer properties compare two expiries with the
comparator: two slots give an earlier and a later timer, and three leave an
occupied slot beside the one being freed and the one being taken. Delays of 0, 1
and 2 ticks make an expiry equal to, just after and well after the clock, and a
clock to 3 passes the latest of them, which an interrupt serves only when it is
past. Rounds
of the mailbox tests depend only on their neighbours, so five contain every pair
and a first and a last one. PLIC/enable is run with the 45 lines and the 32-bit mask
of the code; that build ends at line 33, so the one of 8 lines, the number
`verif/README.md` gives, is there for the second half of the test, which only a mask
with a bit for every line leads to. A GDB
session needs one request to set up (`QStartNoAckMode`, a breakpoint), one to run,
one to be hit by the late Ctrl-C and one more. Three calls of the exception
layer are a policy, a region and a trigger. For the safety of
these five the proofs remove the bounds (section 5).

Two tasks and an idle task are the fewest with a waker, a woken one and somebody to
run when both wait; with two priorities either can be above, below or beside the
other. The calls of a task are not bounded in number. A tick count modulo 4 (3 for
the queue) wraps again and again and leaves a delay on either side of the wrap; a
queue of one place is full as soon as it is not empty, one of two has a ring that
wraps. In `preempt`, words modulo 3 with 2 per tick give carries at every phase of
the tick. The heap holds at most three blocks with their headers beside the end
marker, so that a freed block can have a free neighbour on either side, both, or
none. A read of one word of the cycle counter takes three cycles, so starts that
are three apart put the carry between any two reads. For the scheduler, the
queue, the port, the heap and the virtual platform (but for `MeasuresAreExact`) the
proofs remove the bounds; their inductive invariants held in every state of these
instances before they were proved.

Where a bound is not harmless it is in the property: `NoSenderForgotten` is stated
until the first `xQueueGenericReset` (which wakes one sender however many places it
frees), `DriverEnds` excepts `verif_ca_run` with a firmware that never answers, and
`TestEnds` is stated from the start of the first task, because the high-low-high
loop before it repeats as often as carries come.

**Deadlock** is checked in the timer, kernel, queue and spike runs. The other
programs end (a firmware exits, a sequence returns, a session closes, `prvHalt`
stops, the bounded calls are used up), so their runs allow a last state and check
liveness instead where there is something to wait for.

**Fairness.** A simulator clocks the hart in every tick, so the hart (`Dut`,
`Hart`, `CallStep`, `ExecuteTimer`) and `Tick` are weakly fair. The host's loop
runs in the same simulation and each of its polls is a bounded loop, so `Host` and
`HostTimeout` are weakly fair. The server thread and GDB's reading are weakly fair;
sending, Ctrl-C and quitting are the user's choice and are not fair. The Spike
driver is one thread, so its whole next-state relation is weakly fair. In `Port`
the hart and the clock are fair, and the clock cannot outrun the hart: a tick is
1 ms, 500,000 cycles, and the longest step, printing a character, is
about 43,400 cycles, so a task that runs gets through a step before its slice ends. Two
assumptions are strong: the timer's callers open interrupts again and again, as
the round loop of `CLINT_timer_interrupt.c` does, and an interrupt pending in
infinitely many such windows is taken in one of them.

**Findings.** Two runs show the code disagreeing with its own documentation;
`PROJECT.json` quotes the lines.

- `timer.c:68` (`timer_repeat`): the next expiry of a periodic timer becomes
  `min_time` only if it is *later* than `min_time`, which starts at the largest
  value, so that a periodic timer that is alone is never armed again.
- `S5740_mcu_tests.h:50` (`plic_listed`): `S5740.list:10` lists PLIC/enable as PASS, but
  the input of lines 33 to 45 does not fit into `trigger_irq`'s 32-bit mask. Line 33
  is never raised, the count stays 32, and the host, which expects 33, reports FAIL.

**Known defects and limits** met while modelling, which the models reproduce or
leave out as said, without a run of their own:

- `timer.c:36`: `TIMECMP` is written before the timer is queued; where the caller
  does not mask, an interrupt in between rearms from a queue without it, and the
  timer is slept through. `EarliestIsArmed` is therefore stated for masked callers.
- `timer.c:113`: an unmasked `clear_timer` and the handler both count the same
  timer out; `register_timer` may later write past the queue.
- `util.c:99`: `sw_interrupt/run.sh:12-14` ("bp_init() in crt.S spins forever") and
  `S5740.list:17-19` ("stalls") say that a firmware built without `-DPRELOAD` never
  leaves `bp_init`. In the code it does: `dut_wait_bp(BP_MEM_WRITE)` also returns on
  `BP_TEST_begin`, which the host sends once its barrier has seen `bp_init`'s value,
  and `BothSidesFinish` holds for that build too (`sw_rounds`): all rounds pass.
  `run_test.sh:72-75` describes this correctly. A test that no host sequence drives
  does stall.
- `PLIC_enable.cc:19`: the sequence never sends `BP_TEST_success`, so at the
  boundary of the two halves host and firmware wait for each other and the test
  reports FAIL. The 45 lines of the code never get there; the 8 of
  `verif/README.md`, which lists them as PASS, do (`plic_lines`: `verdict` is never
  "PASS", which `PlicEnable_proofs` shows for every number of lines).
- `gdb_rsp.h:233`: a closed connection looks like "no Ctrl-C" to a running
  continue, so quitting GDB does not stop the server while the firmware spins.
- `pmp.c:129`: an unlocked entry with a lower index lifts a locked one for M-mode.
- `pmp.c:113`: an encoded address of 0 is taken for an error, so the valid region of
  base 0 and size 8 is refused; the instance `traps` includes that call.
- `queue.c:334`: a reset wakes one sender only.
- `verif_spike_run`: the default breakpoint address is not mapped, so every
  host sequence but that of CA/measure fails at its first wait; the exit status
  depends on `tohost` only.
- `verif_spike.h:247`: any non-zero `tohost` is an end, where the comment speaks of
  bit 0; no such end is reported as a pass (`PassIsExitZero`).
- `verif_primitives.h:55`: `host_wait_bp` has no bound.
- `verif_ca_mark_cycle` reads low, then high, without a second look: the mirror may
  be one high word ahead (`MirrorIsNeverBehind`). The recorded start is the
  low word only, so `HostSeesTheRun` is for runs that start below the first carry.
  Both are stated modulo the count: the high word that is one ahead may be 0, and
  then the mirror is a whole count behind.
- `rtdev_shim.c:19`: a code of 2^31 stores 1 in the low word of `tohost` and 1 in the
  high one. Looked at between the two, it reads as PASS. The firmware calls `exit`
  with 0, 1 and 2 only, and `SpikeAssumption` demands a code below that.
- The latency `verif_ca_run` measures includes the `csrsi` that follows the
  breakpoint: 10 cycles with the default penalties (`LatencyIsExact`), not trap plus
  handler alone.
- A repeated counter reading adds its own cycles to the block it measures;
  `PairsIsolateStall` excepts it.
- `malloc(0)` and `calloc` of nothing halt, because the failed-allocation hook
  does; for the same reason the branches of the preemption test's `main` after a failed creation
  are never reached. After `vPortHeapResetState` no header may be read until the
  next allocation, statistics included: the model drops them.
- `I2SR_int_muldiv.c:60`: handlers enable interrupts without saving `mepc`; without
  the I2SR hardware a nested interrupt overwrites the return address.

## 5. What is proved

All theorems hold for every value of the constants within the named assumptions.
These state types and the following facts, which the code or its configuration
gives:

- `NeverIsLate`: the disarmed comparator is later than any expiry.
  `TimerConstants`: `TIMER_COUNT` can hold the queue's size.
- `ExceptionsConstants`: a trigger's code goes on after every instruction that is
  not a return, no instruction starts inside another, and `Memory` holds them as
  the RISC-V manual encodes them: the low two bits are 11 exactly in the first
  halfword of a 4-byte instruction.
- `TasksAssumption`: there is an idle task, and tick counts leave room for a delay
  (`TickMod > 2`). `KernelAssumption`: `main` creates at least one task before
  `vTaskStartScheduler`, and none twice.
- `QueueAssumption`: `xQueueCreate` is called with a length that is not 0, as
  `queue.c` asserts.
- `PortAssumption`: the test has two tasks beside the idle task, at a priority
  that exists, and a tick period is at least one and fits in a word.
- `HeapAssumption`: twice the heap is less than what a `size_t` holds, whose range
  is a multiple of twice the alignment. `HeapIsLarge`: wherever the linker puts
  it, the heap has room for a block and the end marker; `prvHeapInit` computes with
  what is left and does not look (`configTOTAL_HEAP_SIZE` is 10 KB).
- `TimingAssumption`: the words of the counter hold more than one value and prices
  are not negative. `SpikeAssumption`: the drivers and programs of a scenario are
  those of the repository; an exit code fits in the low word of `tohost`; two CSR
  reads (3 cycles each) fit twice in the range of the counter's low word;
  `htif_magic_mem` is at an even address other than 0.

Each safety theorem below is the conclusion of an invariant that is inductive. The
properties are not: they speak of what an observer sees, at quiet moments, and
whether the next step keeps them depends on what the code knows in between.

**`TimerQueue_proofs`**
- `TypeCorrect`: `Spec => []TypeOK`.
- `EarliestArmed`: `Spec => []EarliestIsArmed`, which speaks of masked callers and
  one-shot timers. `ArmInv` adds what each point of the code knows: a scan in
  progress has a minimum no later than any slot it has passed (both
  `execute_timer` and `clear_timer`), a registration that is about to insert has a
  comparator no later than its own expiry, and masked calls exclude the handler.
- `CountAndBounds`: `Spec => []SlotsAreCounted`, interrupts open or not, for programs
  in which none can fall inside `clear_timer` (`ClearIsSafe`). `CountInv` says for each
  point of the code by how much the count differs from the occupancy; the lemmas
  `OccupiedBound`, `FreeSlot` and `TakeSlot` carry the cardinality argument that a
  count below the size means a free slot.
- `NoStale`: `Spec => []NoStaleWakeup`, for masked callers, periodic timers too.
  `ExactInv` says where the comparator's value, or the minimum about to be written
  to it, comes from: a slot that is still taken.

The theorems hold for any set of programs. The conditions on the program are part
of the last three properties, and needed: without them they are false (see the
known defects in section 4).

**`SwInterrupt_proofs`**
- `InvHolds`: `Spec => [](TypeOK /\ IInv)`.
- `PulsesCounted`: `[]PulsesAreCounted` (`OnePulseOneCount` and `NoPulseIsLost`), for
  any number of rounds, either build, any time-outs.
- `LockstepRefined`: the co-simulation implements `Lockstep`.

`IInv` relates the two program counters, the mailbox and the two round counters
(`RoundInv`), the interrupt enables at each point (`HartInv`), the pulses sent,
pending and counted (`PulseInv`), and the verdicts (`VerdictInv`). It is needed
because the host's check looks at `TEST` only, and that it is right depends on
where the firmware was when the pulse came.

**`PlicEnable_proofs`**
- `InvHolds` and `LinesSound`: `[]LinesAreSound`, for any number of lines, any width
  of the mask, any time-outs. `IInv` says who may be where and what the mailbox
  then holds (`RoundInv`), that interrupts are open in the window only
  (`WindowInv`), and how pending lines, the claim and `TEST` add up at each point of
  the window (`CountInv`); `DisableInv` is the second phase, in which nothing is
  raised any more.

**`VirtualPlatform_proofs`, the GDB server**
- `InvHolds`; `SessionSound`: `[]SessionIsSound`; `TargetHalts`: `TargetHaltsForGdb`,
  an action property; `RequestsRefineLockstep`: server and debugger implement
  `Lockstep`. For any firmware, requests, Ctrl-Cs and damaged packets.
- `IInv` speaks of the two wires. A request is on the wire, with the server or
  answered, once (`CountInv`); behind a packet there are only Ctrl-Cs meant for it,
  and the packet is GDB's last request (`Ordered`, `Carries` of `WireInv`);
  for each state of GDB, `TalkInv` lists what the server and both wires may then
  hold. The lemmas `TailWire` and `AppendWire` say what reading and
  writing a token does to these.

**`VirtualPlatform_proofs`, the platform**
- `SpikeInvariant`: `SpikeSpec => []SpikeInv`. From it `ReadingsHold`
  (`[]ReadingsAreSound`), `PassHolds` (`[]PassIsExitZero`) and `ReadHolds`
  (`CycleReadIsWhole`, an action property). For any set of scenarios of the two
  drivers, any prices and cache, any width of the counter's words, any number of
  repetitions in a block and any bound on turns and polls.
- A program is data, and its length depends on `Events`, so what the proof knows of
  it is a shape. `FirmwareShape` is proved of all seven (`EveryFirmware`) by lemmas
  that put programs one behind the other: execution never leaves the program; a
  `mark lo` comes right behind its reads, and the reads of one count behind each
  other (`Piece`); a table is written in `CA_measure` only. `CaShape` says of that
  program where its three records, its last mark and its breakpoint are, in this
  order.
- `ReadInv` follows a count through its reads. Between the read of one word and of
  the next at most `Gap` cycles pass, the price of one CSR read with one cycle to
  spare, so at most one carry: the high word read before was the high word at most
  `Gap` earlier (`HighWas`), the one read after is the high word at most `Gap` later
  (`HighIs`). Two equal high words around the low one are then the high word of its
  moment (`CycleReadIsWhole`), and the second of two reads is that or one more
  (`MirrorIsNeverBehind`).
- `PassInv`: a low word 1 in `tohost` means exit(0), because a console request
  writes an even address and another code at least 3. `CaInv` is the progress of
  the program by its place: how many records the table has, whether the mark is
  whole, and that the breakpoint says "end" only behind all of them. `HostSeesTheRun`
  is not inductive without it: that the table is complete when the host reads it
  depends on where the firmware was when the host saw the breakpoint.
- The proof has a lemma for each action of `tick` and one for the driver's
  (`TickIsFine`, `DriverKeeps`). Each says which part of memory a step leaves alone.
  It showed that two statements were too strong: mirror and run are right modulo
  the count only (see the known limits).

**`Exceptions_proofs`**
- `NothingSlips`: `[]NothingSlipsThrough`, and `VerdictExact`: `VerdictIsExact`, an
  action property, for any code, policies and PMP state. `IInv` ties the record and
  the expectation to the history: the total has grown by the number of exceptions
  raised, the last cause is the last one raised, and the expectation is still open
  exactly while the expected cause has not come.
- `PmpGuards`: `[]GuardsAsAsked`, for any address width and number of entries.
  `PmpInv` names the one entry that may differ from what was asked, between the two
  CSR writes of a call (`HalfWritten`). `EncodeDecodes` is the arithmetic: decoding
  `pmp_napot_encode(base, size)` gives back base and size whenever the driver
  accepts them.
- `TrapSkipsItsInstruction`: `[]EachInstructionOnce`. `StepInv` adds that a running
  trigger has not gone back behind its entry. What `trap_insn_len` decodes is the
  length of the instruction by the rule of the encoding, which
  `ExceptionsConstants` states of `Memory` and the code relies on; that the decoding,
  the skip and the hart's own progress together leave out no instruction and
  enter none in its middle is proved (`OneMore`).

**`Kernel_proofs`**
- `SchedInvariant`: `Spec => []SchedInv`, for any number of tasks and priorities, any
  width of the tick count and any application of the modelled calls, interrupts
  included. From it `DataSound` (`[]SchedulerIsSound`: the lists agree with the
  items, the cached top priority is high enough, no `configASSERT` fails),
  `HighestRuns` (`[]HighestReadyRuns`), `DelaysAreExact` (`[]WakesOnTime`),
  `TicksAreKept` (`[]NoTickIsLost`), `NotificationsArrive`
  (`[]NoNotificationIsLost`) and `SuspendedStays` (`[]SuspendedStaysOut`).
- `Data(k)` is what every operation on the lists keeps: a list has the tasks whose
  item says so, each once (`Agree`); the delayed lists are in the order of the wake
  times (`Sorted`) and on the right side of the wrap of the tick count (`Left`);
  the cached next unblock time is not too late (`Early`), nor the cached top
  priority too low (`Right`).
- `SchedInv` adds the interleaving. `PlacesInv`: only the running task has
  suspended the scheduler. `ItemsInv`: a task is in `xPendingReadyList` only while
  it has. `TimeInv`: ticks counted and pended are all the ticks. `RunsInv` is
  `HighestReadyRuns` at every point of a call: the running task is ready except
  where it is about to give way. `NotesInv` is the same for
  `NoNotificationIsLost`. `HeldInv` keeps a suspended task away from every other
  list. Each is needed by another: that `xTaskResumeAll` empties the pending list
  is what makes `NotesInv` survive it, and it may do so only because of
  `ItemsInv`.
- The proof has a lemma for each operator of `Tasks` that says which tasks it moves
  where (`RemoveDoes`, `InsertSortedDoes`, `ReadyDoes`, `DelayDoes`, `WakeDueDoes`,
  `TickDoes`, `ResumeDoes`, ...), one for each loop (an invariant of its turns;
  the number of turns is the length of the list, so no induction over the data is
  needed), a few that say what a kind of step needs (`Switches`, `Resumes`,
  `Locks`, `Stays`, `Wakes`), and one for each action.

Two arms of a `CASE` in `vTaskSuspend` used to overlap where a task suspends itself
before the scheduler runs anybody else. TLC took the first, the provers could not,
and the code has an `if`/`else` there: the definition now has one too.

**`Queue_proofs`**
- `StorageSound`: `QueueSpec => []StorageInv /\ CallsKeepTheirArguments`, and `QueueIsFifo`: `QueueSpec => IsFifo`,
  the refinement. `QueueAndScheduler`: the scheduler's `SchedInv` holds with a
  queue's two wait lists and every call of `Queue` too, and with it `ListsAgree` and
  `LockIsHeldAlone`. `NobodySleepsBesideAnItem`: `[]WaitersAreServed`.
  `NobodyGivesUpEarly`: `[]TimeoutIsHonest`. For any length, either item size, any
  number of tasks and priorities, any width of the tick count and any application
  of the modelled calls; only the last assumes more, see below.
- `RingInv` is the equation between the two places and the count,
  `write = (read + n + 1) % length`, which is what distinguishes a full ring from
  an empty one. `CallInv` says that a task between two critical sections of a
  blocking call still has arguments the API allows; `CallsKeepTheirArguments`, an
  action property, that they are the ones it was made with: the same call, the same
  item, the same ticks asked for, however often it sleeps and wakes, although the
  code overwrites its `xTicksToWait`. None of them says anything about
  the scheduler: the ring stays a queue whatever it does. The lemmas on the
  remainder (`ModAdd`, `ModDistinct`, `ModWithin`) give the four ways an item is
  put or taken (`RingPut`, `RingPutFront`, `RingOverwrite`, `RingTake`), each equal to
  what `Fifo` does to the sequence.
- The waiting needs the whole of `QueueInv`, the conjunction of `SchedInv`,
  `StorageInv` and four parts:
  - `WaitInv`: a task is on a wait list only from `vTaskPlaceOnEventList` until it
    looks at the queue again, and a task that was not put on it is ready while it
    holds the queue. Without it a wake-up could move a task that is not waiting.
  - `LockInv`: either lock is held exactly while some task is between
    `prvLockQueue` and its half of `prvUnlockQueue`. That it is one task only is
    `PlacesInv` of the scheduler.
  - `ServeInv`: while somebody is on a wait list, the items (or places) are at most
    the wake-ups interrupts left out plus the tasks on their way back to the queue,
    or the lock count has reached the number of tasks, where it stops, and then
    everybody is woken. `WaitersAreServed` alone is not inductive: a task that has
    found the queue empty and is to fail does not count (`Eager`).
  - `HonestInv`: with `Elapsed`, the ticks since the entry time of the call,
    `entry + Elapsed - e * TickMod` is the tick count for an `e` of 0 or 1 that
    `xNumOfOverflows` tells (`Punctual`). It holds while the call has waited less
    than it was given: the count may pass the entry time a second time only when it
    is over, which is why `xTaskCheckForTimeOut` may compare with `>=`.
- `NobodyGivesUpEarly` assumes `NoCatchUp`: no task of an application calls
  `xTaskCatchUpTicks`, which counts ticks no interrupt came for, so that a timeout
  is then short by as many. Nothing under `src/` calls it outside the kernel.
- The proof reuses the lemmas of `Kernel_proofs`, whose invariants are stated for
  any set of event lists; a frame lemma for each part says that a step of another
  task leaves it alone, and one lemma for each action does the rest.

**`Portable_proofs`, the port**
- `InvHolds`; `TicksOnTime`: `[]TicksKeepTime`; `MaskHolds`: `[]MaskMatchesNesting`;
  `VerdictRight`: `[]VerdictIsRight`. For any width of the words, any period, any
  number of switches asked for and any depth of critical sections.
- `ClockInv` is an equation, `cmp + elapsed = now + period`, over the two words of
  each; while the clock is read, the carries since the first word are
  accounted for by the high word read before it. `ContextInv` says that the test's
  contexts are never saved inside its critical section. `TestInv` relates the switches counted to
  the forced ones: a forced switch may not be counted yet (`Unnoticed`), and a task
  that has seen enough ends the test only when it gets to print, before which the
  other may count one more (`Ends`).

**`Portable_proofs`, the heap**
- `HeapStaysSound`: `HeapSpec => []HeapIsSound`, and `HeapServesClients`:
  `HeapSpec => ServesClients`, which is the refinement `ServesRanges` of `Arena` and
  the action property `FailsOnlyWhenFull`. For any number of tasks, requests of any
  size, arrays of any shape, any alignment, any place of `ucHeap` and any heap that
  satisfies `HeapIsLarge`.
- `HeapInv` says what the code knows between two calls. `Tiled`: each block ends
  where another one or the end marker starts, nothing overlaps, and all addresses
  and sizes are aligned. `InOrder`: the free link of a block leads to the next one
  up, and the next one up does not touch it. `Owned`: a block outside the free
  list is held by one task, or is being freed by one whose `vPortFree` has cleared
  the bit and not yet inserted it. `Counted`: the byte count is the number of bytes
  of the listed blocks. `HeapIsSound` is not inductive without `Owned`: a block
  inserted twice would be in two places of the list.
- A list in the order of its addresses needs no induction over the list. `Walk`
  says of any walk from address to next address that stops in a given set that it
  reaches the first address of the set, whichever it starts from: it exists because that one can be
  named, and it is unique because the last address at which two walks differ could
  not have been reached. `FirstFit` (the search of `pvPortMalloc`) and `Between`
  (that of `prvInsertBlockIntoFreeList`) are two instances; `OneReport` is the same
  argument for the sums of `vPortGetHeapStats`.
- `Taken` and `Inserted` are the two operations on the headers: a block is taken,
  whole (`TakenWhole`) or split (`TakenPart`), or inserted and merged with one
  neighbour, with both or with none (`InsertMerges` covers the four cases at
  once). Each lemma says what becomes of the tiling, the order and the bytes.
  `Wanted`, `RoundedUp` and `Aligned` are the arithmetic of sizes: a request whose
  rounded size does not fit in a `size_t` fits in no block, so failing it is right.
- `xFreeBytesRemaining` is stated as the number of bytes in free blocks, not as the
  sum of their sizes: a sum over a set is a fold, about which nothing can be proved
  here, and for blocks that do not overlap the two are the same.

**Only model-checked:**
- *Liveness*, all of it, and with it everything that rests on fairness:
  `EveryTimerFires`, `HostAlwaysReports`, `BothSidesFinish`, `HostFinishes`,
  `SessionProgresses`, `TriggerEnds`, `TestEnds`, `DriverEnds`. It is out of the
  prover's reach.
- `MeasuresAreExact`: what the measured pairs, the latency and the cache come to is
  the sum of the prices along a program, a fold over its instructions. TLC runs
  each program; for every number of repetitions it would take an induction over
  the program, which these provers cannot do.

## 6. What is not modelled

- **Of the kernel, what the configuration switches off**: deletion, mutexes with
  priority inheritance, software timers, queue sets, tracing and run-time
  statistics, several cores, MPU, tickless idle, `xTaskAbortDelay`, thread-local
  storage. The stack overflow check and task names are left out. What is on and
  changes state is modelled.
- **Declarations.** Some 28,000 of the repository's 50,700 lines are register encodings
  (three copies), kernel headers with their documentation comments and other
  declarations, and another few thousand are the code just named, benchmarks and
  scripts. They hold no behaviour to model; the map covers about 15 % of all
  lines for that reason.
- **Other mailbox tests.** CLINT/timer_interrupt is the dialogue of `SwInterrupt`
  over `TimerQueue`; CLINT/rtc polls a mock clock; PLIC/latency repeats what
  `verif_ca_run` does; WFI is one wait. I2SR/int_muldiv needs hardware and a
  compiler that are not in the repository.
- **Application and IPC**: straight-line initialisation, a handler table, and the
  size check of a received message, for hardware outside the repository.
- `boot_check` and `data_init`: straight-line code that runs once.
- `mtime` and `mtimecmp` are whole in `TimerQueue`; an RV32 hart makes two accesses
  of each (`timer.h:46`). `Port` and `Spike` model the code that does guard against it.
- `repeat_ns * CLOCK_TIME` overflows `int` for periods above about 6.4 ms
  (`timer.c:66`); the instances stay below, and `Ticks` is exact.
- The save and restore of registers in `mtvec.S`, `trap_entry.S` and `portContext.h`
  is part of the trap's step. The FPU and PREEMPTION variants and
  `trap_handler_PMP` are left out.
- A trap inside the exception handler (`trap_insn_len` reading an unreadable
  instruction, `trap.h:186`).
- Fixed scripts, fail masks and console output of EXCEPTION/traps and
  PMP/violation: `Exceptions` makes their calls in any order instead.
- Packet text, checksums and register contents of the GDB protocol.
- Of CA/measure, eight further blocks and `minstret`, which is modelled by what
  reading it costs. The timing model's LRU clock does not wrap (`timing_model.h:311`).
- Building the Spike processor, loading the ELF, instruction encodings.
- UART, `printf`, logging, build scripts: I/O without shared state.
