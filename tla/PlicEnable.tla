----------------------------- MODULE PlicEnable -----------------------------
(***************************************************************************)
(* The PLIC/enable co-simulation test, with the external-interrupt path it *)
(* exercises: register_extint_handler and init_extint_handler, the PLIC's  *)
(* pending and enable bits, trap_handler's claim and dispatch.             *)
(*                                                                         *)
(* In the first MAX_PLIC_NUMBER rounds the host raises one line after the  *)
(* other and expects the firmware to count each; in as many more rounds    *)
(* the firmware disables each line and the host expects no count.          *)
(***************************************************************************)
EXTENDS Naturals, Mailbox

CONSTANT
  Builds  \* the builds of the test considered: lines, and bits of the mask

ASSUME PlicEnableConstants ==
  Builds \subseteq [lines : Nat \ {0}, bits : Nat]

VARIABLES
  MAX_PLIC_NUMBER,  \* lines under test
  MASK_BITS         \* width of trigger_irq's mask argument

Lines == 1 .. MAX_PLIC_NUMBER

VARIABLES
  pending,   \* PLIC pending lines
  enabled,   \* PLIC_ENABLE
  priority,  \* PLIC_PRIORITY
  handler,   \* pISR_BASE.ext_int_handler: "null", "empty" or "test"
  meie,      \* mie.MEIE
  mie,       \* mstatus.MIE
  TEST,      \* the firmware's interrupt count
  dpc,       \* where the firmware is
  phase,     \* "enable" in PLIC_enable(), "disable" in PLIC_disable()
  line,      \* the firmware's bp_num
  isr,       \* where the trap handler is; "off" when none runs
  claim,     \* trap_handler's plic_claim
  hpc,       \* where the host sequence is
  hround,    \* its bp_num
  verdict,   \* what run_vseq reports
  slow       \* 1 if a poll of the host may reach its bound although the
             \* firmware is still on its way (never changes)

plicVars == <<pending, enabled, priority, handler>>
hartVars == <<meie, mie, isr, claim>>
dutVars  == <<TEST, dpc, phase, line>>
hostVars == <<hpc, hround, verdict, slow>>
build    == <<MAX_PLIC_NUMBER, MASK_BITS>>  \* never changes
state    == <<BREAK_POINT, plicVars, hartVars, dutVars, hostVars>>
vars == <<build, state>>

\* The firmware stands behind bp_init; the host behind its boot barrier.
Init ==
  /\ \E b \in Builds : MAX_PLIC_NUMBER = b.lines /\ MASK_BITS = b.bits
  /\ BREAK_POINT = BP_TEST_init
  /\ pending = {} /\ enabled = {}
  /\ priority = [l \in Lines |-> 0]
  /\ handler = [l \in {0} \cup Lines |-> "null"]
  /\ meie = 0 /\ mie = 0 /\ isr = "off" /\ claim = 0
  /\ TEST = 0
  /\ dpc = "init" /\ phase = "enable" /\ line = 1
  /\ hpc = "loop" /\ hround = 0 /\ verdict = "none" /\ slow \in {0, 1}

-----------------------------------------------------------------------------
(* The PLIC and the trap.                                                  *)

\* Lines above the threshold 0 that the PLIC forwards.
Forwarded == {l \in pending \cap enabled : priority[l] > 0}

IrqPending == mie = 1 /\ meie = 1 /\ Forwarded # {}

\* The line a read of PLIC_CLAIM returns: the highest priority, then the
\* lowest number; 0 when there is none.
Claimable(l) ==
  \/ Forwarded = {} /\ l = 0
  \/ /\ l \in Forwarded
     /\ \A k \in Forwarded :
          priority[k] < priority[l] \/ (priority[k] = priority[l] /\ l <= k)

TakeExtInterrupt ==
  /\ isr = "off" /\ IrqPending
  /\ isr' = "claim"
  /\ UNCHANGED <<BREAK_POINT, plicVars, meie, mie, claim, dutVars, hostVars>>

\* The claim is completed before the handler is called.
ClaimAndComplete ==
  /\ isr = "claim"
  /\ \E l \in {0} \cup Lines :
       /\ Claimable(l)
       /\ claim' = l
       /\ pending' = pending \ {l}
  /\ isr' = "call"
  /\ UNCHANGED <<BREAK_POINT, enabled, priority, handler, meie, mie, dutVars,
                 hostVars>>

CallExtHandler ==
  /\ isr = "call"
  /\ TEST' = IF handler[claim] = "test" THEN TEST + 1 ELSE TEST
  /\ isr' = "off"
  /\ UNCHANGED <<BREAK_POINT, plicVars, meie, mie, claim, dpc, phase, line,
                 hostVars>>

-----------------------------------------------------------------------------
(* The firmware.                                                           *)

MainAt(p) == isr = "off" /\ ~IrqPending /\ dpc = p

\* init_extint_handler, GLOBAL_INTERRUPT_DISABLE and TEST = 0, all of them
\* with mstatus.MIE clear.
InitExtintHandler ==
  /\ MainAt("init")
  /\ enabled' = {}
  /\ handler' = [l \in {0} \cup Lines |-> IF l = 0 THEN handler[0] ELSE "empty"]
  /\ priority' = [l \in Lines |-> 0]
  /\ meie' = 1 /\ mie' = 0
  /\ TEST' = 0
  /\ line' = 1 /\ dpc' = "register"
  /\ UNCHANGED <<BREAK_POINT, pending, isr, claim, phase, hostVars>>

(* register_extint_handler(line, test, 1): three stores.  The line is enabled *)
(* first, with mstatus.MIE clear and its priority still 0.                    *)

EnablePlicInt ==
  /\ MainAt("register") /\ line <= MAX_PLIC_NUMBER
  /\ enabled' = enabled \cup {line}
  /\ dpc' = "store"
  /\ UNCHANGED <<BREAK_POINT, pending, priority, handler, hartVars, TEST, phase,
                 line, hostVars>>

\* Slip: the handler is stored one place too far.
StoreHandlerOnePast ==
  /\ MainAt("store")
  /\ handler' = [handler EXCEPT ![IF line = MAX_PLIC_NUMBER THEN 0
                                  ELSE line + 1] = "test"]
  /\ dpc' = "set_priority"
  /\ UNCHANGED <<BREAK_POINT, pending, enabled, priority, hartVars, TEST, phase,
                 line, hostVars>>

\* _register_extint_handler
StoreHandler ==
  /\ MainAt("store")
  /\ handler' = [handler EXCEPT ![line] = "test"]
  /\ dpc' = "set_priority"
  /\ UNCHANGED <<BREAK_POINT, pending, enabled, priority, hartVars, TEST, phase,
                 line, hostVars>>

SetPlicIntPriority ==
  /\ MainAt("set_priority")
  /\ priority' = [priority EXCEPT ![line] = 1]
  /\ dpc' = IF phase = "enable" THEN "wait_begin" ELSE "disable"
  /\ UNCHANGED <<BREAK_POINT, pending, enabled, handler, hartVars, TEST, phase,
                 line, hostVars>>

\* PLIC_disable() takes the line back at once.
DisablePlicInt ==
  /\ MainAt("disable")
  /\ enabled' = enabled \ {line}
  /\ dpc' = "wait_begin"
  /\ UNCHANGED <<BREAK_POINT, pending, priority, handler, hartVars, TEST, phase,
                 line, hostVars>>

DutWaitBegin ==
  /\ MainAt("wait_begin")
  /\ Releases(BP_TEST_begin) \/ Aborts(BP_TEST_begin)
  /\ dpc' = IF Releases(BP_TEST_begin) THEN "open" ELSE "exited"
  /\ UNCHANGED <<BREAK_POINT, plicVars, hartVars, TEST, phase, line, hostVars>>

OpenWindow ==
  /\ MainAt("open")
  /\ mie' = 1 /\ dpc' = "close"
  /\ UNCHANGED <<BREAK_POINT, plicVars, meie, isr, claim, TEST, phase, line,
                 hostVars>>

CloseWindow ==
  /\ MainAt("close")
  /\ mie' = 0 /\ dpc' = "set_end"
  /\ UNCHANGED <<BREAK_POINT, plicVars, meie, isr, claim, TEST, phase, line,
                 hostVars>>

\* dut_set_bp(BP_TEST_end): the host writes nothing between its test of the
\* mailbox and its store, for it waits for this store.
DutSetEnd ==
  /\ MainAt("set_end")
  /\ BREAK_POINT' = IF SetIsRefused THEN BREAK_POINT ELSE BP_TEST_end
  /\ dpc' = "wait_success"
  /\ UNCHANGED <<plicVars, hartVars, TEST, phase, line, hostVars>>

\* Slip: the round's own BP_TEST_end releases the wait.
DutWaitSuccessNot ==
  /\ MainAt("wait_success")
  /\ dpc' = "register" /\ line' = line + 1
  /\ UNCHANGED <<BREAK_POINT, plicVars, hartVars, TEST, phase, hostVars>>

DutWaitSuccess ==
  /\ MainAt("wait_success")
  /\ Releases(BP_TEST_success) \/ Aborts(BP_TEST_success)
  /\ IF Releases(BP_TEST_success) THEN dpc' = "register" /\ line' = line + 1
                                  ELSE dpc' = "exited" /\ line' = line
  /\ UNCHANGED <<BREAK_POINT, plicVars, hartVars, TEST, phase, hostVars>>

\* A phase's loop ends.  PLIC_disable() opens with dut_set_bp(BP_TEST_init),
\* whatever the mailbox holds; after PLIC_disable() main returns.
EndOfPhase ==
  /\ MainAt("register") /\ line > MAX_PLIC_NUMBER
  /\ BREAK_POINT' = IF phase = "disable" \/ SetIsRefused THEN BREAK_POINT
                                                       ELSE BP_TEST_init
  /\ dpc' = IF phase = "enable" THEN "init" ELSE "exited"
  /\ phase' = "disable"
  /\ UNCHANGED <<plicVars, hartVars, TEST, line, hostVars>>

-----------------------------------------------------------------------------
(* The host sequence.                                                      *)

HostFails == hpc' = "done" /\ verdict' = "FAIL"

\* The firmware waits for a breakpoint that is not there, or has returned.
DutStuck ==
  \/ dpc = "wait_begin" /\ ~Releases(BP_TEST_begin)
  \/ dpc = "wait_success" /\ ~Releases(BP_TEST_success)
  \/ dpc = "exited"

PollRunsOut == slow = 1 \/ DutStuck

\* The first round of the second half waits for PLIC_disable's BP_TEST_init.
HostRound ==
  /\ hpc = "loop"
  /\ hpc' = IF hround = MAX_PLIC_NUMBER THEN "wait_init" ELSE "trigger"
  /\ UNCHANGED <<BREAK_POINT, plicVars, hartVars, dutVars, hround, verdict, slow>>

\* host_wait_bp's result is ignored: a poll that runs out goes on as well.
HostWaitInit ==
  /\ hpc = "wait_init"
  /\ BREAK_POINT = BP_TEST_init \/ PollRunsOut
  /\ hpc' = "trigger"
  /\ UNCHANGED <<BREAK_POINT, plicVars, hartVars, dutVars, hround, verdict, slow>>

Bit(r) == IF r < MAX_PLIC_NUMBER THEN r ELSE r - MAX_PLIC_NUMBER

\* The 64-bit input is converted to trigger_irq's MASK_BITS-bit mask: a bit
\* beyond it is dropped.  Bit b is PLIC line b + 1.
TriggerIrq ==
  /\ hpc = "trigger"
  /\ pending' = IF Bit(hround) < MASK_BITS THEN pending \cup {Bit(hround) + 1}
                                          ELSE pending
  /\ hpc' = "set_begin"
  /\ UNCHANGED <<BREAK_POINT, enabled, priority, handler, hartVars, dutVars,
                 hround, verdict, slow>>

HostSetBegin ==
  /\ hpc = "set_begin"
  /\ BREAK_POINT' = BP_TEST_begin
  /\ hpc' = "wait_end"
  /\ UNCHANGED <<plicVars, hartVars, dutVars, hround, verdict, slow>>

HostWaitEnd ==
  /\ hpc = "wait_end" /\ BREAK_POINT = BP_TEST_end
  /\ hpc' = "check"
  /\ UNCHANGED <<BREAK_POINT, plicVars, hartVars, dutVars, hround, verdict, slow>>

HostTimeout ==
  /\ hpc = "wait_end" /\ BREAK_POINT # BP_TEST_end /\ PollRunsOut
  /\ HostFails
  /\ UNCHANGED <<BREAK_POINT, plicVars, hartVars, dutVars, hround, slow>>

\* The count the host expects in this round.
Expected == IF hround < MAX_PLIC_NUMBER THEN hround + 1 ELSE 0

\* The last round's success is the sequence's.
HostCheck ==
  /\ hpc = "check"
  /\ IF TEST # Expected
     THEN HostFails /\ hround' = hround
     ELSE /\ hround' = hround + 1
          /\ IF hround + 1 = 2 * MAX_PLIC_NUMBER
             THEN hpc' = "done" /\ verdict' = "PASS"
             ELSE hpc' = "loop" /\ verdict' = verdict
  /\ UNCHANGED <<BREAK_POINT, plicVars, hartVars, dutVars, slow>>

-----------------------------------------------------------------------------
Dut ==
  \/ TakeExtInterrupt \/ ClaimAndComplete \/ CallExtHandler
  \/ InitExtintHandler \/ EnablePlicInt \/ StoreHandler \/ SetPlicIntPriority
  \/ DisablePlicInt
  \/ DutWaitBegin \/ OpenWindow \/ CloseWindow \/ DutSetEnd \/ DutWaitSuccess
  \/ EndOfPhase

Host ==
  \/ HostRound \/ HostWaitInit \/ TriggerIrq \/ HostSetBegin \/ HostWaitEnd
  \/ HostCheck

Next == (Dut \/ Host \/ HostTimeout) /\ UNCHANGED build

Spec == Init /\ [][Next]_vars

\* The simulator clocks the hart and runs the host's polls to their bound.
FairSpec == Spec /\ WF_state(Dut) /\ WF_state(Host) /\ WF_state(HostTimeout)

-----------------------------------------------------------------------------
TypeOK ==
  /\ MAX_PLIC_NUMBER \in Nat \ {0} /\ MASK_BITS \in Nat
  /\ BREAK_POINT \in BreakPoints
  /\ pending \subseteq Lines /\ enabled \subseteq Lines
  /\ priority \in [Lines -> 0 .. 7]
  /\ handler \in [{0} \cup Lines -> {"null", "empty", "test"}]
  /\ meie \in {0, 1} /\ mie \in {0, 1}
  /\ isr \in {"off", "claim", "call"} /\ claim \in {0} \cup Lines
  /\ TEST \in 0 .. MAX_PLIC_NUMBER
  /\ dpc \in {"init", "register", "store", "set_priority", "disable",
              "wait_begin", "open", "close", "set_end", "wait_success", "exited"}
  /\ phase \in {"enable", "disable"}
  /\ line \in 1 .. MAX_PLIC_NUMBER + 1
  /\ hpc \in {"loop", "wait_init", "trigger", "set_begin", "wait_end", "check",
              "done"}
  /\ hround \in 0 .. 2 * MAX_PLIC_NUMBER
  /\ verdict \in {"none", "PASS", "FAIL"} /\ slow \in {0, 1}

\* Each line the mask can carry is counted exactly once, in the two-instruction
\* window the firmware opens for it, before the host reads TEST.
LineIsCounted ==
  hpc = "check" /\ hround < MAX_PLIC_NUMBER /\ hround < MASK_BITS =>
     TEST = hround + 1

\* The trap only ever dispatches to a handler the firmware registered: no
\* spurious claim of line 0 through the null ext_int_handler[0], and no line
\* forwarded before its handler is stored, although register_extint_handler
\* enables the line first and the host may raise it at any moment.
DispatchIsRegistered == isr = "call" => handler[claim] = "test"

\* The host's lines are in step with the firmware's: it is on the line the
\* host has opened last, or one behind it, while the first half runs.
LinesInStep ==
  phase = "enable" /\ verdict = "none" /\ hround < MAX_PLIC_NUMBER =>
     line \in {hround, hround + 1}

\* The safety of PLIC/enable: host and firmware are on the same line, whose
\* interrupt is dispatched to its registered handler and counted once.
LinesAreSound == TypeOK /\ LineIsCounted /\ DispatchIsRegistered /\ LinesInStep

\* The lines of the first half that trigger_irq's mask carries.
Carried == IF MAX_PLIC_NUMBER <= MASK_BITS THEN MAX_PLIC_NUMBER ELSE MASK_BITS

\* If no poll runs out early, the host gets through every line of PLIC_enable
\* that its mask carries, although it never sends the success the firmware waits
\* for: the next begin is taken for it.
CarriedLinesPass == slow = 0 ~> hround = Carried

\* The host always reports, PASS or FAIL.
HostAlwaysReports == <>(verdict # "none")

\* The sequence of PLIC_enable.cc ends, and not before every line it can raise
\* is through unless a poll of its own ran out.
HostFinishes == HostAlwaysReports /\ CarriedLinesPass

\* What S5740.list says of PLIC/enable, PASS: the host does not report FAIL when
\* no poll runs out early.  It does not hold with the 45 lines of the test and
\* the 32 bits of the mask: line 33 is never raised, and not counted.  With the
\* 8 lines of verif/README.md it fails between the halves: the host's begin is
\* overwritten by PLIC_disable's BP_TEST_init.
PassesAsListed == slow = 0 => verdict # "FAIL"

-----------------------------------------------------------------------------
(* The inductive invariant.                                                *)

\* The host has raised this round's line, and has told the firmware so.
Raised == hpc \in {"set_begin", "wait_end"} \/ verdict = "FAIL"
Begun  == hpc = "wait_end" \/ verdict = "FAIL"

\* The line this round's mask carries.
RoundLines == IF Bit(hround) < MASK_BITS THEN {Bit(hround) + 1} ELSE {}
Unserved   == IF Raised THEN RoundLines ELSE {}

\* The sequence never gets past the first round of its second half.
VerdictInv ==
  /\ hpc = "done" <=> verdict # "none"
  /\ verdict # "PASS"
  /\ hround <= MAX_PLIC_NUMBER
  /\ hpc = "wait_init" => hround = MAX_PLIC_NUMBER
  /\ hpc = "check" => hround < MAX_PLIC_NUMBER

\* Who may be where in PLIC_enable(), and what the mailbox then holds.
RoundInv ==
  phase = "enable" =>
    /\ dpc = "init" => line = 1
    /\ dpc # "disable"
    /\ line = MAX_PLIC_NUMBER + 1 => dpc = "register"
    /\ dpc # "wait_success" =>
          /\ hround + 1 = line
          /\ hpc \notin {"wait_init", "check"}
          /\ BREAK_POINT = IF Begun THEN BP_TEST_begin ELSE BP_TEST_init
          /\ Begun \/ line = 1
    /\ dpc \in {"open", "close", "set_end"} => Begun
    /\ dpc = "wait_success" =>
          \/ hround + 1 = line /\ BREAK_POINT = BP_TEST_end
             /\ (Begun \/ hpc = "check")
          \/ hround = line /\ BREAK_POINT = BP_TEST_end
             /\ hpc \in {"loop", "wait_init", "trigger", "set_begin"}
          \/ hround = line /\ BREAK_POINT = BP_TEST_begin /\ Begun

\* PLIC_disable() gets to its first wait, with the host's begin overwritten.
DisableInv ==
  phase = "disable" =>
    /\ BREAK_POINT = BP_TEST_init
    /\ hround = MAX_PLIC_NUMBER /\ Begun
    /\ dpc \in {"init", "register", "store", "set_priority", "disable",
                "wait_begin"}
    /\ dpc # "init" => line = 1

\* Interrupts are open in the window only, for the line it is opened for.
WindowInv ==
  /\ dpc # "exited"
  /\ mie = 1 <=> dpc = "close"
  /\ isr # "off" => dpc = "close"
  /\ phase = "enable" /\ dpc # "init" => meie = 1
  /\ phase = "enable" /\ dpc \notin {"init", "register"} =>
        /\ line \in enabled
        /\ dpc # "store" => handler[line] = "test"
        /\ dpc \notin {"store", "set_priority"} => priority[line] = 1

\* TEST is the number of lines served, and the line of the round, once raised,
\* is pending until it is served.
CountInv ==
  phase = "enable" =>
    /\ dpc \in {"init", "register", "store", "set_priority", "wait_begin",
                "open"} =>
          TEST = line - 1 /\ pending = Unserved
    /\ dpc = "close" =>
          \/ isr = "off" /\ TEST = line - 1 /\ pending = RoundLines
          \/ isr = "claim" /\ TEST = line - 1 /\ pending = RoundLines
             /\ RoundLines # {}
          \/ isr = "call" /\ TEST = line - 1 /\ pending = {} /\ claim = line
             /\ RoundLines # {}
          \/ isr = "off" /\ TEST = line /\ pending = {} /\ RoundLines # {}
    /\ dpc \in {"set_end", "wait_success"} /\ hround + 1 = line =>
          /\ pending = {}
          /\ TEST = IF RoundLines = {} THEN line - 1 ELSE line
    /\ dpc = "wait_success" /\ hround = line =>
          TEST = line /\ pending = Unserved

IInv == VerdictInv /\ RoundInv /\ DisableInv /\ WindowInv /\ CountInv
=============================================================================
