---------------------------- MODULE SwInterrupt ----------------------------
(***************************************************************************)
(* The CLINT/sw_interrupt co-simulation test: BP_MAX rounds in which the   *)
(* host raises the CLINT's MSIP bit, opens the round through the mailbox,  *)
(* waits for the firmware's answer and checks that the firmware's handler  *)
(* has counted exactly one more interrupt.                                 *)
(*                                                                         *)
(* Two processors run: the DUT's hart (boot code, main line, trap) and the *)
(* host sequence on the chipyard backend.  Each access to the mailbox, to  *)
(* MSIP or to TEST is a step.  The hart takes a pending enabled interrupt  *)
(* before its next instruction.                                            *)
(***************************************************************************)
EXTENDS Naturals, Mailbox

CONSTANTS
  BP_MAX,     \* rounds of the test
  Preloads    \* the firmware builds considered: TRUE for -DPRELOAD

ASSUME SwInterruptConstants ==
  /\ BP_MAX \in Nat
  /\ Preloads \subseteq BOOLEAN

VARIABLES
  MSIP,     \* CLINT software-interrupt pending bit
  TEST,     \* the firmware's interrupt count, which the host reads
  mie,      \* mstatus.MIE
  msie,     \* mie.MSIE
  preload,  \* how the firmware was built: 1 for -DPRELOAD
  slow,     \* 1 if the hart may be too slow for the bounds of the host's polls
  dpc,      \* where the firmware is
  dround,   \* its bp_num
  isr,      \* where the trap handler is; "off" when none runs
  tohost,   \* what exit() reported: "none", "success" or "fail"
  hpc,      \* where the host sequence is
  hround,   \* its bp_num
  verdict   \* what run_vseq reports: "none", "PASS" or "FAIL"

dutVars  == <<preload, slow, dpc, dround, tohost>>
hartVars == <<mie, msie, isr>>
hostVars == <<hpc, hround, verdict>>
vars == <<BREAK_POINT, MSIP, TEST, dutVars, hartVars, hostVars>>

Init ==
  /\ BREAK_POINT = BP_NONE
  /\ MSIP = 0 /\ TEST = 0
  /\ mie = 0 /\ msie = 0 /\ isr = "off"
  /\ preload \in {IF p THEN 1 ELSE 0 : p \in Preloads}
  /\ slow \in {0, 1}
  /\ dpc = "crt" /\ dround = 0 /\ tohost = "none"
  /\ hpc = "ready" /\ hround = 0 /\ verdict = "none"

-----------------------------------------------------------------------------
(* The hart: the main line runs between interrupts.                        *)

IrqPending == mie = 1 /\ msie = 1 /\ MSIP = 1

MainAt(p) == isr = "off" /\ ~IrqPending /\ dpc = p

Exit(code) == dpc' = "exited" /\ tohost' = code

\* bp_init overwrites the mailbox, whatever is in it.
BpInit ==
  /\ MainAt("crt")
  /\ BREAK_POINT' = BP_TEST_init
  /\ dpc' = IF preload = 1 THEN "main" ELSE "mem_wait"
  /\ UNCHANGED <<MSIP, TEST, preload, slow, dround, tohost, hartVars, hostVars>>

\* A poll of dut_wait_bp(n) that ends: on to the next statement, or exit.
DutWaitBp(n, next) ==
  /\ Releases(n) \/ Aborts(n)
  /\ IF Releases(n) THEN dpc' = next /\ tohost' = tohost ELSE Exit("fail")

BpInitWait ==
  /\ MainAt("mem_wait")
  /\ DutWaitBp(BP_MEM_WRITE, "main")
  /\ UNCHANGED <<BREAK_POINT, MSIP, TEST, preload, slow, dround, hartVars,
                 hostVars>>

InitSwintHandler ==
  /\ MainAt("main")
  /\ msie' = 1
  /\ dpc' = "loop"
  /\ UNCHANGED <<BREAK_POINT, MSIP, TEST, preload, slow, dround, tohost, mie,
                 isr, hostVars>>

DutRound ==
  /\ MainAt("loop") /\ dround < BP_MAX
  /\ mie' = 0
  /\ dpc' = "wait_begin"
  /\ UNCHANGED <<BREAK_POINT, MSIP, TEST, preload, slow, dround, tohost, msie,
                 isr, hostVars>>

DutReturn ==
  /\ MainAt("loop") /\ dround = BP_MAX
  /\ Exit("success")
  /\ UNCHANGED <<BREAK_POINT, MSIP, TEST, preload, slow, dround, hartVars,
                 hostVars>>

DutWaitBegin ==
  /\ MainAt("wait_begin")
  /\ DutWaitBp(BP_TEST_begin, "enable")
  /\ UNCHANGED <<BREAK_POINT, MSIP, TEST, preload, slow, dround, hartVars,
                 hostVars>>

\* Slip: interrupts stay masked.
DutEnableNot ==
  /\ MainAt("enable")
  /\ dpc' = "set_check"
  /\ UNCHANGED <<BREAK_POINT, MSIP, TEST, preload, slow, dround, tohost,
                 hartVars, hostVars>>

DutEnable ==
  /\ MainAt("enable")
  /\ mie' = 1
  /\ dpc' = "set_check"
  /\ UNCHANGED <<BREAK_POINT, MSIP, TEST, preload, slow, dround, tohost, msie,
                 isr, hostVars>>

\* dut_set_bp tests the mailbox first and stores after: the host may write it
\* in between.
DutSetCheck ==
  /\ MainAt("set_check")
  /\ dpc' = IF SetIsRefused THEN "wait_success" ELSE "set_store"
  /\ UNCHANGED <<BREAK_POINT, MSIP, TEST, preload, slow, dround, tohost,
                 hartVars, hostVars>>

DutSetStore ==
  /\ MainAt("set_store")
  /\ BREAK_POINT' = BP_TEST_end
  /\ dpc' = "wait_success"
  /\ UNCHANGED <<MSIP, TEST, preload, slow, dround, tohost, hartVars, hostVars>>

DutWaitSuccess ==
  /\ MainAt("wait_success")
  /\ DutWaitBp(BP_TEST_success, "loop")
  /\ dround' = IF Releases(BP_TEST_success) THEN dround + 1 ELSE dround
  /\ UNCHANGED <<BREAK_POINT, MSIP, TEST, preload, slow, hartVars, hostVars>>

-----------------------------------------------------------------------------
(* The software interrupt: trap_handler calls sw_int_handler = swint_test. *)

TakeSwInterrupt ==
  /\ isr = "off" /\ IrqPending
  /\ isr' = "count"
  /\ UNCHANGED <<BREAK_POINT, MSIP, TEST, dutVars, mie, msie, hostVars>>

SwintCount ==
  /\ isr = "count"
  /\ TEST' = TEST + 1
  /\ isr' = "clear"
  /\ UNCHANGED <<BREAK_POINT, MSIP, dutVars, mie, msie, hostVars>>

SwintClear ==
  /\ isr = "clear"
  /\ MSIP' = 0
  /\ isr' = "off"
  /\ UNCHANGED <<BREAK_POINT, TEST, dutVars, mie, msie, hostVars>>

-----------------------------------------------------------------------------
(* The host: boot barrier, rounds, verdict.                                *)

HostFails == hpc' = "done" /\ verdict' = "FAIL"

\* Slip: no barrier, the sequence starts while the DUT is still booting.
WaitDutReadyNot ==
  /\ hpc = "ready"
  /\ hpc' = "loop"
  /\ UNCHANGED <<BREAK_POINT, MSIP, TEST, dutVars, hartVars, hround, verdict>>

\* The barrier sees bp_init's value, or gives up and runs the sequence anyway.
WaitDutReady ==
  /\ hpc = "ready"
  /\ BREAK_POINT = BP_TEST_init \/ slow = 1
  /\ hpc' = "loop"
  /\ UNCHANGED <<BREAK_POINT, MSIP, TEST, dutVars, hartVars, hround, verdict>>

HostPulse ==
  /\ hpc = "loop" /\ hround < BP_MAX
  /\ MSIP' = 1
  /\ hpc' = "set_begin"
  /\ UNCHANGED <<BREAK_POINT, TEST, dutVars, hartVars, hround, verdict>>

HostReturn ==
  /\ hpc = "loop" /\ hround = BP_MAX
  /\ hpc' = "done" /\ verdict' = "PASS"
  /\ UNCHANGED <<BREAK_POINT, MSIP, TEST, dutVars, hartVars, hround>>

HostSetBegin ==
  /\ hpc = "set_begin"
  /\ BREAK_POINT' = BP_TEST_begin
  /\ hpc' = "wait_end"
  /\ UNCHANGED <<MSIP, TEST, dutVars, hartVars, hround, verdict>>

\* Slip: the polarity of host_wait_bp's result is not translated.
HostWaitEndInverted ==
  /\ hpc = "wait_end" /\ BREAK_POINT # BP_TEST_end
  /\ hpc' = "check"
  /\ UNCHANGED <<BREAK_POINT, MSIP, TEST, dutVars, hartVars, hround, verdict>>

HostWaitEnd ==
  /\ hpc = "wait_end" /\ BREAK_POINT = BP_TEST_end
  /\ hpc' = "check"
  /\ UNCHANGED <<BREAK_POINT, MSIP, TEST, dutVars, hartVars, hround, verdict>>

\* Slip: the poll is not bounded.
HostTimeoutNever ==
  /\ hpc = "wait_end" /\ BREAK_POINT # BP_TEST_end
  /\ UNCHANGED vars

HostTimeout ==
  /\ hpc = "wait_end" /\ BREAK_POINT # BP_TEST_end
  /\ slow = 1
  /\ HostFails
  /\ UNCHANGED <<BREAK_POINT, MSIP, TEST, dutVars, hartVars, hround>>

HostCheck ==
  /\ hpc = "check"
  /\ IF TEST = hround + 1 THEN hpc' = "set_success" /\ verdict' = verdict
                          ELSE HostFails
  /\ UNCHANGED <<BREAK_POINT, MSIP, TEST, dutVars, hartVars, hround>>

HostSetSuccess ==
  /\ hpc = "set_success"
  /\ BREAK_POINT' = BP_TEST_success
  /\ hround' = hround + 1
  /\ hpc' = "loop"
  /\ UNCHANGED <<MSIP, TEST, dutVars, hartVars, verdict>>

-----------------------------------------------------------------------------
Dut ==
  \/ BpInit
  \/ BpInitWait
  \/ InitSwintHandler
  \/ DutRound
  \/ DutReturn
  \/ DutWaitBegin
  \/ DutEnable
  \/ DutSetCheck
  \/ DutSetStore
  \/ DutWaitSuccess
  \/ TakeSwInterrupt
  \/ SwintCount
  \/ SwintClear

\* The host's steps other than giving up on a poll.
Host ==
  \/ WaitDutReady
  \/ HostPulse
  \/ HostReturn
  \/ HostSetBegin
  \/ HostWaitEnd
  \/ HostCheck
  \/ HostSetSuccess

Next == Dut \/ Host \/ HostTimeout

Spec == Init /\ [][Next]_vars

\* The simulator clocks the hart and runs the host's loops, and a poll that the
\* hart may be too slow for runs out in the end.
FairSpec == Spec /\ WF_vars(Dut) /\ WF_vars(Host) /\ WF_vars(HostTimeout)

-----------------------------------------------------------------------------
TypeOK ==
  /\ BREAK_POINT \in BreakPoints
  /\ MSIP \in {0, 1} /\ TEST \in Nat
  /\ mie \in {0, 1} /\ msie \in {0, 1} /\ preload \in {0, 1}
  /\ slow \in {0, 1}
  /\ dpc \in {"crt", "mem_wait", "main", "loop", "wait_begin", "enable",
              "set_check", "set_store", "wait_success", "exited"}
  /\ dround \in 0 .. BP_MAX
  /\ isr \in {"off", "count", "clear"}
  /\ tohost \in {"none", "success", "fail"}
  /\ hpc \in {"ready", "loop", "set_begin", "wait_end", "check",
              "set_success", "done"}
  /\ hround \in 0 .. BP_MAX
  /\ verdict \in {"none", "PASS", "FAIL"}

\* When the host reads TEST, the firmware's handler has counted this round's
\* pulse, once, whichever side of the round's begin it was taken on: the
\* interrupt may already fire while the firmware waits for the previous
\* round's success (swint_test, host_check_bp).
OnePulseOneCount == hpc = "check" => TEST = hround + 1

\* The handler's outpdw(MSIP, 0) never wipes out a pulse that it has not
\* counted: the host only pulses when the previous pulse is served and the
\* handler has returned.
NoPulseIsLost == hpc = "loop" => MSIP = 0 /\ isr = "off"

\* Between the host's store to MSIP and its check of TEST every pulse is
\* counted exactly once (CLINT_sw_interrupt.c's handler and both round loops).
PulsesAreCounted == OnePulseOneCount /\ NoPulseIsLost

\* While no poll of the host runs out, the host reports PASS and the firmware
\* returns from main, with or without -DPRELOAD: dut_wait_bp takes the host's
\* BP_TEST_begin for the BP_MEM_WRITE that never comes (util.c).  That is not what
\* sw_interrupt/run.sh:12-14 and S5740.list:17-19 say of a build without it.
BothSidesFinish ==
  slow = 0 => <>(verdict = "PASS" /\ tohost = "success")

\* The host always reports: a firmware that never answers costs it a bounded
\* number of polls and no hang.
HostAlwaysReports == <>(verdict # "none")

-----------------------------------------------------------------------------
(* The rounds of the test are the lockstep rounds of the abstract          *)
(* specification.                                                          *)

HostOpened == hpc \in {"wait_end", "check", "set_success"} \/ verdict = "FAIL"

openedBar   == hround + (IF HostOpened THEN 1 ELSE 0)
answeredBar == dround + (IF dpc = "wait_success" THEN 1 ELSE 0)
checkedBar  == hround + (IF hpc = "set_success" THEN 1 ELSE 0)

L == INSTANCE Lockstep WITH Rounds <- BP_MAX, opened <- openedBar,
                            answered <- answeredBar, checked <- checkedBar

\* The test runs its rounds in lockstep, over the unlocked mailbox and with
\* the boot code overwriting it (both round loops, util.c, verif_host.h).
RunsInLockstep == L!Spec

-----------------------------------------------------------------------------
(* The inductive invariant.                                                *)

\* The host waits for the firmware's answer, or has stopped waiting.
Awaiting == hpc = "wait_end" \/ verdict = "FAIL"

Pulses ==
  hround + (IF HostOpened \/ hpc = "set_begin" THEN 1 ELSE 0)

VerdictInv ==
  /\ hpc # "done" => verdict = "none"
  /\ hpc = "done" => verdict # "none"
  /\ verdict = "PASS" => hround = BP_MAX
  /\ hpc \in {"set_begin", "wait_end", "check", "set_success"} \/ verdict = "FAIL"
        => hround < BP_MAX
  /\ tohost # "fail"
  /\ dpc = "exited" <=> tohost = "success"
  /\ dpc = "exited" => dround = BP_MAX
  /\ dpc \in {"wait_begin", "enable", "set_check", "set_store", "wait_success"}
        => dround < BP_MAX

\* The interrupt enables at each point of the firmware.
HartInv ==
  /\ dpc \in {"crt", "mem_wait", "main"} => msie = 0 /\ mie = 0
  /\ dpc \notin {"crt", "mem_wait", "main"} => msie = 1
  /\ dpc \in {"wait_begin", "enable"} => mie = 0
  /\ dpc \in {"set_check", "set_store", "wait_success"} => mie = 1
  /\ isr # "off" => mie = 1 /\ msie = 1 /\ MSIP = 1

\* A pulse is counted once: TEST lags the pulses by the one that is pending.
PulseInv ==
  /\ isr = "clear" \/ MSIP = 0 => TEST = Pulses
  /\ isr # "clear" /\ MSIP = 1 => TEST + 1 = Pulses
  /\ hpc \in {"ready", "loop", "check", "set_success"} \/ verdict = "PASS"
        => MSIP = 0
  /\ BREAK_POINT = BP_TEST_end => MSIP = 0

\* Who may be where, and what the mailbox then holds.
RoundInv ==
  /\ BREAK_POINT \notin {BP_END, BP_TEST_fail}
  /\ dpc \in {"crt", "mem_wait", "main"} => dround = 0 /\ hround = 0
  /\ dpc = "crt" => BREAK_POINT \in {BP_NONE, BP_TEST_begin}
  /\ dpc \in {"enable", "set_check", "set_store"} =>
        Awaiting /\ BREAK_POINT = BP_TEST_begin /\ dround = hround
  /\ dpc = "wait_success" =>
        \/ dround = hround /\ BREAK_POINT = BP_TEST_end
           /\ (Awaiting \/ hpc \in {"check", "set_success"})
        \/ dround + 1 = hround /\ BREAK_POINT = BP_TEST_begin /\ Awaiting
        \/ dround + 1 = hround /\ BREAK_POINT = BP_TEST_success
           /\ (hpc \in {"loop", "set_begin"} \/ verdict = "PASS")
  /\ dpc \in {"loop", "wait_begin", "exited"} =>
        /\ dround = hround
        /\ BREAK_POINT # BP_TEST_end
        /\ hpc \notin {"check", "set_success"}
        /\ BREAK_POINT = BP_TEST_begin => Awaiting
  /\ dpc \in {"crt", "mem_wait", "main"} =>
        /\ hpc \notin {"check", "set_success"}
        /\ BREAK_POINT = BP_TEST_begin => Awaiting
        /\ BREAK_POINT # BP_TEST_end
  /\ hpc = "ready" => hround = 0

IInv == VerdictInv /\ HartInv /\ PulseInv /\ RoundInv
=============================================================================
