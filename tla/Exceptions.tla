----------------------------- MODULE Exceptions -----------------------------
(***************************************************************************)
(* The exception layer, Platform/Common/Src/exceptions.c with trap_entry.S *)
(* and trap.h, under a bare-metal test that uses it as EXCEPTION/traps and *)
(* PMP/violation do: it sets policies and PMP regions, then registers an   *)
(* expectation, calls a trigger function and judges what happened.         *)
(*                                                                         *)
(* The code of the triggers is there twice: as the instructions the hart   *)
(* executes, and as the halfwords of memory, which is all the trap handler *)
(* sees of them.  The handler runs with interrupts off and does not trap   *)
(* itself, so that a trap is one step.                                     *)
(***************************************************************************)
EXTENDS Pmp, Sequences

CONSTANTS
  Code,        \* halfword address -> [k : kind, len : halfwords, x : operand];
               \* a trigger is straight-line code that ends in a return
  Memory,      \* halfword address -> the 16 bits there
  Triggers,    \* the addresses of the trigger functions
  Policies,    \* the causes tests set a policy for
  Wanted       \* the causes tests expect

CAUSE_ILLEGAL_INSTRUCTION == 2
CAUSE_BREAKPOINT          == 3
CAUSE_MISALIGNED_LOAD     == 4
CAUSE_LOAD_ACCESS         == 5
CAUSE_MISALIGNED_STORE    == 6
CAUSE_STORE_ACCESS        == 7
CAUSE_MACHINE_ECALL       == 11
CAUSE_MAX                 == 16

Causes == 0 .. CAUSE_MAX - 1

\* The code is encoded as RISC-V demands: an instruction is of 4 bytes if the
\* low two bits of its first halfword are 11 and of 2 bytes otherwise, and the
\* second half of one is not the start of another.
ASSUME ExceptionsConstants ==
  /\ DOMAIN Code \subseteq Nat
  /\ \A a \in DOMAIN Code :
        /\ Code[a].len \in {1, 2}
        /\ Code[a].k \in {"plain", "ret", "illegal", "ebreak", "ecall", "load",
                          "store"}
        /\ Code[a].k # "ret" => a + Code[a].len \in DOMAIN Code
        /\ Code[a].len = 2 <=> Memory[a] % 4 = 3
        /\ Code[a].len = 2 => a + 1 \notin DOMAIN Code
  /\ Triggers \subseteq DOMAIN Code
  /\ Policies \subseteq Nat /\ Wanted \subseteq Nat

VARIABLES
  exc_action, exc_handler,               \* the policy of each cause
  exc_last, exc_total,                   \* the record
  expect_valid, expect_cause, expect_hit,
  pc,                                    \* where the trigger is
  tpc,      \* the test: "idle", "trigger", "judge" or "exited"
  code,     \* what exit() reported: "none", "fatal" or "fail"
  before,   \* expect_and_run's exception_count() before the trigger
  verdict,  \* what the last expect_and_run returned
  raised,   \* history: the exceptions raised since exception_expect
  entry,    \* history: where the trigger started
  passed    \* history: the instructions it has executed or trapped at

policyVars == <<exc_action, exc_handler>>
recordVars == <<exc_last, exc_total>>
expectVars == <<expect_valid, expect_cause, expect_hit>>
history    == <<raised, entry, passed>>
testVars   == <<pc, tpc, code, before, verdict, history>>
excVars == <<policyVars, recordVars, expectVars, testVars>>
vars == <<pmpVars, excVars>>

NoRecord == [cause |-> 0, epc |-> 0, count |-> 0]

ExcInit ==
  /\ exc_action = [c \in Causes |-> "FATAL"]
  /\ exc_handler = [c \in Causes |-> "none"]
  /\ exc_last = NoRecord /\ exc_total = 0
  /\ expect_valid = 0 /\ expect_cause = 0 /\ expect_hit = 0
  /\ pc = 0 /\ tpc = "idle" /\ code = "none"
  /\ before = 0 /\ verdict = 0
  /\ raised = <<>> /\ entry = 0 /\ passed = {}

-----------------------------------------------------------------------------
(* The test's calls.                                                       *)

Calls ==
  /\ tpc = "idle" /\ ppc = "idle" /\ calls < MaxCalls
  /\ calls' = calls + 1
  /\ UNCHANGED <<pmpcfg, pmpaddr, ppc, call, asked>>

\* exceptions_init may be called again at any time.
ExceptionsInit ==
  /\ Calls
  /\ exc_action' = [c \in Causes |-> "FATAL"]
  /\ exc_handler' = [c \in Causes |-> "none"]
  /\ exc_last' = NoRecord /\ exc_total' = 0
  /\ expect_valid' = 0 /\ expect_cause' = 0 /\ expect_hit' = 0
  /\ UNCHANGED <<pc, tpc, code, before, verdict, history>>

\* A cause out of range is ignored.
ExceptionSetAction(c, act) ==
  /\ Calls
  /\ exc_action' = IF c < CAUSE_MAX THEN [exc_action EXCEPT ![c] = act]
                                    ELSE exc_action
  /\ UNCHANGED <<exc_handler, recordVars, expectVars, pc, tpc, code, before,
                 verdict, history>>

\* A handler that skips the instruction and returns 0, or one that refuses.
ExceptionSetHandler(c, h) ==
  /\ Calls
  /\ IF c < CAUSE_MAX
     THEN /\ exc_handler' = [exc_handler EXCEPT ![c] = h]
          /\ exc_action' = [exc_action EXCEPT ![c] = "HANDLER"]
     ELSE UNCHANGED policyVars
  /\ UNCHANGED <<recordVars, expectVars, pc, tpc, code, before, verdict,
                 history>>

ExceptionExpect(c) == expect_cause' = c /\ expect_valid' = 1 /\ expect_hit' = 0

\* expect_and_run up to the call of the trigger.
ExpectAndRun(c, f) ==
  /\ Calls
  /\ before' = exc_total
  /\ ExceptionExpect(c)
  /\ pc' = f /\ tpc' = "trigger"
  /\ raised' = <<>> /\ entry' = f /\ passed' = {}
  /\ UNCHANGED <<policyVars, recordVars, code, verdict>>

\* Reading the result clears it; expect_hit is the result.
ExceptionMatched == expect_valid' = 0 /\ expect_hit' = 0

\* The rest of expect_and_run: the checks of the record, with the result.
Judge ==
  /\ tpc = "judge"
  /\ ExceptionMatched
  /\ verdict' = IF exc_total # before + 1 \/ exc_last.cause # expect_cause
                THEN 0 ELSE expect_hit
  /\ tpc' = "idle"
  /\ UNCHANGED <<policyVars, recordVars, expect_cause, pc, code, before, history,
                 pmpVars>>

-----------------------------------------------------------------------------
(* The hart.                                                               *)

NONE == CAUSE_MAX

\* The exception an instruction raises, or NONE.
Raises(i) ==
  CASE i.k = "illegal" -> CAUSE_ILLEGAL_INSTRUCTION
    [] i.k = "ebreak"  -> CAUSE_BREAKPOINT
    [] i.k = "ecall"   -> CAUSE_MACHINE_ECALL
    [] i.k = "load"    -> IF i.x % 4 # 0 THEN CAUSE_MISALIGNED_LOAD
                          ELSE IF Denied(i.x, "R") THEN CAUSE_LOAD_ACCESS
                          ELSE NONE
    [] i.k = "store"   -> IF i.x % 4 # 0 THEN CAUSE_MISALIGNED_STORE
                          ELSE IF Denied(i.x, "W") THEN CAUSE_STORE_ACCESS
                          ELSE NONE
    [] OTHER           -> NONE

Running == tpc = "trigger" /\ pc \in DOMAIN Code

Execute ==
  /\ Running /\ Raises(Code[pc]) = NONE
  /\ IF Code[pc].k = "ret" THEN tpc' = "judge" /\ pc' = pc
                           ELSE tpc' = tpc /\ pc' = pc + Code[pc].len
  /\ passed' = passed \cup {pc}
  /\ UNCHANGED <<policyVars, recordVars, expectVars, code, before, verdict,
                 raised, entry, pmpVars>>

\* An interrupt whose handler returns 0 changes nothing here; any other ends the
\* program.
DispatchInterrupt ==
  /\ tpc = "trigger"
  /\ tpc' = "exited" /\ code' = "fail"
  /\ UNCHANGED <<policyVars, recordVars, expectVars, pc, before, verdict,
                 history, pmpVars>>

-----------------------------------------------------------------------------
(* handle_exception                                                        *)

Expected(c) == expect_valid = 1 /\ c = expect_cause

\* Slip: only an exception no one expects is counted.
RecordUnexpected(c) ==
  /\ exc_total' = IF Expected(c) THEN exc_total ELSE exc_total + 1
  /\ exc_last' = [cause |-> c, epc |-> pc, count |-> exc_total']
  /\ raised' = Append(raised, c)

Record(c) ==
  /\ exc_total' = exc_total + 1
  /\ exc_last' = [cause |-> c, epc |-> pc, count |-> exc_total + 1]
  /\ raised' = Append(raised, c)

\* Slip: either of the low two bits makes an instruction 4 bytes long.
trap_insn_len_any(a) == IF Memory[a] % 4 # 0 THEN 2 ELSE 1

\* The length of the instruction at a, in halfwords: the handler reads its first
\* halfword again and looks at the low two bits.
trap_insn_len(a) == IF Memory[a] % 4 = 3 THEN 2 ELSE 1

trap_skip_insn == pc' = pc + trap_insn_len(pc)

Traps(c) ==
  /\ Running /\ Raises(Code[pc]) = c /\ c # NONE
  /\ Record(c)
  /\ passed' = passed \cup {pc} /\ UNCHANGED entry

Policy(c) == IF c < CAUSE_MAX THEN exc_action[c] ELSE "FATAL"

Resumable(c) ==
  Policy(c) = "SKIP" \/ (Policy(c) = "HANDLER" /\ exc_handler[c] = "skips")

\* Slip: the expectation is not used up.
TrapExpectedAgain(c) ==
  /\ Traps(c) /\ Expected(c)
  /\ expect_hit' = 1
  /\ trap_skip_insn
  /\ UNCHANGED <<policyVars, expect_valid, expect_cause, tpc, code, before,
                 verdict, pmpVars>>

\* What the test expects is skipped whatever the policy.
TrapExpected(c) ==
  /\ Traps(c) /\ Expected(c)
  /\ expect_hit' = 1 /\ expect_valid' = 0
  /\ trap_skip_insn
  /\ UNCHANGED <<policyVars, expect_cause, tpc, code, before, verdict, pmpVars>>

\* The policy skips the instruction, itself or through a handler.
TrapResumes(c) ==
  /\ Traps(c) /\ ~Expected(c) /\ Resumable(c)
  /\ trap_skip_insn
  /\ UNCHANGED <<policyVars, expectVars, tpc, code, before, verdict, pmpVars>>

\* Slip: a handler's refusal leaves the hart waiting in the trap.
TrapFatalByPolicy(c) ==
  /\ Traps(c) /\ ~Expected(c) /\ Policy(c) = "FATAL"
  /\ tpc' = "exited" /\ code' = "fatal"
  /\ UNCHANGED <<policyVars, expectVars, pc, before, verdict, pmpVars>>

\* No policy, no handler, or a handler that refuses.
TrapFatal(c) ==
  /\ Traps(c) /\ ~Expected(c) /\ ~Resumable(c)
  /\ tpc' = "exited" /\ code' = "fatal"
  /\ UNCHANGED <<policyVars, expectVars, pc, before, verdict, pmpVars>>

-----------------------------------------------------------------------------
Init == PmpInit /\ ExcInit

ApiCall ==
  \/ ExceptionsInit
  \/ \E c \in Policies, act \in {"FATAL", "SKIP", "HANDLER"} :
        ExceptionSetAction(c, act)
  \/ \E c \in Policies, h \in {"skips", "refuses"} : ExceptionSetHandler(c, h)
  \/ \E c \in Wanted, f \in Triggers : ExpectAndRun(c, f)

Hart ==
  \/ Execute
  \/ \E c \in Causes : TrapExpected(c) \/ TrapResumes(c) \/ TrapFatal(c)
  \/ Judge

PmpCall == tpc = "idle" /\ PmpNext /\ UNCHANGED excVars

Next == ApiCall \/ Hart \/ DispatchInterrupt \/ PmpCall

Spec == Init /\ [][Next]_vars

\* The hart executes; no one need make another call.
FairSpec == Spec /\ WF_vars(Hart)

-----------------------------------------------------------------------------
TypeOK ==
  /\ PmpTypeOK
  /\ exc_action \in [Causes -> {"FATAL", "SKIP", "HANDLER"}]
  /\ exc_handler \in [Causes -> {"none", "skips", "refuses"}]
  /\ exc_last.cause \in Causes /\ exc_last.count = exc_total
  /\ expect_valid \in {0, 1} /\ expect_hit \in {0, 1} /\ verdict \in {0, 1}
  /\ tpc \in {"idle", "trigger", "judge", "exited"}
  /\ code \in {"none", "fatal", "fail"}

\* The PMP entries a test of violations relies on guard exactly what pmp.c was
\* asked for, a locked one at every moment, and the exception layer's state is
\* of its types.
GuardsAsAsked == TypeOK /\ RegionIsAsAsked /\ LockedIsAsAsked

\* Every instruction of a trigger is gone through once, in order, up to where it
\* is: a trap resumes behind the instruction that trapped, not in the middle of
\* one, not one too far and not at the same one again.  trap_insn_len has only
\* the bits in memory to tell 2- from 4-byte instructions.
EachInstructionOnce ==
  tpc = "trigger" =>
     /\ pc \in DOMAIN Code
     /\ passed = {a \in DOMAIN Code : entry <= a /\ a < pc}

\* expect_and_run reports success exactly when the trigger raised the expected
\* exception, once, and nothing else, whatever the policies skipped on the way.
VerdictIsExact ==
  [][Judge => (verdict' = 1 <=> raised = <<expect_cause>>)]_vars

\* An exception a test may pass over: its policy resumes, or it is the expected
\* one and came up for the first time.
MayPass(i) ==
  \/ Resumable(raised[i])
  \/ /\ raised[i] = expect_cause
     /\ \A j \in 1 .. i - 1 : raised[j] # expect_cause

\* No exception is passed over in silence: a trigger that returns has raised
\* only exceptions whose policy resumes and, once, the expected one.
NothingSlipsThrough ==
  tpc = "judge" => \A i \in 1 .. Len(raised) : MayPass(i)

\* No trap leaves the hart hanging or trapping for ever: the trigger returns or
\* the program ends.
TriggerEnds == tpc = "trigger" ~> tpc # "trigger"

-----------------------------------------------------------------------------
(* The inductive invariant: while a trigger runs, the record and the       *)
(* expectation tell what it has raised so far.                             *)

RecordType ==
  /\ exc_total \in Nat /\ before \in Nat /\ raised \in Seq(Nat)
  /\ expect_valid \in {0, 1} /\ expect_hit \in {0, 1}
  /\ expect_cause \in Nat

RecordInv ==
  tpc \in {"trigger", "judge"} =>
     /\ exc_total = before + Len(raised)
     /\ Len(raised) > 0 => exc_last.cause = raised[Len(raised)]
     /\ expect_hit = 1 - expect_valid
     /\ expect_valid = 1 <=>
           \A i \in 1 .. Len(raised) : raised[i] # expect_cause
     /\ \A i \in 1 .. Len(raised) : MayPass(i)

IInv == RecordType /\ RecordInv

\* A trigger only moves on from where it started.
StepInv == EachInstructionOnce /\ (tpc = "trigger" => entry \in Nat /\ entry <= pc)
=============================================================================
