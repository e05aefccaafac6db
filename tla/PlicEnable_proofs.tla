------------------------- MODULE PlicEnable_proofs --------------------------
(***************************************************************************)
(* Proofs about PlicEnable for every number of lines, every width of       *)
(* trigger_irq's mask and whichever polls of the host run out.             *)
(***************************************************************************)
EXTENDS PlicEnable, TLAPS

\* The boot state of firmware, PLIC and host satisfies the inductive
\* invariant.
LEMMA InitInv == Init => TypeOK /\ IInv
<1> SUFFICES ASSUME Init PROVE TypeOK /\ IInv
  OBVIOUS
<1>1. MAX_PLIC_NUMBER \in Nat \ {0} /\ MASK_BITS \in Nat
  BY PlicEnableConstants DEF PlicEnableConstants, Init
<1>2. QED
  BY <1>1
  DEF Init, TypeOK, IInv, VerdictInv, RoundInv, DisableInv,
      WindowInv, CountInv, Raised, Begun, Unserved, RoundLines, Bit, Lines,
      BreakPoints, BP_MEM_WRITE, BP_TEST_init, BP_TEST_begin, BP_TEST_success,
      BP_TEST_fail, BP_TEST_end, BP_END, BP_NONE

\* Every step of the hart, of the trap and of the host keeps it.
LEMMA InvStep == TypeOK /\ IInv /\ [Next]_vars => (TypeOK /\ IInv)'
<1> SUFFICES ASSUME TypeOK, IInv, [Next]_vars PROVE TypeOK' /\ IInv'
  OBVIOUS
<1>0. UNCHANGED <<MAX_PLIC_NUMBER, MASK_BITS>>
  BY DEF Next, vars, build
<1> USE <1>0
    DEF TypeOK, IInv, VerdictInv, RoundInv, DisableInv,
        WindowInv, CountInv, Raised, Begun, Unserved, RoundLines, Bit, Lines,
        BreakPoints, BP_MEM_WRITE, BP_TEST_init, BP_TEST_begin,
        BP_TEST_success, BP_TEST_fail, BP_TEST_end, BP_END, BP_NONE, Releases,
        Aborts, MainAt, IrqPending, Forwarded, plicVars, dutVars, hartVars,
        hostVars
<1>1. CASE Dut
  <2>1. CASE TakeExtInterrupt BY <2>1 DEF TakeExtInterrupt
  <2>2. CASE ClaimAndComplete BY <2>2 DEF ClaimAndComplete, Claimable
  <2>3. CASE CallExtHandler BY <2>3 DEF CallExtHandler
  <2>4. CASE InitExtintHandler BY <2>4 DEF InitExtintHandler
  <2>5. CASE EnablePlicInt BY <2>5 DEF EnablePlicInt
  <2>12. CASE StoreHandler BY <2>12 DEF StoreHandler
  <2>13. CASE SetPlicIntPriority BY <2>13 DEF SetPlicIntPriority
  <2>14. CASE DisablePlicInt BY <2>14 DEF DisablePlicInt
  <2>6. CASE DutWaitBegin BY <2>6 DEF DutWaitBegin
  <2>7. CASE OpenWindow BY <2>7 DEF OpenWindow
  <2>8. CASE CloseWindow
    <3> USE <2>8 DEF CloseWindow
    <3>1. TypeOK' OBVIOUS
    <3>2. VerdictInv' OBVIOUS
    <3>3. RoundInv' OBVIOUS
    <3>4. DisableInv' OBVIOUS
    <3>5. WindowInv' OBVIOUS
    <3>6. CountInv' OBVIOUS
    <3>7. QED BY <3>1, <3>2, <3>3, <3>4, <3>5, <3>6
  <2>9. CASE DutSetEnd
    <3> USE <2>9 DEF DutSetEnd, SetIsRefused
    <3>1. TypeOK' OBVIOUS
    <3>2. VerdictInv' OBVIOUS
    <3>3. RoundInv' OBVIOUS
    <3>4. DisableInv' OBVIOUS
    <3>5. WindowInv' OBVIOUS
    <3>6. CountInv'
      <4>1. phase = "enable" /\ Begun /\ hround + 1 = line /\ hround' + 1 = line'
        OBVIOUS
      <4>2. /\ pending' = {}
            /\ TEST' = IF RoundLines' = {} THEN line' - 1 ELSE line'
        BY <4>1
      <4>3. dpc' = "wait_success" /\ hround' # line' BY <4>1
      <4>4. QED BY <4>1, <4>2, <4>3
    <3>7. QED BY <3>1, <3>2, <3>3, <3>4, <3>5, <3>6
  <2>10. CASE DutWaitSuccess BY <2>10 DEF DutWaitSuccess
  <2>11. CASE EndOfPhase BY <2>11 DEF EndOfPhase, SetIsRefused
  <2>15. QED BY <1>1, <2>1, <2>2, <2>3, <2>4, <2>5, <2>6, <2>7, <2>8, <2>9, <2>10, <2>11, <2>12, <2>13, <2>14 DEF Dut
<1>2. CASE Host
  <2>1. CASE HostRound
    <3> USE <2>1 DEF HostRound
    <3>1. TypeOK' OBVIOUS
    <3>2. VerdictInv' OBVIOUS
    <3>3. RoundInv' OBVIOUS
    <3>4. DisableInv' OBVIOUS
    <3>5. WindowInv' OBVIOUS
    <3>6. CountInv' OBVIOUS
    <3>7. QED BY <3>1, <3>2, <3>3, <3>4, <3>5, <3>6
  <2>2. CASE HostWaitInit BY <2>2 DEF HostWaitInit
  <2>3. CASE TriggerIrq
    <3> USE <2>3 DEF TriggerIrq
    <3>1. TypeOK' OBVIOUS
    <3>2. VerdictInv' OBVIOUS
    <3>3. RoundInv' OBVIOUS
    <3>4. DisableInv' OBVIOUS
    <3>5. WindowInv' OBVIOUS
    <3>6. CountInv'
      <4>1. ~Raised /\ ~Begun /\ Raised' /\ RoundLines' = RoundLines OBVIOUS
      <4>2. dpc \notin {"open", "close", "set_end"} /\ phase = "enable" OBVIOUS
      <4>3. CASE dpc = "wait_success"
        <5>1. hround = line /\ TEST = line BY <4>1, <4>2, <4>3
        <5>2. pending = {} /\ pending' = RoundLines
          BY <4>1, <4>2, <4>3, <5>1
        <5>3. QED BY <4>1, <4>2, <4>3, <5>1, <5>2
      <4>4. CASE dpc # "wait_success"
        BY <4>1, <4>2, <4>4
      <4>5. QED BY <4>3, <4>4
    <3>7. QED BY <3>1, <3>2, <3>3, <3>4, <3>5, <3>6
  <2>4. CASE HostSetBegin BY <2>4 DEF HostSetBegin
  <2>5. CASE HostWaitEnd
    <3> USE <2>5 DEF HostWaitEnd
    <3>1. TypeOK' OBVIOUS
    <3>2. VerdictInv' OBVIOUS
    <3>3. RoundInv' OBVIOUS
    <3>4. DisableInv' OBVIOUS
    <3>5. WindowInv' OBVIOUS
    <3>6. CountInv' OBVIOUS
    <3>7. QED BY <3>1, <3>2, <3>3, <3>4, <3>5, <3>6
  <2>6. CASE HostCheck
    <3> USE <2>6 DEF HostCheck, HostFails, Expected
    <3>1. TypeOK' OBVIOUS
    <3>2. VerdictInv' OBVIOUS
    <3>3. RoundInv' OBVIOUS
    <3>4. DisableInv' OBVIOUS
    <3>5. WindowInv' OBVIOUS
    <3>6. CountInv' OBVIOUS
    <3>7. QED BY <3>1, <3>2, <3>3, <3>4, <3>5, <3>6
  <2>7. QED BY <1>2, <2>1, <2>2, <2>3, <2>4, <2>5, <2>6 DEF Host
<1>3. CASE HostTimeout
  <2> USE <1>3 DEF HostTimeout, HostFails
  <2>1. TypeOK' OBVIOUS
  <2>2. VerdictInv' OBVIOUS
  <2>3. RoundInv' OBVIOUS
  <2>4. DisableInv' OBVIOUS
  <2>5. WindowInv' OBVIOUS
  <2>6. CountInv' OBVIOUS
  <2>7. QED BY <2>1, <2>2, <2>3, <2>4, <2>5, <2>6
<1>4. CASE UNCHANGED vars
  <2> USE <1>4 DEF vars, state
  <2>1. TypeOK' OBVIOUS
  <2>2. VerdictInv' OBVIOUS
  <2>3. RoundInv' OBVIOUS
  <2>4. DisableInv' OBVIOUS
  <2>5. WindowInv' OBVIOUS
  <2>6. CountInv' OBVIOUS
  <2>7. QED BY <2>1, <2>2, <2>3, <2>4, <2>5, <2>6
<1>5. QED BY <1>1, <1>2, <1>3, <1>4 DEF Next

\* The types of the PLIC, the mailbox, the counters and both program points,
\* and with them the inductive invariant, hold throughout the test.
THEOREM InvHolds == Spec => [](TypeOK /\ IInv)
  BY InitInv, InvStep, PTL DEF Spec

\* Host and firmware stay on the same line, whose interrupt is dispatched to
\* the handler registered for it, never to a null one, and is counted once
\* before the host reads TEST.
THEOREM LinesSound == Spec => []LinesAreSound
<1>1. TypeOK /\ IInv => LinesAreSound
  BY DEF TypeOK, IInv, VerdictInv, RoundInv, DisableInv,
      WindowInv, CountInv, Raised, Begun, Unserved, RoundLines, Bit, Lines,
      LinesAreSound, LineIsCounted, DispatchIsRegistered, LinesInStep
<1>2. QED BY InvHolds, <1>1, PTL
=============================================================================
