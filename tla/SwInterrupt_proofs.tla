------------------------- MODULE SwInterrupt_proofs -------------------------
(***************************************************************************)
(* Proofs about SwInterrupt for every number of rounds, for both firmware  *)
(* builds and whichever polls of the host run out.                         *)
(***************************************************************************)
EXTENDS SwInterrupt, TLAPS

\* The boot state of firmware and host satisfies the inductive invariant.
LEMMA InitInv == Init => TypeOK /\ IInv
  BY SwInterruptConstants
  DEF SwInterruptConstants, Init, TypeOK, IInv, VerdictInv, HartInv, PulseInv,
      RoundInv, Pulses, HostOpened, Awaiting, BreakPoints, BP_MEM_WRITE,
      BP_TEST_init, BP_TEST_begin, BP_TEST_success, BP_TEST_fail, BP_TEST_end,
      BP_END, BP_NONE

\* Every step of the hart, of the handler and of the host keeps it.
LEMMA InvStep == TypeOK /\ IInv /\ [Next]_vars => (TypeOK /\ IInv)'
<1> SUFFICES ASSUME TypeOK, IInv, [Next]_vars PROVE TypeOK' /\ IInv'
  OBVIOUS
<1> USE SwInterruptConstants
    DEF SwInterruptConstants, TypeOK, IInv, VerdictInv, HartInv, PulseInv,
        RoundInv, Pulses, HostOpened, Awaiting, BreakPoints, BP_MEM_WRITE,
        BP_TEST_init, BP_TEST_begin, BP_TEST_success, BP_TEST_fail,
        BP_TEST_end, BP_END, BP_NONE, Releases, Aborts, MainAt, IrqPending,
        dutVars, hartVars, hostVars
<1>1. CASE Dut
  <2>1. CASE BpInit BY <2>1 DEF BpInit
  <2>2. CASE BpInitWait BY <2>2 DEF BpInitWait, DutWaitBp, Exit
  <2>3. CASE InitSwintHandler BY <2>3 DEF InitSwintHandler
  <2>4. CASE DutRound BY <2>4 DEF DutRound
  <2>5. CASE DutReturn BY <2>5 DEF DutReturn, Exit
  <2>6. CASE DutWaitBegin BY <2>6 DEF DutWaitBegin, DutWaitBp, Exit
  <2>7. CASE DutEnable BY <2>7 DEF DutEnable
  <2>8. CASE DutSetCheck BY <2>8 DEF DutSetCheck, SetIsRefused
  <2>9. CASE DutSetStore BY <2>9 DEF DutSetStore
  <2>10. CASE DutWaitSuccess BY <2>10 DEF DutWaitSuccess, DutWaitBp, Exit
  <2>11. CASE TakeSwInterrupt BY <2>11 DEF TakeSwInterrupt
  <2>12. CASE SwintCount BY <2>12 DEF SwintCount
  <2>13. CASE SwintClear BY <2>13 DEF SwintClear
  <2>14. QED BY <1>1, <2>1, <2>2, <2>3, <2>4, <2>5, <2>6, <2>7, <2>8, <2>9, <2>10, <2>11, <2>12, <2>13 DEF Dut
<1>2. CASE Host
  <2>1. CASE WaitDutReady BY <2>1 DEF WaitDutReady
  <2>2. CASE HostPulse BY <2>2 DEF HostPulse
  <2>3. CASE HostReturn BY <2>3 DEF HostReturn
  <2>4. CASE HostSetBegin BY <2>4 DEF HostSetBegin
  <2>5. CASE HostWaitEnd BY <2>5 DEF HostWaitEnd
  <2>6. CASE HostCheck BY <2>6 DEF HostCheck, HostFails
  <2>7. CASE HostSetSuccess BY <2>7 DEF HostSetSuccess
  <2>8. QED BY <1>2, <2>1, <2>2, <2>3, <2>4, <2>5, <2>6, <2>7 DEF Host
<1>3. CASE HostTimeout BY <1>3 DEF HostTimeout, HostFails
<1>4. CASE UNCHANGED vars BY <1>4 DEF vars
<1>5. QED BY <1>1, <1>2, <1>3, <1>4 DEF Next

\* The types of the mailbox, the CLINT bit, the counters and both program
\* points, and with them the inductive invariant, hold throughout the test.
THEOREM InvHolds == Spec => [](TypeOK /\ IInv)
  BY InitInv, InvStep, PTL DEF Spec

\* Each of the host's pulses is counted by swint_test exactly once before the
\* host reads TEST, and none is overwritten while it is pending.
THEOREM PulsesCounted == Spec => []PulsesAreCounted
<1>1. TypeOK /\ IInv => PulsesAreCounted
  BY DEF TypeOK, IInv, VerdictInv, HartInv, PulseInv, Pulses, HostOpened,
         PulsesAreCounted, OnePulseOneCount, NoPulseIsLost
<1>2. QED BY InvHolds, <1>1, PTL

\* The co-simulation test implements the lockstep rounds: each step of
\* firmware, handler or host opens, answers or checks one round, or none.
THEOREM LockstepRefined == Spec => RunsInLockstep
<1>1. Init => L!Init
  BY DEF Init, L!Init, openedBar, answeredBar, checkedBar, HostOpened
<1>2. TypeOK /\ IInv /\ [Next]_vars => [L!Next]_(L!vars)
  <2> SUFFICES ASSUME TypeOK, IInv, [Next]_vars
               PROVE  L!Next \/ UNCHANGED L!vars
    OBVIOUS
  <2> USE SwInterruptConstants
      DEF SwInterruptConstants, TypeOK, IInv, VerdictInv, RoundInv, Awaiting,
          HostOpened, openedBar, answeredBar, checkedBar, L!vars, L!Next,
          L!Open, L!Answer, L!Check, BP_TEST_end, BP_TEST_begin,
          BP_TEST_success, MainAt, dutVars, hartVars, hostVars
  <2>1. CASE Dut
    <3>1. CASE DutSetStore
      <4>1. answeredBar' = answeredBar + 1 /\ answeredBar < openedBar
        BY <3>1 DEF DutSetStore
      <4>2. UNCHANGED <<openedBar, checkedBar>> BY <3>1 DEF DutSetStore
      <4>3. QED BY <4>1, <4>2
    <3>2. CASE DutSetCheck
      BY <3>2 DEF DutSetCheck, SetIsRefused, BP_END, BP_TEST_fail
    <3>3. CASE DutWaitSuccess
      BY <3>3 DEF DutWaitSuccess, DutWaitBp, Exit, Releases, Aborts, BP_END,
                  BP_TEST_fail, BP_MEM_WRITE
    <3>4. CASE BpInit \/ BpInitWait \/ InitSwintHandler \/ DutRound \/ DutReturn
               \/ DutWaitBegin \/ DutEnable
      BY <3>4 DEF BpInit, BpInitWait, InitSwintHandler, DutRound, DutReturn,
                  DutWaitBegin, DutEnable, DutWaitBp, Exit
    <3>5. CASE TakeSwInterrupt \/ SwintCount \/ SwintClear
      BY <3>5 DEF TakeSwInterrupt, SwintCount, SwintClear
    <3>6. QED BY <2>1, <3>1, <3>2, <3>3, <3>4, <3>5 DEF Dut
  <2>2. CASE Host
    <3>1. CASE HostSetBegin BY <3>1 DEF HostSetBegin
    <3>2. CASE HostCheck BY <3>2 DEF HostCheck, HostFails
    <3>3. CASE HostSetSuccess BY <3>3 DEF HostSetSuccess
    <3>4. CASE WaitDutReady \/ HostPulse \/ HostReturn \/ HostWaitEnd
      BY <3>4 DEF WaitDutReady, HostPulse, HostReturn, HostWaitEnd
    <3>5. QED BY <2>2, <3>1, <3>2, <3>3, <3>4 DEF Host
  <2>3. CASE HostTimeout BY <2>3 DEF HostTimeout, HostFails
  <2>4. CASE UNCHANGED vars BY <2>4 DEF vars
  <2>5. QED BY <2>1, <2>2, <2>3, <2>4 DEF Next
<1>3. QED BY <1>1, <1>2, InvHolds, PTL DEF Spec, RunsInLockstep, L!Spec
=============================================================================
