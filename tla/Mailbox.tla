------------------------------ MODULE Mailbox ------------------------------
(***************************************************************************)
(* The breakpoint mailbox: one word of the DUT's memory, BREAK_POINT, that *)
(* the firmware and the host sequence both read and write and through      *)
(* which every co-simulation test is stepped.  There is no lock: either    *)
(* side may overwrite what the other has not read yet.                     *)
(*                                                                         *)
(* dut_wait_bp reads the volatile word anew for each of its comparisons.   *)
(* Every comparison decides by itself, so a poll is one read: Releases or  *)
(* Aborts of the word at some moment.                                      *)
(***************************************************************************)

VARIABLE BREAK_POINT

BP_MEM_WRITE    == "BP_MEM_WRITE"
BP_TEST_init    == "BP_TEST_init"
BP_TEST_begin   == "BP_TEST_begin"
BP_TEST_success == "BP_TEST_success"
BP_TEST_fail    == "BP_TEST_fail"
BP_TEST_end     == "BP_TEST_end"
BP_END          == "BP_END"

\* What the simulated memory holds before bp_init; no breakpoint has its value.
BP_NONE == "BP_NONE"

BreakPoints == {BP_MEM_WRITE, BP_TEST_init, BP_TEST_begin, BP_TEST_success,
                BP_TEST_fail, BP_TEST_end, BP_END, BP_NONE}

\* dut_wait_bp(n) returns 0.
Releases(n) ==
  \/ BREAK_POINT = n
  \/ n \in {BP_MEM_WRITE, BP_TEST_success} /\ BREAK_POINT = BP_TEST_begin

\* dut_wait_bp(n) returns 1.
Aborts(n) == ~Releases(n) /\ BREAK_POINT \in {BP_END, BP_TEST_fail}

\* dut_set_bp(n) returns without storing n.
SetIsRefused == BREAK_POINT \in {BP_END, BP_TEST_fail}
=============================================================================
