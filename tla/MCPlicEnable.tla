---------------------------- MODULE MCPlicEnable ----------------------------
(* Instances of PlicEnable.                                                 *)
EXTENDS PlicEnable

\* The test as it is: 45 lines (PLIC_enable.h), of which a 32-bit mask
\* (S5740_mcu_tests.h) carries 32.
MCAsBuilt == {[lines |-> 45, bits |-> 32]}

\* Also with the 8 lines of verif/README.md, which alone get as far as the
\* second half of the test.
MCBuilds == MCAsBuilt \cup {[lines |-> 8, bits |-> 32]}
=============================================================================
