------------------------------- MODULE MCPort -------------------------------
(* The test as it is configured and in the builds without preemption or time  *)
(* slicing, and tasks in nested critical sections.                            *)
EXTENDS Port

Build(preempt, slicing, main) == [preempt |-> preempt, slicing |-> slicing, main |-> main]
MCBuilds == {Build(1, 1, "test"), Build(1, 0, "test"), Build(0, 0, "test"), Build(1, 1, "any")}
=============================================================================
