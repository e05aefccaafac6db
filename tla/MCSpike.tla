------------------------------ MODULE MCSpike ------------------------------
(* The penalties of timing_model.h, a cache of two sets of two ways, and a    *)
(* counter whose low word carries while CA_measure runs.                      *)
EXTENDS Spike

MCPen == [base |-> 1, load_use |-> 1, br_taken |-> 1, jump |-> 1, muldiv_use |-> 0, mul |-> 5,
          div |-> 33, amo |-> 2, system |-> 2, tcm |-> 0, sram |-> 2, clint |-> 19, periph |-> 19,
          dram_hit |-> 0, dram_miss |-> 27, trap |-> 4]

Base == [driver |-> "verif_spike_run", mapped |-> 0, test |-> "", fw |-> "silent", chunk |-> 1,
         phase |-> 2, pair |-> <<"LDUSE", "LDINDEP">>, code |-> 0, order |-> "lo",
         expected |-> 12, tolerance |-> 10, starts |-> {0}]
SelfChecks == {[Base EXCEPT !.fw = "exit", !.code = c, !.order = o, !.chunk = n] :
                 c \in 0 .. 2, o \in {"lo", "hi"}, n \in 1 .. 3}
Consoles == {[Base EXCEPT !.fw = f, !.chunk = n] : f \in {"console", "silent"}, n \in 1 .. 3}
Walks == {[Base EXCEPT !.fw = "any", !.phase = p] : p \in {1, 2}}
HostTests == {[Base EXCEPT !.fw = f, !.test = "DEMO_handshake"] : f \in {"handshake", "silent"}}
(* Reading a word of the counter takes three cycles: one of these starts puts  *)
(* the carry between any two readings.                                        *)
Carries == {0} \cup {464 + 3 * i : i \in 0 .. 186}
Measures == {[Base EXCEPT !.fw = "ca", !.test = "CA_measure", !.phase = 2, !.pair = q, !.starts = Carries] :
               q \in {<<"LDUSE", "LDINDEP">>, <<"DMISS", "DHIT">>}}
            \cup {[Base EXCEPT !.fw = "ca", !.test = "CA_measure", !.phase = 1]}
Unanswered == {[Base EXCEPT !.fw = "silent", !.test = "CA_measure"]}
Latencies == {[Base EXCEPT !.driver = "verif_ca_run", !.fw = "irq", !.mapped = 1, !.phase = p, !.tolerance = t] :
                p \in {1, 2}, t \in {1, 10}}
Waits == {[Base EXCEPT !.driver = "verif_ca_run", !.mapped = m] : m \in {0, 1}}
MCScenarios == SelfChecks \cup Consoles \cup Walks \cup HostTests \cup Measures \cup Unanswered
               \cup Latencies \cup Waits

Line(i) == Insn("load", 1, {4}, "dram", i, 0)
MCInsns == {Line(0), Line(2), Line(4), Line(3), Insn("store", 0, {1}, "dram", 0, 0),
            Insn("amo", 1, {2}, "periph", 0, 0), Insn("div", 5, {1, 2}, "tcm", 0, 0)}
=============================================================================
