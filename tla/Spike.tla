-------------------------------- MODULE Spike --------------------------------
(* The Spike virtual platform (vp/spike): a driver that loads a firmware and  *)
(* lets it run instruction by instruction, each followed by its cost in the   *)
(* timing model, which is what the firmware reads as mcycle; and the host     *)
(* sequences that meet the firmware in its memory.  Driver and firmware are   *)
(* one thread: the firmware moves only while the driver ticks.                *)
(*                                                                            *)
(* A firmware is a sequence of instructions, each with what it does besides   *)
(* costing time.  Memory is mapped at 0x80000000 only: the breakpoint and the *)
(* test word at their default addresses, 0x51000 and 0x50000, are not.        *)
EXTENDS TimingModel, Sequences
LOCAL INSTANCE SequencesExt

CONSTANTS
  Scenarios,   \* driver, addresses, test, firmware, tick_chunk, phase, pair of blocks,
               \* and the cycles the boot code may have taken
  Insns,       \* the instructions of the firmware that runs any
  MaxWalk,     \* bound: how many of them
  Events,      \* repetitions in a measured block
  MagicAddr,   \* the address of htif_magic_mem
  GuardMax,    \* guard_max of verif_spike_run
  MaxPolls,    \* the bound of ca_wait_bp
  FwGuard      \* the bound of the loop in handshake.c

Drivers == {"verif_spike_run", "verif_ca_run"}
Firmwares == {"exit", "console", "silent", "any", "irq", "handshake", "ca"}
Blocks == {"OVERHEAD", "LDUSE", "LDINDEP", "DHIT", "DMISS"}
Breakpoints == {"none", "begin", "end", "done", "release"}

(* Two reads of a CSR take less time than the low word of the count, and an   *)
(* exit code fits in the low word of tohost.                                  *)
ASSUME SpikeAssumption ==
  /\ Events \in Nat \ {0} /\ MaxWalk \in Nat /\ MagicAddr \in 2 .. WordMod - 1 /\ MagicAddr % 2 = 0
  /\ GuardMax \in Nat /\ MaxPolls \in Nat /\ FwGuard \in Nat
  /\ 2 * (Pen.base + Pen.system + 1) <= WordMod /\ Insns \subseteq Instructions
  /\ \A s \in Scenarios :
       /\ s.driver \in Drivers /\ s.fw \in Firmwares /\ s.pair[1] \in Blocks /\ s.pair[2] \in Blocks
       /\ s.code \in Nat /\ 2 * s.code + 1 < WordMod /\ s.chunk \in Nat /\ s.starts \subseteq 0 .. CycleMod - 1

VARIABLES
  scen,    \* the scenario (never changes)
  tm,      \* timing_model_t
  dut,     \* the hart: pc, registers, mstatus.MIE, mip.MSIP
  mem,     \* breakpoint, tohost, cycle mirror and result table
  host,    \* the driver
  truth    \* no variable of the code: the cycle of the last read of mcycle, of the
           \* marks and of the start, the blocks whose reading was repeated, the code
           \* given to exit, and the lines of each set, the most recent first
spikeVars == <<scen, tm, dut, mem, host, truth>>
-----------------------------------------------------------------------------
(* Firmware *)

I(do, val, insn) == [do |-> do, val |-> val, insn |-> insn]
Plain(insn) == I("none", 0, insn)
Alu == Insn("alu", 2, {}, "tcm", 0, 0)
Csr == Insn("system", 3, {}, "tcm", 0, 0)
Jump == Insn("jump", 0, {}, "tcm", 0, 1)
Branch(taken) == Insn("branch", 0, {3}, "tcm", 0, taken)
Load(line) == Insn("load", 1, {4}, "dram", line, 0)
Store(line) == Insn("store", 0, {2, 4}, "dram", line, 0)
Repeat(n, block) == [i \in 1 .. n * Len(block) |-> block[1 + ((i - 1) % Len(block))]]

(* Lines of memory *)
BpLine == 0
MirrorLine == 1
TableLine == 3
TohostLine == 5
BufLine == 7
SinkLine == 9
WalkLine(i) == 16 + Sets * i
Walk(step, then) == [i \in 1 .. 2 * Events |-> IF i % 2 = 1 THEN step[(i + 1) \div 2] ELSE then]

Spin == <<I("spin", 0, Jump)>>
SetBp(bp) == <<I("bp", bp, Store(BpLine))>>

(* exit: a 64-bit store, which the compiler makes two, in either order.  Its   *)
(* high word is 0 for a code below 2^31.                                      *)
Exit(code, order) ==
  LET lo == I("tohost lo", 2 * code + 1, Store(TohostLine))
      hi == I("tohost hi", 0, Store(TohostLine))
  IN (IF order = "lo" THEN <<lo, hi>> ELSE <<hi, lo>>) \o Spin

(* htif_syscall: nobody answers on Spike. *)
Console == <<Plain(Store(BufLine)), I("tohost lo", MagicAddr, Store(TohostLine)),
             I("tohost hi", 0, Store(TohostLine))>> \o Spin

(* tests/irq_latency.S, and its handler *)
IrqMain == <<Plain(Alu), Plain(Alu), Plain(Csr), Plain(Alu), Plain(Csr), Plain(Alu), Plain(Alu)>>
           \o SetBp("begin") \o <<I("mie", 0, Csr)>> \o Spin
IrqHandler == <<Plain(Alu), Plain(Alu)>> \o SetBp("end") \o Repeat(3, <<Plain(Alu)>>) \o Exit(0, "lo")

(* framework/handshake, with breakpoints of its own *)
Handshake == SetBp("none") \o <<Plain(Store(BpLine)), Plain(Alu)>> \o SetBp("done") \o <<Plain(Alu)>>
             \o <<I("poll", 0, Load(BpLine))>> \o Exit(0, "lo")

(* verif_ca_get_cycle, and the same for minstret *)
GetCycle == <<I("read hi", 0, Csr), I("read lo", 0, Csr), I("read hi2", 0, Csr), I("again", 0, Branch(0))>>
GetInstret == Repeat(3, <<Plain(Csr)>>) \o <<Plain(Branch(0))>>

MarkInstret == Repeat(2, <<Plain(Csr), Plain(Store(MirrorLine))>>)

(* verif_ca_mark_cycle *)
verif_ca_mark_cycle == <<I("read lo", 0, Csr), I("read hi", 0, Csr), I("mark hi", 0, Store(MirrorLine)),
                         I("mark lo", 0, Store(MirrorLine))>> \o MarkInstret

(* The blocks of CA_measure that are compared in pairs *)
Block(name) ==
  CASE name = "OVERHEAD" -> <<>>
    [] name = "LDUSE"    -> Repeat(Events, <<Plain(Load(BufLine)), Plain(Insn("alu", 2, {1, 2}, "tcm", 0, 0))>>)
                            \o <<Plain(Store(SinkLine))>>
    [] name = "LDINDEP"  -> Repeat(Events, <<Plain(Load(BufLine)), Plain(Alu)>>) \o <<Plain(Store(SinkLine))>>
    [] name = "DHIT"     -> Repeat(Events, <<Plain(Load(BufLine)), Plain(Alu)>>) \o <<Plain(Store(SinkLine))>>
    [] name = "DMISS"    -> Walk([i \in 1 .. Events |-> Plain(Load(WalkLine(i)))], Plain(Alu))
                            \o <<Plain(Store(SinkLine))>>

(* ca_run: once to warm up, once measured. *)
ca_run(name) ==
  LET call == <<Plain(Jump)>> \o Block(name) \o <<Plain(Jump)>>
  IN call \o GetCycle \o <<I("c0", 0, Alu)>> \o GetInstret \o call \o GetInstret \o GetCycle
     \o <<I("record", name, Store(TableLine))>>

\* Slip: the breakpoint is set before the mirror.
TellsTooEarly == SetBp("end") \o verif_ca_mark_cycle

(* The end of CA_measure's main *)
CaEnd == verif_ca_mark_cycle \o <<Plain(Alu)>> \o SetBp("end")

(* ca_dmiss_init: the lines of the walk are written once. *)
ca_dmiss_init == Walk([i \in 1 .. Events |-> Plain(Store(WalkLine(i)))], Plain(Branch(1)))

CA_measure(pair) ==
  <<I("table", 0, Store(TableLine))>> \o verif_ca_mark_cycle
  \o <<I("read lo", 0, Csr), I("start", 0, Store(TableLine)), Plain(Csr), Plain(Store(TableLine))>>
  \o ca_dmiss_init
  \o ca_run("OVERHEAD") \o ca_run(pair[1]) \o ca_run(pair[2]) \o CaEnd \o Exit(0, "lo")

Program(s) ==
  CASE s.fw = "exit"      -> <<Plain(Alu)>> \o Exit(s.code, s.order)
    [] s.fw = "console"   -> Console
    [] s.fw = "silent"    -> Spin
    [] s.fw = "any"       -> <<I("any", 0, Alu)>> \o Exit(0, "lo")
    [] s.fw = "irq"       -> IrqMain \o IrqHandler
    [] s.fw = "handshake" -> Handshake
    [] s.fw = "ca"        -> CA_measure(s.pair)
Firmware == [s \in Scenarios |-> Program(s)]
-----------------------------------------------------------------------------
(* tick: one instruction, its cost, and the mirror of the cycles in mcycle *)

mcycle == [lo |-> tm.total % WordMod, hi |-> tm.total \div WordMod]
Here == Firmware[scen][dut.pc]
Interrupted == dut.mie = 1 /\ dut.mip = 1
Runs(do) == host.left > 0 /\ ~Interrupted /\ Here.do = do

(* The instruction commits: account. *)
Touched(insn) ==
  IF tm.phase = 1 \/ insn.class \notin Memory \/ insn.region # "dram" THEN truth.recent
  ELSE [truth.recent EXCEPT ![insn.line % Sets] =
          LET t == insn.line \div Sets
              seq == <<t>> \o SelectSeq(@, LAMBDA x : x # t)
          IN SubSeq(seq, 1, IF Len(seq) > Ways THEN Ways ELSE Len(seq))]
Commits(insn) ==
  /\ tm' = account(tm, insn) /\ host' = [host EXCEPT !.left = @ - 1] /\ UNCHANGED scen
Goes(insn) == Commits(insn) /\ truth' = [truth EXCEPT !.recent = Touched(insn)]
Onward == [dut EXCEPT !.pc = @ + 1]

Computes == Runs("none") /\ Goes(Here.insn) /\ dut' = Onward /\ UNCHANGED mem
Spins == Runs("spin") /\ Goes(Here.insn) /\ UNCHANGED <<dut, mem>>
SetsBp == Runs("bp") /\ Goes(Here.insn) /\ dut' = Onward /\ mem' = [mem EXCEPT !.bp = Here.val]
EnablesInterrupts ==
  Runs("mie") /\ Goes(Here.insn) /\ dut' = [Onward EXCEPT !.mie = 1] /\ UNCHANGED mem

(* One turn of the loop of handshake.c: on Spike the host never writes BP_RELEASE. *)
PollsBp ==
  /\ Runs("poll") /\ Goes(Here.insn) /\ UNCHANGED mem
  /\ dut' = IF mem.bp = "release" \/ dut.guard = FwGuard THEN Onward ELSE [dut EXCEPT !.guard = @ + 1]

WritesTohost ==
  /\ Runs("tohost lo") \/ Runs("tohost hi")
  /\ Commits(Here.insn) /\ dut' = Onward
  /\ mem' = IF Here.do = "tohost lo" THEN [mem EXCEPT !.tohost.lo = Here.val]
            ELSE [mem EXCEPT !.tohost.hi = Here.val]
  /\ truth' = [truth EXCEPT !.recent = Touched(Here.insn),
                            !.exit = IF Here.do = "tohost lo" /\ Here.val # MagicAddr
                                     THEN (Here.val - 1) \div 2 ELSE @]

(* csrr mcycle, csrr mcycleh *)
ReadsCycle ==
  /\ Runs("read hi") \/ Runs("read lo") \/ Runs("read hi2")
  /\ Commits(Here.insn) /\ UNCHANGED mem
  /\ dut' = CASE Here.do = "read hi"  -> [Onward EXCEPT !.hi = mcycle.hi]
              [] Here.do = "read hi2" -> [Onward EXCEPT !.hi2 = mcycle.hi]
              [] Here.do = "read lo"  -> [Onward EXCEPT !.lo = mcycle.lo]
  /\ truth' = IF Here.do = "read lo" THEN [truth EXCEPT !.at = tm.total] ELSE truth

\* Slip: the high words are not compared.
NeverAgain ==
  /\ Runs("again") /\ Commits(Here.insn) /\ UNCHANGED <<mem, truth>>
  /\ dut' = [Onward EXCEPT !.value = dut.hi * WordMod + dut.lo]

(* while (hi != hi2) *)
ComparesHigh ==
  /\ Runs("again") /\ UNCHANGED mem
  /\ IF dut.hi # dut.hi2
     THEN /\ Commits([Here.insn EXCEPT !.taken = 1]) /\ dut' = [dut EXCEPT !.pc = @ - 3]
          /\ truth' = [truth EXCEPT !.again = 1]
     ELSE /\ Commits(Here.insn) /\ dut' = [Onward EXCEPT !.value = dut.hi * WordMod + dut.lo]
          /\ UNCHANGED truth

(* CA_TBL_CYC0: the low word only *)
RecordsStart ==
  /\ Runs("start") /\ Commits(Here.insn) /\ dut' = Onward
  /\ mem' = [mem EXCEPT !.cyc0 = dut.lo]
  /\ truth' = [truth EXCEPT !.recent = Touched(Here.insn), !.start = truth.at]

KeepsStart == Runs("c0") /\ Goes(Here.insn) /\ dut' = [Onward EXCEPT !.c0 = dut.value] /\ UNCHANGED mem

(* ca_table_init and ca_record *)
InitsTable == Runs("table") /\ Goes(Here.insn) /\ dut' = Onward
              /\ mem' = [mem EXCEPT !.magic = 1, !.table = <<>>]
Records ==
  /\ Runs("record") /\ Goes(Here.insn) /\ dut' = Onward
  /\ mem' = [mem EXCEPT !.table = Append(@, (dut.value - dut.c0) % WordMod)]

(* The mirror: the high word, then the low one *)
Marks ==
  /\ Runs("mark hi") \/ Runs("mark lo")
  /\ Commits(Here.insn) /\ dut' = Onward
  /\ mem' = IF Here.do = "mark hi" THEN [mem EXCEPT !.cycle.hi = dut.hi]
            ELSE [mem EXCEPT !.cycle.lo = dut.lo]
  /\ truth' = [truth EXCEPT !.recent = Touched(Here.insn),
                            !.mark = IF Here.do = "mark hi" THEN -1 ELSE truth.at]

(* Any instruction, or one that traps to a handler that comes back. *)
RunsAny ==
  /\ Runs("any") /\ UNCHANGED mem
  /\ IF dut.guard = MaxWalk THEN Goes(Here.insn) /\ dut' = Onward
     ELSE \E insn \in Insns : Goes(insn) /\ dut' = [dut EXCEPT !.guard = @ + 1]
TrapsAny ==
  /\ Runs("any") /\ dut.guard < MaxWalk /\ dut' = [dut EXCEPT !.guard = @ + 1]
  /\ tm' = account_trap(tm) /\ host' = [host EXCEPT !.left = @ - 1] /\ UNCHANGED <<scen, mem, truth>>

(* No instruction committed: account_trap. *)
TakesInterrupt ==
  /\ host.left > 0 /\ Interrupted
  /\ tm' = account_trap(tm) /\ host' = [host EXCEPT !.left = @ - 1]
  /\ dut' = [dut EXCEPT !.mie = 0, !.pc = Len(IrqMain) + 1]
  /\ UNCHANGED <<scen, mem, truth>>

tick ==
  \/ Computes \/ Spins \/ SetsBp \/ EnablesInterrupts \/ PollsBp \/ WritesTohost \/ ReadsCycle
  \/ ComparesHigh \/ RecordsStart \/ KeepsStart \/ InitsTable \/ Records \/ Marks \/ RunsAny \/ TrapsAny
  \/ TakesInterrupt
-----------------------------------------------------------------------------
(* The drivers.  tick(n) is n in host.left; the host goes on when it is 0. *)

At(place) == host.pc = place /\ host.left = 0
Ticks(n, place) == host' = [host EXCEPT !.left = n, !.pc = place]
HostOnly == UNCHANGED <<scen, tm, mem, truth>>
Tohost == mem.tohost.hi * WordMod + mem.tohost.lo

(* main of verif_spike_run and of verif_ca_run, up to their first look *)
SpikeInit ==
  /\ scen \in Scenarios
  /\ \E n \in scen.starts : tm = Reset(scen.phase, n)
  /\ dut = [pc |-> 1, mie |-> 0, mip |-> 0, hi |-> 0, hi2 |-> 0, lo |-> 0, value |-> 0, c0 |-> 0,
            guard |-> 0]
  /\ mem = [bp |-> "none", tohost |-> [lo |-> 0, hi |-> 0], cycle |-> [lo |-> 0, hi |-> 0],
            magic |-> 0, cyc0 |-> 0, table |-> <<>>]
  /\ host = [pc |-> IF scen.driver = "verif_spike_run" THEN "loop" ELSE "wait begin", left |-> 0,
             ran |-> 0, guard |-> 0, polls |-> 0, start |-> 0, measured |-> -1, run |-> -1,
             rows |-> <<>>, said |-> "none", exit |-> -1]
  /\ truth = [at |-> 0, start |-> 0, mark |-> -1, again |-> 0, exit |-> -1,
              recent |-> [s \in 0 .. Sets - 1 |-> <<>>]]

\* Slip: what is not an exit has no code.
CodeOfExit == IF Tohost % 2 = 1 THEN Tohost \div 2 ELSE 0

exit_code == Tohost \div 2

(* while (!v.done()), and the verdict: any value in tohost is an end. *)
MainLoop ==
  /\ At("loop") /\ HostOnly /\ UNCHANGED dut
  /\ IF Tohost # 0 THEN host' = [host EXCEPT !.pc = "exited", !.exit = IF exit_code = 0 THEN 0 ELSE 1]
     ELSE Ticks(scen.chunk, "idle")

(* idle: run_vseq at the first turn.  Where the breakpoint is not mapped      *)
(* host_wait_bp fails at once, and the sequence is over.                      *)
Idle ==
  /\ At("idle") /\ HostOnly /\ UNCHANGED dut
  /\ host' = IF host.ran = 1 \/ scen.test = "" THEN [host EXCEPT !.ran = 1, !.pc = "guard"]
             ELSE IF scen.test = "CA_measure" THEN [host EXCEPT !.ran = 1, !.pc = "ca_wait_bp"]
             ELSE [host EXCEPT !.ran = 1, !.pc = "guard", !.said = "FAIL"]

ca_wait_bp ==
  /\ At("ca_wait_bp") /\ HostOnly /\ UNCHANGED dut
  /\ IF host.polls = MaxPolls THEN host' = [host EXCEPT !.pc = "guard", !.said = "FAIL"]
     ELSE IF mem.bp = "end" THEN host' = [host EXCEPT !.pc = "read"]
     ELSE host' = [host EXCEPT !.left = 1, !.polls = @ + 1]

(* The rest of the sequence of CA_measure: the table less its first entry,    *)
(* and the cycles from the start in it to the mirror.                         *)
Net(rows) == [i \in 1 .. Len(rows) |-> IF rows[i] > rows[1] THEN rows[i] - rows[1] ELSE 0]
ReadsTable ==
  /\ At("read") /\ HostOnly /\ UNCHANGED dut
  /\ host' = IF mem.magic = 0 \/ mem.table = <<>> THEN [host EXCEPT !.pc = "guard", !.said = "FAIL"]
             ELSE [host EXCEPT !.pc = "guard", !.said = "PASS", !.rows = Net(mem.table),
                               !.run = (mem.cycle.hi * WordMod + mem.cycle.lo - mem.cyc0) % CycleMod]

\* Slip: the turns are not counted.
NoGuard == At("guard") /\ HostOnly /\ UNCHANGED dut /\ host' = [host EXCEPT !.pc = "loop"]

(* if (++guard > guard_max) *)
Guard ==
  /\ At("guard") /\ HostOnly /\ UNCHANGED dut
  /\ host' = IF host.guard = GuardMax THEN [host EXCEPT !.pc = "exited", !.exit = 3]
             ELSE [host EXCEPT !.pc = "loop", !.guard = @ + 1]

(* host_wait_bp of verif_ca_run: without a bound where the word can be read. *)
host_wait_bp(place, bp) ==
  /\ At(place) /\ HostOnly
  /\ scen.mapped = 1 => mem.bp # bp
  /\ host' = IF scen.mapped = 1 THEN [host EXCEPT !.left = 1]
             ELSE [host EXCEPT !.pc = "exited", !.exit = 1]
  /\ UNCHANGED dut
WaitsBegin == host_wait_bp("wait begin", "begin")
WaitsEnd == host_wait_bp("wait end", "end")

(* get_cycle and trigger_irq *)
TriggersIrq ==
  /\ At("wait begin") /\ scen.mapped = 1 /\ mem.bp = "begin" /\ HostOnly
  /\ host' = [host EXCEPT !.pc = "wait end", !.start = tm.total]
  /\ dut' = [dut EXCEPT !.mip = 1]

ca_pass(measured) ==
  LET diff == IF measured > scen.expected THEN measured - scen.expected ELSE scen.expected - measured
  IN diff <= scen.tolerance
Judges ==
  /\ At("wait end") /\ mem.bp = "end" /\ HostOnly /\ UNCHANGED dut
  /\ LET measured == (tm.total - host.start) % CycleMod
     IN host' = [host EXCEPT !.pc = "exited", !.measured = measured,
                             !.exit = IF ca_pass(measured) THEN 0 ELSE 1]

Exited == At("exited") /\ UNCHANGED spikeVars

SpikeNext ==
  \/ tick
  \/ MainLoop \/ Idle \/ ca_wait_bp \/ ReadsTable \/ Guard
  \/ WaitsBegin \/ TriggersIrq \/ WaitsEnd \/ Judges \/ Exited
SpikeSpec == SpikeInit /\ [][SpikeNext]_spikeVars

(* Driver and firmware are one thread, which runs. *)
SpikeFairSpec == SpikeSpec /\ WF_spikeVars(SpikeNext)
-----------------------------------------------------------------------------
(* The types, and the bounds on the turns of verif_spike_run and ca_wait_bp. *)
SpikeTypeOK ==
  /\ scen \in Scenarios /\ tm.total \in 0 .. CycleMod - 1 /\ dut.pc \in 1 .. Len(Firmware[scen])
  /\ dut.mie \in {0, 1} /\ dut.mip \in {0, 1} /\ mem.bp \in Breakpoints
  /\ host.guard \in 0 .. GuardMax /\ host.polls \in 0 .. MaxPolls /\ host.exit \in {-1, 0, 1, 3}

(* verif_spike_run says PASS only if the firmware called exit(0): a request   *)
(* to the console, or an exit of which only one half is stored when tohost is *)
(* looked at, is no PASS.                                                     *)
PassIsExitZero == scen.driver = "verif_spike_run" /\ host.exit = 0 => truth.exit = 0

(* verif_spike_run ends whatever the firmware does, and verif_ca_run unless   *)
(* it waits for a breakpoint that never comes.                                *)
DriverEnds == (scen.fw # "silent" \/ scen.driver = "verif_spike_run" \/ scen.mapped = 0) ~> At("exited")

(* What verif_ca_get_cycle returns was the number of cycles when it read the  *)
(* low word, although the two words are read one after the other.             *)
CycleReadIsWhole == [][dut'.value # dut.value => dut'.value = truth.at]_spikeVars

(* The mirror that verif_ca_mark_cycle leaves is the number of cycles when it *)
(* read the low word, or, if a carry came between its two reads, one whole    *)
(* high word more: never less.                                                *)
MirrorIsNeverBehind ==
  truth.mark >= 0 => mem.cycle.hi * WordMod + mem.cycle.lo \in {truth.mark, (truth.mark + WordMod) % CycleMod}

(* Table and mirror are there when the host is told to read them: the run it  *)
(* reports is the one between the marks of the firmware, if that began while  *)
(* the count fitted in a word, or a whole high word more (see above).         *)
HostSeesTheRun ==
  host.run >= 0 /\ truth.start < WordMod =>
    /\ (host.run - (truth.mark - truth.start)) % CycleMod \in {0, WordMod}
    /\ Len(host.rows) = 3

(* What the driver reads of the firmware's memory is complete: the mirror, the *)
(* table, and the bounds on its own turns.                                     *)
ReadingsAreSound == SpikeTypeOK /\ MirrorIsNeverBehind /\ HostSeesTheRun

(* The two blocks of a pair differ by their stalls and nothing else: by one   *)
(* per event in phase 2, not at all in phase 1; unless a reading of the       *)
(* counter had to be repeated.                                                *)
PairsIsolateStall ==
  host.rows # <<>> /\ truth.again = 0 =>
    host.rows[2] - host.rows[3] =
      (IF scen.phase = 1 THEN 0
       ELSE Events * (IF scen.pair[1] = "LDUSE" THEN Pen.load_use ELSE Pen.dram_miss - Pen.dram_hit))

(* The latency that verif_ca_run measures is one trap, the instruction that   *)
(* enables the interrupt, and the three of the handler up to the breakpoint.  *)
LatencyIsExact ==
  host.measured >= 0 /\ scen.phase = 2 => host.measured = Pen.trap + 4 * Pen.base + Pen.system + Pen.dram_hit

(* The data cache holds the lines of each set that were used last. *)
LruIsLru ==
  \A s \in 0 .. Sets - 1 :
    {tm.cache.way[s][w].tag : w \in {w \in 1 .. Ways : tm.cache.way[s][w].valid = 1}} =
      ToSet(truth.recent[s])

(* What the timing model charges is what CA_measure and verif_ca_run take it   *)
(* for: stalls in pairs, the trap in the latency, misses of an LRU cache.      *)
MeasuresAreExact == PairsIsolateStall /\ LatencyIsExact /\ LruIsLru
=============================================================================
