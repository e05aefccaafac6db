----------------------------- MODULE TimingModel -----------------------------
(* The timing model of the Spike virtual platform (vp/spike/timing_model.h):  *)
(* what an instruction costs, given the one before it, the address it         *)
(* accesses and the lines in a set-associative data cache.  An instruction is *)
(* what the decoder makes of its bits: a class, a destination, the sources,   *)
(* the place it accesses and whether it is a branch that was taken.           *)
EXTENDS Integers
LOCAL INSTANCE FiniteSetsExt

CONSTANTS
  Pen,      \* timing_params_t
  Sets,     \* dcache_model_t::SETS
  Ways,     \* dcache_model_t::WAYS
  WordMod,  \* 2^32: the values of the low word of the cycle count
  HighMod   \* 2^32: the values of its high word

Prices == {"base", "load_use", "br_taken", "jump", "muldiv_use", "mul", "div", "amo", "system", "trap",
           "tcm", "sram", "clint", "periph", "dram_hit", "dram_miss"}
ASSUME TimingAssumption ==
  /\ Sets \in Nat \ {0} /\ Ways \in Nat \ {0} /\ WordMod \in Nat \ {0, 1} /\ HighMod \in Nat \ {0, 1}
  /\ Pen \in [Prices -> Nat]

CycleMod == WordMod * HighMod
Classes == {"load", "store", "amo", "branch", "jump", "system", "mul", "div", "alu"}
Memory == {"load", "store", "amo"}
Regions == {"dram", "clint", "sram", "periph", "tcm"}

Instructions == [class : Classes, rd : Nat, src : SUBSET Nat, region : Regions, line : Nat, taken : {0, 1}]
Insn(class, rd, src, region, line, taken) ==
  [class |-> class, rd |-> rd, src |-> src, region |-> region, line |-> line, taken |-> taken]
-----------------------------------------------------------------------------
(* dcache_model_t *)

Empty == [clk |-> 0, way |-> [s \in 0 .. Sets - 1 |->
                                [w \in 1 .. Ways |-> [valid |-> 0, tag |-> 0, age |-> 0]]]]

(* The first way that is not valid, or else the first of the oldest. *)
Victim(ways) ==
  LET unused == {w \in 1 .. Ways : ways[w].valid = 0}
      oldest == Min({ways[w].age : w \in 1 .. Ways})
  IN Min(IF unused # {} THEN unused ELSE {w \in 1 .. Ways : ways[w].age = oldest})

(* access: whether the line was there, and the cache afterwards. *)
access(c, line) ==
  LET s == line % Sets
      t == line \div Sets
      clk == (c.clk + 1) % WordMod
      at == {w \in 1 .. Ways : c.way[s][w].valid = 1 /\ c.way[s][w].tag = t}
      w1 == IF at # {} THEN Min(at) ELSE Victim(c.way[s])
  IN [hit |-> IF at # {} THEN 1 ELSE 0,
      cache |-> [clk |-> clk, way |-> [c.way EXCEPT ![s][w1] = [valid |-> 1, tag |-> t, age |-> clk]]]]
-----------------------------------------------------------------------------
(* timing_model_t.  Its statistics are only printed and are left out. *)

None == [valid |-> 0, load |-> 0, muldiv |-> 0, rd |-> 0]
Reset(phase, total) == [phase |-> phase, total |-> total, prev |-> None, cache |-> Empty]

uses_reg(i, r) == r # 0 /\ r \in i.src

mem_cost(m, i) ==
  CASE i.region = "dram" -> LET r == access(m.cache, i.line)
                            IN [cyc |-> IF r.hit = 1 THEN Pen.dram_hit ELSE Pen.dram_miss,
                                cache |-> r.cache]
    [] i.region # "dram" -> [cyc |-> Pen[i.region], cache |-> m.cache]

cost_phase1(i) ==
  Pen.base + CASE i.class \in {"load", "store", "branch", "jump", "system"} -> 1
               [] i.class = "amo" -> 2
               [] i.class \in {"mul", "div"} -> 3
               [] i.class = "alu" -> 0

\* Slip: the stall is charged whether or not the load's result is used.
StallAlways(m, i) == IF m.prev.valid = 1 /\ m.prev.load = 1 THEN Pen.load_use ELSE 0

Stall(m, i) ==
  (IF m.prev.valid = 1 /\ m.prev.load = 1 /\ uses_reg(i, m.prev.rd) THEN Pen.load_use ELSE 0) +
  (IF m.prev.valid = 1 /\ m.prev.muldiv = 1 /\ uses_reg(i, m.prev.rd) THEN Pen.muldiv_use ELSE 0)

(* The cost of an instruction, and the cache afterwards. *)
cost(m, i) ==
  IF m.phase = 1 THEN [cyc |-> cost_phase1(i), cache |-> m.cache]
  ELSE LET mem == mem_cost(m, i)
           own == CASE i.class \in Memory -> mem.cyc + (IF i.class = "amo" THEN Pen.amo ELSE 0)
                    [] i.class = "branch" -> IF i.taken = 1 THEN Pen.br_taken ELSE 0
                    [] i.class \in {"jump", "div", "mul", "system"} -> Pen[i.class]
                    [] i.class = "alu" -> 0
       IN [cyc |-> Pen.base + Stall(m, i) + own,
           cache |-> IF i.class \in Memory THEN mem.cache ELSE m.cache]

account(m, i) ==
  LET c == cost(m, i)
  IN [m EXCEPT !.total = (@ + c.cyc) % CycleMod, !.cache = c.cache,
               !.prev = [valid |-> 1, rd |-> i.rd, load |-> IF i.class = "load" THEN 1 ELSE 0,
                         muldiv |-> IF i.class \in {"mul", "div"} THEN 1 ELSE 0]]

account_trap(m) == [m EXCEPT !.total = (@ + Pen.trap) % CycleMod, !.prev.valid = 0]
=============================================================================
