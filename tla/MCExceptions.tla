---------------------------- MODULE MCExceptions ----------------------------
(* Two PMP entries over 32 bytes, and trigger functions that mix 2- and 4-byte  *)
(* instructions, encoded as the assembler does: single exceptions, two in a    *)
(* row, the same one twice, and accesses that PMP may or may not refuse.       *)
EXTENDS Exceptions

I(kind, len, x) == [k |-> kind, len |-> len, x |-> x]

MCCode ==
  [a \in {0, 2, 3, 4, 5, 6, 7, 9, 10, 12, 13, 14, 15, 17} |->
     CASE a = 0  -> I("illegal", 2, 0)
       [] a = 3  -> I("ebreak", 1, 0)
       [] a = 4  -> I("ebreak", 1, 0)
       [] a = 6  -> I("ebreak", 1, 0)
       [] a = 7  -> I("ecall", 2, 0)
       [] a = 10 -> I("store", 2, 8)
       [] a = 12 -> I("load", 1, 8)
       [] a = 14 -> I("plain", 1, 0)
       [] a = 15 -> I("load", 2, 9)
       [] OTHER  -> I("ret", 1, 0)]

\* .word 0xFFFFFFFF, c.ebreak, ecall, sw a1,8(x0), c.lw, c.nop, lw a0,9(x0), c.ret.
MCMemory ==
  [a \in 0 .. 17 |->
     CASE a \in {0, 1}    -> 65535
       [] a \in {3, 4, 6} -> 36866
       [] a = 7           -> 115
       [] a = 8           -> 0
       [] a = 10          -> 9251
       [] a = 11          -> 176
       [] a = 12          -> 16648
       [] a = 14          -> 1
       [] a = 15          -> 9475
       [] a = 16          -> 144
       [] OTHER           -> 32898]

MCTriggers == {0, 3, 4, 6, 10, 12, 14}

\* Aligned regions of 4, 8 and 16 bytes, and areas the driver refuses.
MCAreas == {<<8, 4>>, <<8, 8>>, <<0, 16>>, <<4, 8>>, <<0, 12>>, <<0, 8>>}

MCPerms == {{}, {"R"}, {"R", "other"}}
=============================================================================
