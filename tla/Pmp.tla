-------------------------------- MODULE Pmp --------------------------------
(***************************************************************************)
(* The physical-memory-protection driver, Platform/Common/Src/pmp.c, and   *)
(* the PMP unit of the hart as the driver uses it.                         *)
(*                                                                         *)
(* Each CSR write of a call is a step of its own, so that the protection   *)
(* in force between two of them is visible.  The read-modify-write of a    *)
(* pmpcfg word changes one byte of it and no one else writes the word: it  *)
(* is one step.                                                            *)
(***************************************************************************)
EXTENDS Integers

CONSTANTS
  XLEN,             \* width of an address
  PMP_NUM_REGIONS,
  Indices,          \* what callers pass as idx ...
  Areas,            \* ... as <<base, size>> ...
  Perms,            \* ... and as perm: sets of "R", "W", "X" or "other"
  MaxCalls          \* bound: calls of the driver

Entries == 0 .. PMP_NUM_REGIONS - 1
Xlen == 0 .. 2^XLEN - 1

ASSUME PmpConstants ==
  /\ XLEN \in Nat /\ PMP_NUM_REGIONS \in Nat /\ MaxCalls \in Nat
  /\ Indices \subseteq Nat
  /\ Areas \subseteq Xlen \X Xlen
  /\ Perms \subseteq SUBSET {"R", "W", "X", "other"}

VARIABLES
  pmpcfg,    \* the configuration byte of each entry
  pmpaddr,
  ppc,       \* where the driver is: "idle" between calls
  call,      \* the arguments of the call being executed
  asked,     \* history: what each entry was last set to, by a call that could
  calls

pmpVars == <<pmpcfg, pmpaddr, ppc, call, asked, calls>>

PMP_PERM_RWX == {"R", "W", "X"}

Cfg(mode, perm, lock) == [mode |-> mode, perm |-> perm, lock |-> lock]

PMP_MODE_OFF == Cfg("OFF", {}, FALSE)

Request(idx, area, perm, lock) ==
  [idx |-> idx, base |-> area[1], size |-> area[2], perm |-> perm,
   lock |-> lock]

Nothing == Request(0, <<0, 0>>, {}, FALSE)

PmpInit ==
  /\ pmpcfg = [i \in Entries |-> PMP_MODE_OFF]
  /\ pmpaddr = [i \in Entries |-> 0]
  /\ ppc = "idle" /\ call = Nothing
  /\ asked = [i \in Entries |-> Nothing]
  /\ calls = 0

-----------------------------------------------------------------------------
(* The PMP unit.                                                           *)

TrailingOnes(a) ==
  CHOOSE t \in 0 .. XLEN : (a + 1) % 2^t = 0 /\ (a + 1) % 2^(t + 1) # 0

\* The addresses matched in a mode by what pmpaddr holds.
Decode(mode, a) ==
  LET t == TrailingOnes(a)
  IN  CASE mode = "OFF"   -> {}
        [] mode = "NA4"   -> 4 * a .. 4 * a + 3
        [] mode = "NAPOT" ->
             4 * (a + 1 - 2^t) .. 4 * (a + 1 - 2^t) + 2^(t + 3) - 1

\* The addresses an entry matches.
Region(i) == Decode(pmpcfg[i].mode, pmpaddr[i])

\* An M-mode access is refused by the first entry that matches, if it is locked
\* and lacks the permission.
Denied(x, p) ==
  \E i \in Entries :
     /\ x \in Region(i) /\ \A j \in 0 .. i - 1 : x \notin Region(j)
     /\ pmpcfg[i].lock /\ p \notin pmpcfg[i].perm

\* The unit ignores a write to a locked entry.
CsrWrite(reg, i, v) == IF pmpcfg[i].lock THEN reg ELSE [reg EXCEPT ![i] = v]

-----------------------------------------------------------------------------
(* The driver.                                                             *)

PowerOfTwo(n) == \E k \in 0 .. XLEN : n = 2^k

\* The two or-ed fields have no bit in common: base is aligned to size.
pmp_napot_encode(base, size) ==
  IF size < 4 \/ ~PowerOfTwo(size) \/ base % size # 0 THEN 0
  ELSE IF size = 4 THEN base \div 4 ELSE base \div 4 + size \div 8 - 1

\* The error a call of pmp_program returns; 0 when its arguments are accepted.
ArgumentError(r) ==
  IF r.idx >= PMP_NUM_REGIONS THEN -1
  ELSE IF ~(r.perm \subseteq PMP_PERM_RWX) THEN -2
  ELSE IF pmp_napot_encode(r.base, r.size) = 0 /\ ~(r.base = 0 /\ r.size = 4)
       THEN -3
  ELSE 0

\* pmp_set_region and pmp_lock_region.
PmpProgram(idx, area, perm, lock) ==
  LET r == Request(idx, area, perm, lock)
  IN  /\ ppc = "idle" /\ calls < MaxCalls
      /\ IF ArgumentError(r) = 0 THEN ppc' = "addr" /\ call' = r
                                 ELSE UNCHANGED <<ppc, call>>
      /\ calls' = calls + 1
      /\ UNCHANGED <<pmpcfg, pmpaddr, asked>>

\* Slip: the configuration, lock included, is written first: the
\* address write that follows a lock is ignored.
PmpAddrWriteAfterCfg ==
  /\ ppc = "addr"
  /\ pmpcfg' = CsrWrite(pmpcfg, call.idx,
                        Cfg(IF call.size = 4 THEN "NA4" ELSE "NAPOT", call.perm,
                            call.lock))
  /\ asked' = CsrWrite(asked, call.idx, call)
  /\ pmpaddr' = pmpaddr
  /\ ppc' = "cfg"
  /\ UNCHANGED <<call, calls>>

\* The first write: the address, before the entry is switched on.
PmpAddrWrite ==
  /\ ppc = "addr"
  /\ pmpaddr' = CsrWrite(pmpaddr, call.idx,
                         pmp_napot_encode(call.base, call.size))
  /\ ppc' = "cfg"
  /\ UNCHANGED <<pmpcfg, call, asked, calls>>

\* The second write.  The call returns 0 even if the entry was locked already.
PmpCfgWrite ==
  /\ ppc = "cfg"
  /\ pmpcfg' = CsrWrite(pmpcfg, call.idx,
                        Cfg(IF call.size = 4 THEN "NA4" ELSE "NAPOT", call.perm,
                            call.lock))
  /\ asked' = CsrWrite(asked, call.idx, call)
  /\ ppc' = "idle" /\ call' = Nothing
  /\ UNCHANGED <<pmpaddr, calls>>

PmpClearRegion(idx) ==
  /\ ppc = "idle" /\ calls < MaxCalls
  /\ IF idx < PMP_NUM_REGIONS
     THEN ppc' = "clear_cfg" /\ call' = Request(idx, <<0, 0>>, {}, FALSE)
     ELSE UNCHANGED <<ppc, call>>
  /\ calls' = calls + 1
  /\ UNCHANGED <<pmpcfg, pmpaddr, asked>>

PmpClearCfg ==
  /\ ppc = "clear_cfg"
  /\ pmpcfg' = CsrWrite(pmpcfg, call.idx, PMP_MODE_OFF)
  /\ asked' = CsrWrite(asked, call.idx, Nothing)
  /\ ppc' = "clear_addr"
  /\ UNCHANGED <<pmpaddr, call, calls>>

PmpClearAddr ==
  /\ ppc = "clear_addr"
  /\ pmpaddr' = CsrWrite(pmpaddr, call.idx, 0)
  /\ ppc' = "idle" /\ call' = Nothing
  /\ UNCHANGED <<pmpcfg, asked, calls>>

PmpNext ==
  \/ \E idx \in Indices, area \in Areas, perm \in Perms, lock \in BOOLEAN :
        PmpProgram(idx, area, perm, lock)
  \/ PmpAddrWrite \/ PmpCfgWrite
  \/ \E idx \in Indices : PmpClearRegion(idx)
  \/ PmpClearCfg \/ PmpClearAddr

-----------------------------------------------------------------------------
PmpTypeOK ==
  /\ \A i \in Entries :
        /\ pmpcfg[i].mode \in {"OFF", "NA4", "NAPOT"}
        /\ pmpcfg[i].perm \subseteq PMP_PERM_RWX
        /\ pmpcfg[i].lock \in BOOLEAN
        /\ pmpaddr[i] \in Xlen
  /\ ppc \in {"idle", "addr", "cfg", "clear_cfg", "clear_addr"}

AsAsked(i) ==
  LET r == asked[i]
  IN  /\ Region(i) = r.base .. r.base + r.size - 1
      /\ pmpcfg[i].perm = r.perm /\ pmpcfg[i].lock = r.lock

\* Between calls, every entry guards exactly the bytes its caller named, with
\* the permissions and the lock it asked for: the NAPOT encoding of
\* pmp_napot_encode is undone by the unit's decoding, and a refused call leaves
\* the entry alone.
RegionIsAsAsked == ppc = "idle" => \A i \in Entries : AsAsked(i)

\* A locked entry never guards anything but what was asked, not even between
\* the two CSR writes of pmp_program: whatever is locked in wrongly stays wrong
\* until reset.
LockedIsAsAsked == \A i \in Entries : pmpcfg[i].lock => AsAsked(i)

-----------------------------------------------------------------------------
(* The inductive invariant.                                                *)

\* Arguments pmp_program goes on with.
Accepted(r) ==
  /\ r.base \in Xlen /\ r.size \in Xlen
  /\ r.perm \subseteq PMP_PERM_RWX /\ r.lock \in BOOLEAN
  /\ ArgumentError(r) = 0

\* The entry whose address is already that of the call, its configuration not.
HalfWritten(i) == ppc = "cfg" /\ i = call.idx /\ ~pmpcfg[i].lock

PmpInv ==
  /\ pmpcfg \in [Entries -> [mode : {"OFF", "NA4", "NAPOT"},
                             perm : SUBSET PMP_PERM_RWX, lock : BOOLEAN]]
  /\ pmpaddr \in [Entries -> Xlen]
  /\ DOMAIN asked = Entries
  /\ ppc \in {"idle", "addr", "cfg", "clear_cfg", "clear_addr"}
  /\ ppc # "idle" => call.idx \in Entries
  /\ ppc \in {"addr", "cfg"} => Accepted(call)
  /\ ppc = "clear_addr" /\ ~pmpcfg[call.idx].lock =>
        pmpcfg[call.idx] = PMP_MODE_OFF
  /\ \A i \in Entries :
        IF HalfWritten(i)
        THEN pmpaddr[i] = pmp_napot_encode(call.base, call.size)
        ELSE AsAsked(i)
=============================================================================
