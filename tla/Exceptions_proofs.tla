------------------------- MODULE Exceptions_proofs -------------------------
(***************************************************************************)
(* Proofs about the exception layer for any code of the triggers, any      *)
(* policies and any PMP configuration.                                     *)
(***************************************************************************)
EXTENDS Exceptions, FiniteSetTheorems, TLAPS

-----------------------------------------------------------------------------
(* pmp.c: what pmp_napot_encode writes and the PMP unit makes of it.       *)

\* 2^n counts the subsets of an interval of n numbers: the provers know of
\* powers only what the library says of the subsets of a finite set.
LEMMA PowerIsSubsets ==
  ASSUME NEW m \in Nat, NEW n \in Nat
  PROVE  /\ IsFiniteSet(SUBSET (m + 1 .. m + n))
         /\ Cardinality(SUBSET (m + 1 .. m + n)) = 2^n
<1>1. m + 1 \in Int /\ m + n \in Int /\ (m + 1 > m + n <=> n = 0)
  OBVIOUS
<1>2. /\ IsFiniteSet(m + 1 .. m + n)
      /\ Cardinality(m + 1 .. m + n)
           = IF m + 1 > m + n THEN 0 ELSE (m + n) - (m + 1) + 1
  BY <1>1, FS_Interval
<1>3. Cardinality(m + 1 .. m + n) = n
  BY <1>1, <1>2
<1>4. QED BY <1>2, <1>3, FS_SUBSET

\* Powers of two are positive and 2^(i + j) = 2^i * 2^j: a subset of 1 .. i + j
\* is a subset of 1 .. i with one of the rest.
LEMMA PowerOfSum ==
  ASSUME NEW i \in Nat, NEW j \in Nat
  PROVE  /\ 2^i \in Nat \ {0} /\ 2^j \in Nat \ {0}
         /\ 2^(i + j) = 2^i * 2^j
<1> DEFINE A == SUBSET (1 .. i)
           B == SUBSET (i + 1 .. i + j)
           C == SUBSET (1 .. i + j)
           f == [p \in A \X B |-> p[1] \cup p[2]]
<1>1. IsFiniteSet(A) /\ Cardinality(A) = 2^i
  <2>1. 0 + 1 = 1 /\ 0 + i = i OBVIOUS
  <2>2. 0 \in Nat OBVIOUS
  <2>3. QED BY <2>1, <2>2, PowerIsSubsets
<1>2. IsFiniteSet(B) /\ Cardinality(B) = 2^j
  BY PowerIsSubsets
<1>3. IsFiniteSet(C) /\ Cardinality(C) = 2^(i + j)
  <2>1. 0 + 1 = 1 /\ 0 + (i + j) = i + j /\ i + j \in Nat OBVIOUS
  <2>2. 0 \in Nat OBVIOUS
  <2>3. QED BY <2>1, <2>2, PowerIsSubsets
<1>4. f \in Bijection(A \X B, C)
  <2>1. f \in [A \X B -> C]
    <3>1. ASSUME NEW p \in A \X B PROVE p[1] \cup p[2] \in C
      OBVIOUS
    <3>2. QED BY <3>1
  <2>2. ASSUME NEW p \in A \X B, NEW q \in A \X B, f[p] = f[q] PROVE p = q
    <3>1. p[1] \cup p[2] = q[1] \cup q[2] BY <2>2
    <3>2. /\ p[1] \subseteq 1 .. i /\ q[1] \subseteq 1 .. i
          /\ p[2] \subseteq i + 1 .. i + j /\ q[2] \subseteq i + 1 .. i + j
      OBVIOUS
    <3>3. (1 .. i) \cap (i + 1 .. i + j) = {} OBVIOUS
    <3>4. p[1] = q[1] /\ p[2] = q[2] BY <3>1, <3>2, <3>3
    <3>5. QED BY <3>4
  <2>3. ASSUME NEW c \in C PROVE \E p \in A \X B : f[p] = c
    <3>1. <<c \cap (1 .. i), c \cap (i + 1 .. i + j)>> \in A \X B OBVIOUS
    <3>2. \A x \in c : x \in 1 .. i \/ x \in i + 1 .. i + j OBVIOUS
    <3>3. c = (c \cap (1 .. i)) \cup (c \cap (i + 1 .. i + j)) BY <3>2
    <3>4. f[<<c \cap (1 .. i), c \cap (i + 1 .. i + j)>>] = c BY <3>1, <3>3
    <3>5. WITNESS <<c \cap (1 .. i), c \cap (i + 1 .. i + j)>> \in A \X B
    <3>6. QED BY <3>4
  <2> HIDE DEF A, B, C, f
  <2>4. QED BY <2>1, <2>2, <2>3 DEF Bijection, Injection, Surjection, IsInjective
<1> HIDE DEF A, B, C, f
<1>5. Cardinality(A \X B) = 2^i * 2^j /\ IsFiniteSet(A \X B)
  BY <1>1, <1>2, FS_Product
<1>6. Cardinality(C) = Cardinality(A \X B)
  BY <1>4, <1>5, FS_Bijection DEF ExistsBijection
<1>7. A # {} /\ B # {}
  BY DEF A, B
<1>8. 2^i \in Nat \ {0} /\ 2^j \in Nat \ {0}
  BY <1>1, <1>2, <1>7, FS_CardinalityType, FS_EmptySet
<1>9. QED BY <1>3, <1>5, <1>6, <1>8

\* A multiple of y leaves no remainder ...
LEMMA ModOfMultiple ==
  ASSUME NEW y \in Nat \ {0}, NEW q \in Nat
  PROVE  (y * q) % y = 0
<1> DEFINE x == y * q
           d == x \div y
           r == x % y
<1>1. x \in Nat /\ d \in Nat /\ r \in Nat /\ r < y /\ x = y * d + r
  OBVIOUS
<1>2. QED
  <2>1. CASE d = q BY <1>1, <2>1
  <2>2. CASE d > q
    <3>1. PICK e \in Nat : d = q + 1 + e BY <1>1, <2>2
    <3>2. y * d = y * q + y + y * e BY <3>1
    <3>3. QED BY <1>1, <3>2
  <2>3. CASE d < q
    <3>1. PICK e \in Nat : q = d + 1 + e BY <1>1, <2>3
    <3>2. y * q = y * d + y + y * e BY <3>1
    <3>3. QED BY <1>1, <3>2
  <2>4. QED BY <1>1, <2>1, <2>2, <2>3

\* ... and what leaves none is a multiple.
LEMMA DivOfMultiple ==
  ASSUME NEW y \in Nat \ {0}, NEW x \in Nat, x % y = 0
  PROVE  x \div y \in Nat /\ x = y * (x \div y)
  OBVIOUS

\* The PMP unit finds the size of a NAPOT region: a + 1 is an odd multiple of
\* exactly one power of two.
LEMMA TrailingOnesOf ==
  ASSUME NEW e \in 0 .. XLEN, NEW m \in Nat, NEW a \in Nat,
         a + 1 = 2^e * (2 * m + 1)
  PROVE  TrailingOnes(a) = e
<1>a. XLEN \in Nat BY PmpConstants DEF PmpConstants
<1> USE <1>a
<1>0. e \in Nat /\ 1 \in Nat OBVIOUS
<1>1. 2^e \in Nat \ {0} BY <1>0, PowerOfSum
<1>2. 2^(e + 1) = 2 * 2^e
  <2>1. 2^(e + 1) = 2^e * 2^1 BY <1>0, PowerOfSum
  <2>2. 2^1 = 2 OBVIOUS
  <2>3. QED BY <1>1, <2>1, <2>2
<1>3. (a + 1) % 2^e = 0
  <2>1. 2 * m + 1 \in Nat OBVIOUS
  <2>2. QED BY <1>1, <2>1, ModOfMultiple
<1>4. \A n \in Nat : a + 1 # (2 * 2^e) * n
  <2> SUFFICES ASSUME NEW n \in Nat, a + 1 = (2 * 2^e) * n PROVE FALSE
    OBVIOUS
  <2>1. PICK p \in Nat \ {0} : p = 2^e BY <1>1
  <2>2. p * (2 * m + 1) = (2 * p) * n BY <2>1
  <2>3. p * (2 * m + 1) = p * (2 * n) BY <2>2
  <2>4. 2 * m + 1 = 2 * n
    <3>1. CASE 2 * m + 1 < 2 * n
      <4>1. PICK x \in Nat : 2 * n = (2 * m + 1) + 1 + x BY <3>1
      <4>2. p * (2 * n) = p * (2 * m + 1) + p + p * x BY <4>1
      <4>3. QED BY <2>3, <4>2
    <3>2. CASE 2 * m + 1 > 2 * n
      <4>1. PICK x \in Nat : 2 * m + 1 = (2 * n) + 1 + x BY <3>2
      <4>2. p * (2 * m + 1) = p * (2 * n) + p + p * x BY <4>1
      <4>3. QED BY <2>3, <4>2
    <3>3. QED BY <3>1, <3>2
  <2>5. QED BY <2>4
<1>5. (a + 1) % 2^(e + 1) # 0
  <2> SUFFICES ASSUME (a + 1) % (2 * 2^e) = 0 PROVE FALSE
    BY <1>2
  <2>1. 2 * 2^e \in Nat \ {0} /\ a + 1 \in Nat BY <1>1
  <2>2. QED BY <1>4, <2>1, DivOfMultiple
<1>6. ASSUME NEW t \in 0 .. XLEN, (a + 1) % 2^t = 0, (a + 1) % 2^(t + 1) # 0
      PROVE  t = e
  <2>1. CASE t < e
    <3>1. PICK d \in Nat : e = t + 1 + d BY <2>1
    <3>2. 2^e = 2^(t + 1) * 2^d /\ 2^(t + 1) \in Nat \ {0} /\ 2^d \in Nat \ {0}
      BY <3>1, PowerOfSum
    <3>3. PICK q \in Nat, p \in Nat \ {0} : p = 2^(t + 1) /\ q = 2^d * (2 * m + 1)
      BY <3>2
    <3>4. a + 1 = p * q BY <3>2, <3>3
    <3>5. (a + 1) % p = 0 BY <3>3, <3>4, ModOfMultiple
    <3>6. QED BY <1>6, <3>3, <3>5
  <2>2. CASE t > e
    <3>1. PICK d \in Nat : t = (e + 1) + d BY <2>2
    <3>2. 2^t = 2^(e + 1) * 2^d /\ 2^t \in Nat \ {0} /\ 2^d \in Nat \ {0}
      BY <3>1, PowerOfSum
    <3>3. a + 1 = 2^t * ((a + 1) \div 2^t) /\ (a + 1) \div 2^t \in Nat
      <4>1. a + 1 \in Nat OBVIOUS
      <4>2. QED BY <1>6, <3>2, <4>1, DivOfMultiple
    <3>4. PICK n \in Nat : n = 2^d * ((a + 1) \div 2^t) BY <3>2, <3>3
    <3>5. a + 1 = (2 * 2^e) * n
      <4> DEFINE x == 2^e
                 y == 2^d
                 z == (a + 1) \div 2^t
      <4>1. x \in Nat /\ y \in Nat /\ z \in Nat BY <1>1, <3>2, <3>3
      <4>2. a + 1 = ((2 * x) * y) * z BY <1>2, <3>2, <3>3
      <4>3. n = y * z BY <3>4
      <4> HIDE DEF x, y, z
      <4>4. ((2 * x) * y) * z = (2 * x) * (y * z) BY <4>1
      <4>5. a + 1 = (2 * x) * n BY <4>2, <4>3, <4>4
      <4>6. QED BY <4>5 DEF x
    <3>6. QED BY <1>4, <3>4, <3>5
  <2>3. QED BY <2>1, <2>2
<1>7. QED BY <1>3, <1>5, <1>6 DEF TrailingOnes

\* pmp_napot_encode's word for a region of 8 bytes or more decodes to its base
\* and its size.
LEMMA NapotDecodes ==
  ASSUME NEW base \in Nat, NEW k \in 3 .. XLEN, base % 2^k = 0
  PROVE  LET a == base \div 4 + 2^k \div 8 - 1
             t == k - 3
         IN  /\ a \in Nat
             /\ TrailingOnes(a) = t
             /\ 4 * (a + 1 - 2^t) = base
             /\ 2^(t + 3) = 2^k
<1>a. XLEN \in Nat BY PmpConstants DEF PmpConstants
<1> USE <1>a
<1>1. k - 3 \in 0 .. XLEN /\ k - 3 \in Nat /\ (k - 3) + 3 = k OBVIOUS
<1>2. PICK p \in Nat \ {0} : p = 2^(k - 3) BY <1>1, PowerOfSum
<1>3. 2^k = 8 * p
  <2>1. 2^((k - 3) + 3) = 2^(k - 3) * 2^3 BY <1>1, PowerOfSum
  <2>2. 2^3 = 8 OBVIOUS
  <2>3. 2^k = p * 8 BY <1>1, <1>2, <2>1, <2>2
  <2>4. QED BY <2>3
<1>4. PICK m \in Nat : base = (8 * p) * m
  BY <1>3, DivOfMultiple
<1>5. PICK b \in Nat : b = p * m OBVIOUS
<1>6. base = 8 * b
  <2>1. (8 * p) * m = 8 * (p * m) OBVIOUS
  <2>2. QED BY <1>4, <1>5, <2>1
<1>7. base \div 4 = 2 * b /\ 2^k \div 8 = p BY <1>3, <1>6
<1>8. p * (2 * m + 1) = 2 * b + p
  <2>1. p * (2 * m + 1) = 2 * (p * m) + p OBVIOUS
  <2>2. QED BY <1>5, <2>1
<1>9. PICK a \in Nat : a = 2 * b + p - 1 /\ a + 1 = p * (2 * m + 1)
  BY <1>8
<1>10. TrailingOnes(a) = k - 3
  BY <1>1, <1>2, <1>9, TrailingOnesOf
<1>11. QED BY <1>1, <1>2, <1>3, <1>6, <1>7, <1>9, <1>10

\* A word pmp_program writes fits an address register, and the unit decodes it,
\* in the mode written next, to exactly the bytes of the request.
LEMMA EncodeDecodes ==
  ASSUME NEW r, Accepted(r)
  PROVE  LET a == pmp_napot_encode(r.base, r.size)
         IN  /\ a \in Xlen
             /\ Decode(IF r.size = 4 THEN "NA4" ELSE "NAPOT", a)
                  = r.base .. r.base + r.size - 1
<1> DEFINE a == pmp_napot_encode(r.base, r.size)
<1>1. XLEN \in Nat /\ 2^XLEN \in Nat \ {0}
  BY PmpConstants, PowerOfSum DEF PmpConstants
<1>2. PICK top \in Nat \ {0} : top = 2^XLEN /\ Xlen = 0 .. top - 1
  BY <1>1 DEF Xlen
<1>3. PICK b \in 0 .. top - 1, s \in 0 .. top - 1 : b = r.base /\ s = r.size
  BY <1>2 DEF Accepted
<1>4. pmp_napot_encode(b, s) # 0 \/ (b = 0 /\ s = 4)
  BY <1>3 DEF Accepted, ArgumentError
<1>5. CASE s = 4
  <2>1. b % 4 = 0
    BY <1>3, <1>4, <1>5 DEF pmp_napot_encode
  <2>2. PICK q \in Nat : b = 4 * q
    BY <2>1
  <2>3. a = q
    BY <1>3, <1>4, <1>5, <2>1, <2>2 DEF pmp_napot_encode
  <2>4. q \in Xlen
    BY <1>2, <2>2
  <2>5. Decode("NA4", q) = 4 * q .. 4 * q + 3
    BY DEF Decode
  <2>6. QED BY <1>3, <1>5, <2>2, <2>3, <2>4, <2>5
<1>6. CASE s # 4
  <2>1. /\ ~(s < 4) /\ PowerOfTwo(s) /\ b % s = 0
        /\ a = b \div 4 + s \div 8 - 1
    BY <1>3, <1>4, <1>6 DEF pmp_napot_encode
  <2>2. PICK k \in 0 .. XLEN : s = 2^k
    BY <2>1 DEF PowerOfTwo
  <2>3. k \in 3 .. XLEN
    <3>1. 2^0 = 1 /\ 2^1 = 2 /\ 2^2 = 4 OBVIOUS
    <3>2. (k = 0 => s = 1) /\ (k = 1 => s = 2) /\ (k = 2 => s = 4)
      BY <2>2, <3>1, Zenon
    <3>3. k # 0 /\ k # 1 /\ k # 2 BY <1>6, <2>1, <3>2
    <3>4. QED BY <1>1, <3>3
  <2>4. /\ a \in Nat /\ TrailingOnes(a) = k - 3
        /\ 4 * (a + 1 - 2^(k - 3)) = b
        /\ 2^((k - 3) + 3) = s
    <3> DEFINE w == b \div 4 + 2^k \div 8 - 1
    <3>1. b \in Nat /\ b % 2^k = 0 BY <2>1, <2>2
    <3>2. /\ w \in Nat /\ TrailingOnes(w) = k - 3
          /\ 4 * (w + 1 - 2^(k - 3)) = b /\ 2^((k - 3) + 3) = 2^k
      BY <2>3, <3>1, NapotDecodes
    <3>3. a = w BY <2>1, <2>2
    <3> HIDE DEF w, a
    <3>4. QED BY <2>2, <3>2, <3>3
  <2>5. a \in Xlen
    <3>1. b \div 4 <= b /\ s \div 8 \in Nat /\ b \div 4 \in Nat
          /\ 4 * (b \div 4) <= b /\ 8 * (s \div 8) <= s
      OBVIOUS
    <3>2. QED BY <1>2, <2>1, <2>4, <3>1
  <2>6. Decode("NAPOT", a)
          = 4 * (a + 1 - 2^(k - 3)) .. 4 * (a + 1 - 2^(k - 3)) + 2^((k - 3) + 3) - 1
    BY <2>4 DEF Decode
  <2>7. Decode("NAPOT", a) = b .. b + s - 1
    BY <2>4, <2>6
  <2>8. QED BY <1>3, <1>6, <2>5, <2>7
<1>7. QED BY <1>5, <1>6

\* An entry whose registers and history stand guards what it guarded.
LEMMA EntryStands ==
  ASSUME NEW i, pmpcfg'[i] = pmpcfg[i], pmpaddr'[i] = pmpaddr[i],
         asked'[i] = asked[i], AsAsked(i)
  PROVE  AsAsked(i)'
  BY DEF AsAsked, Region

\* A cleared entry guards nothing.
LEMMA OffGuardsNothing ==
  ASSUME NEW a
  PROVE  Decode("OFF", a) = Nothing.base .. Nothing.base + Nothing.size - 1
  BY DEF Decode, Nothing, Request

\* The reset state satisfies the invariant of the PMP entries.
LEMMA PmpInitInv == PmpInit => PmpInv
<1> SUFFICES ASSUME PmpInit PROVE PmpInv
  OBVIOUS
<1>1. 0 \in Xlen
  BY PmpConstants, PowerOfSum DEF PmpConstants, Xlen
<1>2. ASSUME NEW i \in Entries PROVE AsAsked(i)
  BY OffGuardsNothing
     DEF PmpInit, AsAsked, Region, PMP_MODE_OFF, Cfg, Nothing, Request
<1>3. QED
  BY <1>1, <1>2 DEF PmpInit, PmpInv, HalfWritten, PMP_MODE_OFF, Cfg

\* What every step must preserve of the registers besides the entry it writes.
LEMMA PmpStands ==
  ASSUME PmpInv, UNCHANGED <<pmpcfg, pmpaddr, ppc, call, asked>>
  PROVE  PmpInv'
<1>1. ASSUME NEW i \in Entries
      PROVE  (IF HalfWritten(i)
              THEN pmpaddr[i] = pmp_napot_encode(call.base, call.size)
              ELSE AsAsked(i))'
  BY EntryStands DEF PmpInv, HalfWritten
<1>2. QED BY <1>1 DEF PmpInv

\* Every CSR write of a call of pmp.c preserves it.
LEMMA PmpStep == PmpInv /\ [PmpNext]_pmpVars => PmpInv'
<1> SUFFICES ASSUME PmpInv, [PmpNext]_pmpVars PROVE PmpInv'
  OBVIOUS
<1>t. /\ pmpcfg \in [Entries -> [mode : {"OFF", "NA4", "NAPOT"},
                                 perm : SUBSET PMP_PERM_RWX, lock : BOOLEAN]]
      /\ pmpaddr \in [Entries -> Xlen] /\ DOMAIN asked = Entries
      /\ ppc # "idle" => call.idx \in Entries
      /\ ppc \in {"addr", "cfg"} => Accepted(call)
  BY DEF PmpInv
<1>e. \A i \in Entries :
         IF HalfWritten(i)
         THEN pmpaddr[i] = pmp_napot_encode(call.base, call.size)
         ELSE AsAsked(i)
  BY DEF PmpInv
<1>1. ASSUME NEW idx \in Indices, NEW area \in Areas, NEW perm \in Perms,
             NEW lock \in BOOLEAN, PmpProgram(idx, area, perm, lock)
      PROVE  PmpInv'
  <2> DEFINE r == Request(idx, area, perm, lock)
  <2>1. ppc = "idle" /\ UNCHANGED <<pmpcfg, pmpaddr, asked>>
    BY <1>1 DEF PmpProgram
  <2>2. CASE ArgumentError(r) = 0
    <3>1. ppc' = "addr" /\ call' = r
      BY <1>1, <2>2 DEF PmpProgram
    <3>2. area[1] \in Xlen /\ area[2] \in Xlen /\ idx \in Nat
      BY PmpConstants DEF PmpConstants
    <3>3. perm \subseteq PMP_PERM_RWX /\ idx < PMP_NUM_REGIONS
      BY <2>2, <3>2, PmpConstants
         DEF ArgumentError, Request, PmpConstants
    <3>4. Accepted(r)
      BY <2>2, <3>2, <3>3 DEF Accepted, Request
    <3>5. r.idx \in Entries
      BY <3>2, <3>3, PmpConstants DEF Entries, Request, PmpConstants
    <3>6. Accepted(call)'
      BY <3>1, <3>4 DEF Accepted, ArgumentError
    <3>7. ASSUME NEW i \in Entries PROVE AsAsked(i)' /\ ~HalfWritten(i)'
      BY <1>e, <2>1, <3>1, EntryStands DEF HalfWritten
    <3> HIDE DEF r
    <3>8. QED BY <1>t, <2>1, <3>1, <3>5, <3>6, <3>7 DEF PmpInv
  <2>3. CASE ArgumentError(r) # 0
    BY <1>1, <2>3, PmpStands DEF PmpProgram
  <2>4. QED BY <2>2, <2>3
<1>2. CASE PmpAddrWrite
  <2>1. /\ ppc = "addr" /\ ppc' = "cfg" /\ UNCHANGED <<pmpcfg, call, asked>>
        /\ call.idx \in Entries /\ Accepted(call)
    BY <1>2, <1>t DEF PmpAddrWrite
  <2>2. pmp_napot_encode(call.base, call.size) \in Xlen
    BY <2>1, EncodeDecodes
  <2>3. /\ pmpaddr' = IF pmpcfg[call.idx].lock THEN pmpaddr
                      ELSE [pmpaddr EXCEPT ![call.idx] =
                              pmp_napot_encode(call.base, call.size)]
        /\ pmpaddr' \in [Entries -> Xlen]
    BY <1>2, <1>t, <2>2 DEF PmpAddrWrite, CsrWrite
  <2>4. ASSUME NEW i \in Entries
        PROVE  (IF HalfWritten(i)
                THEN pmpaddr[i] = pmp_napot_encode(call.base, call.size)
                ELSE AsAsked(i))'
    <3>1. CASE i = call.idx /\ ~pmpcfg[i].lock
      BY <1>t, <2>1, <2>3, <3>1 DEF HalfWritten
    <3>2. CASE ~(i = call.idx /\ ~pmpcfg[i].lock)
      <4>1. pmpaddr'[i] = pmpaddr[i] /\ ~HalfWritten(i)'
        BY <1>t, <2>1, <2>3, <3>2 DEF HalfWritten
      <4>2. AsAsked(i)
        BY <1>e, <2>1 DEF HalfWritten
      <4>3. QED BY <2>1, <4>1, <4>2, EntryStands
    <3>3. QED BY <3>1, <3>2
  <2>5. Accepted(call)'
    BY <2>1 DEF Accepted, ArgumentError
  <2>6. QED BY <1>t, <2>1, <2>3, <2>4, <2>5 DEF PmpInv
<1>3. CASE PmpCfgWrite
  <2> DEFINE mode == IF call.size = 4 THEN "NA4" ELSE "NAPOT"
             v == Cfg(mode, call.perm, call.lock)
  <2>1. /\ ppc = "cfg" /\ ppc' = "idle" /\ pmpaddr' = pmpaddr
        /\ call.idx \in Entries /\ Accepted(call)
    BY <1>3, <1>t DEF PmpCfgWrite
  <2>2. /\ pmpcfg' = IF pmpcfg[call.idx].lock THEN pmpcfg
                     ELSE [pmpcfg EXCEPT ![call.idx] = v]
        /\ asked' = IF pmpcfg[call.idx].lock THEN asked
                    ELSE [asked EXCEPT ![call.idx] = call]
    BY <1>3 DEF PmpCfgWrite, CsrWrite
  <2>3. v \in [mode : {"OFF", "NA4", "NAPOT"}, perm : SUBSET PMP_PERM_RWX,
               lock : BOOLEAN]
    BY <2>1 DEF Accepted, Cfg
  <2>4. v.mode = mode /\ v.perm = call.perm /\ v.lock = call.lock
    BY DEF Cfg
  <2>5. Decode(mode, pmp_napot_encode(call.base, call.size))
          = call.base .. call.base + call.size - 1
    BY <2>1, EncodeDecodes
  <2> HIDE DEF mode, v
  <2>6. ASSUME NEW i \in Entries PROVE AsAsked(i)'
    <3>1. CASE i = call.idx /\ ~pmpcfg[i].lock
      <4>1. pmpcfg'[i] = v /\ asked'[i] = call
        BY <1>t, <2>2, <3>1
      <4>2. pmpaddr'[i] = pmp_napot_encode(call.base, call.size)
        BY <1>e, <2>1, <3>1 DEF HalfWritten
      <4>3. Region(i)' = call.base .. call.base + call.size - 1
        BY <2>4, <2>5, <4>1, <4>2 DEF Region
      <4>4. QED BY <2>4, <4>1, <4>3 DEF AsAsked
    <3>2. CASE ~(i = call.idx /\ ~pmpcfg[i].lock)
      <4>1. pmpcfg'[i] = pmpcfg[i] /\ asked'[i] = asked[i]
        BY <1>t, <2>2, <3>2
      <4>2. AsAsked(i)
        BY <1>e, <3>2 DEF HalfWritten
      <4>3. QED BY <2>1, <4>1, <4>2, EntryStands
    <3>3. QED BY <3>1, <3>2
  <2>7. /\ pmpcfg' \in [Entries -> [mode : {"OFF", "NA4", "NAPOT"},
                                    perm : SUBSET PMP_PERM_RWX, lock : BOOLEAN]]
        /\ DOMAIN asked' = Entries
    BY <1>t, <2>1, <2>2, <2>3
  <2>8. QED BY <1>t, <2>1, <2>6, <2>7 DEF PmpInv, HalfWritten
<1>4. ASSUME NEW idx \in Indices, PmpClearRegion(idx) PROVE PmpInv'
  <2>1. ppc = "idle" /\ UNCHANGED <<pmpcfg, pmpaddr, asked>>
    BY <1>4 DEF PmpClearRegion
  <2>2. CASE idx < PMP_NUM_REGIONS
    <3>1. ppc' = "clear_cfg" /\ call'.idx \in Entries
      BY <1>4, <2>2, PmpConstants
         DEF PmpClearRegion, Request, Entries, PmpConstants
    <3>2. ASSUME NEW i \in Entries PROVE AsAsked(i)' /\ ~HalfWritten(i)'
      BY <1>e, <2>1, <3>1, EntryStands DEF HalfWritten
    <3>3. QED BY <1>t, <2>1, <3>1, <3>2 DEF PmpInv
  <2>3. CASE ~(idx < PMP_NUM_REGIONS)
    BY <1>4, <2>3, PmpStands DEF PmpClearRegion
  <2>4. QED BY <2>2, <2>3
<1>5. CASE PmpClearCfg
  <2>1. /\ ppc = "clear_cfg" /\ ppc' = "clear_addr" /\ call.idx \in Entries
        /\ UNCHANGED <<pmpaddr, call>>
    BY <1>5, <1>t DEF PmpClearCfg
  <2>2. /\ pmpcfg' = IF pmpcfg[call.idx].lock THEN pmpcfg
                     ELSE [pmpcfg EXCEPT ![call.idx] = PMP_MODE_OFF]
        /\ asked' = IF pmpcfg[call.idx].lock THEN asked
                    ELSE [asked EXCEPT ![call.idx] = Nothing]
    BY <1>5 DEF PmpClearCfg, CsrWrite
  <2>3. PMP_MODE_OFF \in [mode : {"OFF", "NA4", "NAPOT"},
                          perm : SUBSET PMP_PERM_RWX, lock : BOOLEAN]
    BY DEF PMP_MODE_OFF, Cfg
  <2>4. ASSUME NEW i \in Entries PROVE AsAsked(i)'
    <3>1. CASE i = call.idx /\ ~pmpcfg[i].lock
      <4>1. pmpcfg'[i] = PMP_MODE_OFF /\ asked'[i] = Nothing
        BY <1>t, <2>2, <3>1
      <4>2. Region(i)' = Nothing.base .. Nothing.base + Nothing.size - 1
        BY <4>1, OffGuardsNothing DEF Region, PMP_MODE_OFF, Cfg
      <4>3. QED BY <4>1, <4>2 DEF AsAsked, PMP_MODE_OFF, Cfg, Nothing, Request
    <3>2. CASE ~(i = call.idx /\ ~pmpcfg[i].lock)
      <4>1. pmpcfg'[i] = pmpcfg[i] /\ asked'[i] = asked[i]
        BY <1>t, <2>2, <3>2
      <4>2. AsAsked(i)
        BY <1>e, <2>1 DEF HalfWritten
      <4>3. QED BY <2>1, <4>1, <4>2, EntryStands
    <3>3. QED BY <3>1, <3>2
  <2>5. /\ pmpcfg' \in [Entries -> [mode : {"OFF", "NA4", "NAPOT"},
                                    perm : SUBSET PMP_PERM_RWX, lock : BOOLEAN]]
        /\ DOMAIN asked' = Entries
    BY <1>t, <2>1, <2>2, <2>3
  <2>6. ~pmpcfg'[call.idx].lock => pmpcfg'[call.idx] = PMP_MODE_OFF
    BY <1>t, <2>1, <2>2
  <2>7. QED BY <1>t, <2>1, <2>4, <2>5, <2>6 DEF PmpInv, HalfWritten
<1>6. CASE PmpClearAddr
  <2>1. /\ ppc = "clear_addr" /\ ppc' = "idle" /\ call.idx \in Entries
        /\ UNCHANGED <<pmpcfg, asked>>
        /\ pmpaddr' = IF pmpcfg[call.idx].lock THEN pmpaddr
                      ELSE [pmpaddr EXCEPT ![call.idx] = 0]
    BY <1>6, <1>t DEF PmpClearAddr, CsrWrite
  <2>2. pmpaddr' \in [Entries -> Xlen]
    <3>1. 0 \in Xlen
      BY PmpConstants, PowerOfSum DEF PmpConstants, Xlen
    <3>2. QED BY <1>t, <2>1, <3>1
  <2>3. ASSUME NEW i \in Entries PROVE AsAsked(i)'
    <3>0. AsAsked(i)
      BY <1>e, <2>1 DEF HalfWritten
    <3>1. CASE i = call.idx /\ ~pmpcfg[i].lock
      <4>1. pmpcfg[i] = PMP_MODE_OFF
        BY <2>1, <3>1 DEF PmpInv
      <4>2. pmpcfg[i].mode = "OFF" /\ pmpcfg'[i] = pmpcfg[i]
        BY <2>1, <4>1 DEF PMP_MODE_OFF, Cfg
      <4>3. Region(i)' = {} /\ Region(i) = {}
        BY <4>2 DEF Region, Decode
      <4>4. QED BY <2>1, <3>0, <4>2, <4>3 DEF AsAsked
    <3>2. CASE ~(i = call.idx /\ ~pmpcfg[i].lock)
      <4>1. pmpaddr'[i] = pmpaddr[i]
        BY <1>t, <2>1, <3>2
      <4>2. QED BY <2>1, <3>0, <4>1, EntryStands
    <3>3. QED BY <3>1, <3>2
  <2>4. QED BY <1>t, <2>1, <2>2, <2>3 DEF PmpInv, HalfWritten
<1>7. CASE UNCHANGED pmpVars
  BY <1>7, PmpStands DEF pmpVars
<1>8. QED BY <1>1, <1>2, <1>3, <1>4, <1>5, <1>6, <1>7 DEF PmpNext

-----------------------------------------------------------------------------
(* exceptions.c: the record, the expectation and the verdict.              *)

\* The reset state satisfies the inductive invariant.
LEMMA InitInv == Init => IInv
  BY DEF Init, ExcInit, IInv, RecordType, RecordInv

\* A trap extends the history by the exception it records: the earlier part of
\* the history, and whether it may pass, is as before.
LEMMA RecordExtends ==
  ASSUME NEW c \in Causes, RecordType, Record(c)
  PROVE  /\ raised' \in Seq(Nat) /\ exc_total' \in Nat
         /\ exc_total' = exc_total + 1
         /\ Len(raised') = Len(raised) + 1
         /\ raised'[Len(raised) + 1] = c
         /\ \A i \in 1 .. Len(raised) : raised'[i] = raised[i]
         /\ exc_last'.cause = c
<1>1. c \in Nat BY DEF Causes, CAUSE_MAX
<1>2. QED BY <1>1 DEF RecordType, Record

\* Every call of the test, every instruction and every trap keeps it.
LEMMA InvStep == IInv /\ [Next]_vars => IInv'
<1> SUFFICES ASSUME IInv, [Next]_vars PROVE IInv'
  OBVIOUS
<1> USE ExceptionsConstants DEF ExceptionsConstants, history
<1>1. CASE ApiCall
  <2>1. CASE ExceptionsInit
    BY <2>1 DEF ExceptionsInit, Calls, IInv, RecordType, RecordInv
  <2>2. CASE \E c \in Policies, act \in {"FATAL", "SKIP", "HANDLER"} :
                ExceptionSetAction(c, act)
    BY <2>2 DEF ExceptionSetAction, Calls, IInv, RecordType, RecordInv,
                recordVars, expectVars
  <2>3. CASE \E c \in Policies, h \in {"skips", "refuses"} :
                ExceptionSetHandler(c, h)
    BY <2>3 DEF ExceptionSetHandler, Calls, IInv, RecordType, RecordInv,
                recordVars, expectVars
  <2>4. CASE \E c \in Wanted, f \in Triggers : ExpectAndRun(c, f)
    BY <2>4 DEF ExpectAndRun, ExceptionExpect, Calls, IInv, RecordType,
                RecordInv, recordVars
  <2>5. QED BY <1>1, <2>1, <2>2, <2>3, <2>4 DEF ApiCall
<1>2. CASE Execute
  <2>1. tpc = "trigger"
    BY <1>2 DEF Execute, Running
  <2>2. UNCHANGED <<exc_action, exc_handler, exc_last, exc_total, expect_valid,
                    expect_cause, expect_hit, before, raised>>
    BY <1>2 DEF Execute, policyVars, recordVars, expectVars
  <2>3. \A i : MayPass(i)' <=> MayPass(i)
    BY <2>2 DEF MayPass, Resumable, Policy
  <2>4. QED BY <2>1, <2>2, <2>3 DEF IInv, RecordType, RecordInv
<1>3. CASE Judge
  BY <1>3 DEF Judge, ExceptionMatched, IInv, RecordType, RecordInv, recordVars
<1>4. CASE DispatchInterrupt
  BY <1>4 DEF DispatchInterrupt, IInv, RecordType, RecordInv, recordVars,
              expectVars
<1>5. ASSUME NEW c \in Causes, TrapExpected(c) PROVE IInv'
  <2>1. tpc = "trigger" /\ tpc' = "trigger" /\ Record(c) /\ Expected(c)
    BY <1>5 DEF TrapExpected, Traps, Running
  <2>2. /\ expect_hit' = 1 /\ expect_valid' = 0
        /\ UNCHANGED <<expect_cause, before>>
    BY <1>5 DEF TrapExpected
  <2>3. \A d : Resumable(d)' <=> Resumable(d)
    BY <1>5 DEF TrapExpected, Resumable, Policy, policyVars
  <2>4. RecordType'
    BY <2>1, <2>2, RecordExtends DEF IInv, RecordType
  <2>5. RecordInv'
    <3>0. PICK n \in Nat : n = Len(raised)
      BY DEF IInv, RecordType
    <3>1. /\ Len(raised') = n + 1 /\ raised'[n + 1] = c
          /\ \A i \in 1 .. n : raised'[i] = raised[i]
          /\ exc_total' = exc_total + 1 /\ exc_last'.cause = c
      BY <2>1, <3>0, RecordExtends DEF IInv
    <3>2. /\ exc_total = before + n /\ exc_total \in Nat /\ before \in Nat
          /\ expect_hit = 1 - expect_valid
          /\ expect_valid = 1 <=> \A i \in 1 .. n : raised[i] # expect_cause
          /\ \A i \in 1 .. n : MayPass(i)
      BY <2>1, <3>0 DEF IInv, RecordType, RecordInv
    <3>3. exc_total' = before' + Len(raised')
      BY <2>2, <3>1, <3>2
    <3>4. Len(raised') > 0 => exc_last'.cause = raised'[Len(raised')]
      BY <3>1
    <3>5. expect_hit' = 1 - expect_valid'
      BY <2>2, <3>2
    <3>6. expect_valid' = 1 <=>
            \A i \in 1 .. Len(raised') : raised'[i] # expect_cause'
      BY <2>1, <2>2, <3>1 DEF Expected
    <3>7. ASSUME NEW i \in 1 .. n PROVE MayPass(i)'
      <4>1. \A j \in 1 .. i : raised'[j] = raised[j] BY <3>1
      <4>2. MayPass(i) /\ expect_cause' = expect_cause BY <2>2, <3>2
      <4>3. QED BY <2>3, <4>1, <4>2 DEF MayPass
    <3>8. MayPass(n + 1)'
      BY <2>1, <2>2, <3>1, <3>2 DEF Expected, MayPass
    <3>9. \A i \in 1 .. Len(raised') : MayPass(i)'
      BY <3>1, <3>7, <3>8
    <3>10. QED BY <3>3, <3>4, <3>5, <3>6, <3>9 DEF RecordInv
  <2>6. QED BY <2>4, <2>5 DEF IInv
<1>6. ASSUME NEW c \in Causes, TrapResumes(c) PROVE IInv'
  <2>1. tpc = "trigger" /\ tpc' = "trigger" /\ Record(c) /\ ~Expected(c)
        /\ Resumable(c)
    BY <1>6 DEF TrapResumes, Traps, Running
  <2>2. UNCHANGED <<expect_hit, expect_valid, expect_cause, before>>
    BY <1>6 DEF TrapResumes, expectVars
  <2>3. \A d : Resumable(d)' <=> Resumable(d)
    BY <1>6 DEF TrapResumes, Resumable, Policy, policyVars
  <2>4. RecordType'
    BY <2>1, <2>2, RecordExtends DEF IInv, RecordType
  <2>5. RecordInv'
    <3>0. PICK n \in Nat : n = Len(raised)
      BY DEF IInv, RecordType
    <3>1. /\ Len(raised') = n + 1 /\ raised'[n + 1] = c
          /\ \A i \in 1 .. n : raised'[i] = raised[i]
          /\ exc_total' = exc_total + 1 /\ exc_last'.cause = c
      BY <2>1, <3>0, RecordExtends DEF IInv
    <3>2. /\ exc_total = before + n /\ exc_total \in Nat /\ before \in Nat
          /\ expect_hit = 1 - expect_valid
          /\ expect_valid = 1 <=> \A i \in 1 .. n : raised[i] # expect_cause
          /\ \A i \in 1 .. n : MayPass(i)
      BY <2>1, <3>0 DEF IInv, RecordType, RecordInv
    <3>3. exc_total' = before' + Len(raised')
      BY <2>2, <3>1, <3>2
    <3>4. Len(raised') > 0 => exc_last'.cause = raised'[Len(raised')]
      BY <3>1
    <3>5. expect_hit' = 1 - expect_valid'
      BY <2>2, <3>2
    <3>6. expect_valid' = 1 <=>
            \A i \in 1 .. Len(raised') : raised'[i] # expect_cause'
      BY <2>1, <2>2, <3>1, <3>2 DEF Expected
    <3>7. ASSUME NEW i \in 1 .. n PROVE MayPass(i)'
      <4>1. \A j \in 1 .. i : raised'[j] = raised[j] BY <3>1
      <4>2. MayPass(i) /\ expect_cause' = expect_cause BY <2>2, <3>2
      <4>3. QED BY <2>3, <4>1, <4>2 DEF MayPass
    <3>8. MayPass(n + 1)'
      BY <2>1, <2>3, <3>1 DEF MayPass
    <3>9. \A i \in 1 .. Len(raised') : MayPass(i)'
      BY <3>1, <3>7, <3>8
    <3>10. QED BY <3>3, <3>4, <3>5, <3>6, <3>9 DEF RecordInv
  <2>6. QED BY <2>4, <2>5 DEF IInv
<1>7. ASSUME NEW c \in Causes, TrapFatal(c) PROVE IInv'
  <2>1. Record(c) BY <1>7 DEF TrapFatal, Traps
  <2>2. QED BY <1>7, <2>1, RecordExtends
            DEF TrapFatal, IInv, RecordType, RecordInv, expectVars
<1>8. CASE PmpCall
  BY <1>8 DEF PmpCall, IInv, RecordType, RecordInv, MayPass, Resumable, Policy,
              excVars, policyVars, recordVars, expectVars, testVars
<1>9. CASE UNCHANGED vars
  BY <1>9 DEF vars, IInv, RecordType, RecordInv, MayPass, Resumable, Policy,
              excVars, policyVars, recordVars, expectVars, testVars
<1>10. QED
  BY <1>1, <1>2, <1>3, <1>4, <1>5, <1>6, <1>7, <1>8, <1>9 DEF Next, Hart

\* The record and the expectation tell, at every moment of a trigger, what it
\* has raised (handle_exception, exception_expect).
THEOREM InvHolds == Spec => []IInv
  BY InitInv, InvStep, PTL DEF Spec

\* A trigger that returns has raised nothing that handle_exception should have
\* stopped at, whatever its code and the policies.
THEOREM NothingSlips == Spec => []NothingSlipsThrough
<1>1. IInv => NothingSlipsThrough
  BY DEF IInv, RecordInv, NothingSlipsThrough
<1>2. QED BY <1>1, InvHolds, PTL

\* expect_and_run returns 1 exactly when the expected exception was raised,
\* once, and nothing else was.
THEOREM VerdictExact == Spec => VerdictIsExact
<1>1. IInv /\ [Next]_vars =>
        [Judge => (verdict' = 1 <=> raised = <<expect_cause>>)]_vars
  <2> SUFFICES ASSUME IInv, Judge
               PROVE  verdict' = 1 <=> raised = <<expect_cause>>
    OBVIOUS
  <2>1. exc_total = before + Len(raised) /\ expect_hit = 1 - expect_valid
    BY DEF Judge, IInv, RecordInv
  <2>2. CASE raised = <<expect_cause>>
    <3>1. Len(raised) = 1 /\ raised[1] = expect_cause BY <2>2
    <3>2. expect_hit = 1 /\ exc_last.cause = expect_cause
      BY <3>1 DEF Judge, IInv, RecordType, RecordInv
    <3>3. QED BY <2>1, <2>2, <3>1, <3>2 DEF Judge, IInv, RecordType
  <2>3. CASE verdict' = 1
    <3>1. exc_total = before + 1 /\ exc_last.cause = expect_cause
      BY <2>3 DEF Judge
    <3>2. Len(raised) = 1
      <4>1. PICK n \in Nat : n = Len(raised) BY DEF IInv, RecordType
      <4>2. before \in Nat /\ exc_total = before + n
        BY <2>1, <4>1 DEF IInv, RecordType
      <4>3. n = 1 BY <3>1, <4>2
      <4>4. QED BY <4>1, <4>3
    <3>3. raised[1] = expect_cause
      BY <3>1, <3>2 DEF Judge, IInv, RecordInv
    <3>4. raised \in Seq(Nat) /\ expect_cause \in Nat BY DEF IInv, RecordType
    <3>5. raised = <<expect_cause>> BY <3>2, <3>3, <3>4
    <3>6. QED BY <2>3, <3>5
  <2>4. QED BY <2>2, <2>3
<1>2. QED BY <1>1, InvHolds, PTL DEF Spec, VerdictIsExact

-----------------------------------------------------------------------------
(* The PMP entries under the whole system, and where a trap resumes.       *)

\* Nothing but pmp.c writes the PMP registers.
LEMMA PmpInvStep == PmpInv /\ [Next]_vars => PmpInv'
<1> SUFFICES ASSUME PmpInv, [Next]_vars PROVE PmpInv'
  OBVIOUS
<1>1. CASE ApiCall
  <2>1. Calls
    BY <1>1 DEF ApiCall, ExceptionsInit, ExceptionSetAction, ExceptionSetHandler,
                ExpectAndRun
  <2>2. QED BY <2>1, PmpStands DEF Calls
<1>2. CASE PmpCall
  BY <1>2, PmpStep DEF PmpCall
<1>3. CASE Hart \/ DispatchInterrupt \/ UNCHANGED vars
  <2>1. UNCHANGED pmpVars
    BY <1>3 DEF Hart, Execute, TrapExpected, TrapResumes, TrapFatal, Judge,
                DispatchInterrupt, vars
  <2>2. QED BY <2>1, PmpStands DEF pmpVars
<1>4. QED BY <1>1, <1>2, <1>3 DEF Next

\* The state of the exception layer keeps its types: a cause out of range
\* never indexes the tables.
LEMMA ExcTypeStep ==
  ASSUME PmpInv', IInv, TypeOK, [Next]_vars
  PROVE  TypeOK'
<1> USE ExceptionsConstants DEF ExceptionsConstants
<1>1. PmpTypeOK'
  BY DEF PmpInv, PmpTypeOK
<1>2. CASE ExceptionsInit
  BY <1>1, <1>2 DEF ExceptionsInit, TypeOK, NoRecord, Causes, CAUSE_MAX
<1>3. ASSUME NEW c \in Policies, NEW act \in {"FATAL", "SKIP", "HANDLER"},
             ExceptionSetAction(c, act)
      PROVE  TypeOK'
  <2>1. exc_action' \in [Causes -> {"FATAL", "SKIP", "HANDLER"}]
    BY <1>3 DEF ExceptionSetAction, TypeOK, Causes
  <2>2. QED
    BY <1>1, <1>3, <2>1 DEF ExceptionSetAction, TypeOK, recordVars, expectVars
<1>4. ASSUME NEW c \in Policies, NEW h \in {"skips", "refuses"},
             ExceptionSetHandler(c, h)
      PROVE  TypeOK'
  <2>1. /\ exc_action' \in [Causes -> {"FATAL", "SKIP", "HANDLER"}]
        /\ exc_handler' \in [Causes -> {"none", "skips", "refuses"}]
    BY <1>4 DEF ExceptionSetHandler, TypeOK, Causes, policyVars
  <2>2. QED
    BY <1>1, <1>4, <2>1 DEF ExceptionSetHandler, TypeOK, recordVars, expectVars
<1>5. ASSUME NEW c \in Wanted, NEW f \in Triggers, ExpectAndRun(c, f)
      PROVE  TypeOK'
  BY <1>1, <1>5 DEF ExpectAndRun, ExceptionExpect, TypeOK, policyVars, recordVars
<1>6. CASE Execute
  BY <1>1, <1>6 DEF Execute, TypeOK, policyVars, recordVars, expectVars
<1>7. ASSUME NEW c \in Causes,
             TrapExpected(c) \/ TrapResumes(c) \/ TrapFatal(c)
      PROVE  TypeOK'
  <2>1. Record(c) /\ UNCHANGED <<exc_action, exc_handler, verdict>>
    BY <1>7 DEF TrapExpected, TrapResumes, TrapFatal, Traps, policyVars
  <2>2. exc_last'.cause \in Causes /\ exc_last'.count = exc_total'
    BY <2>1 DEF Record
  <2>3. /\ expect_valid' \in {0, 1} /\ expect_hit' \in {0, 1}
        /\ tpc' \in {"idle", "trigger", "judge", "exited"}
        /\ code' \in {"none", "fatal", "fail"}
    BY <1>7 DEF TrapExpected, TrapResumes, TrapFatal, TypeOK, expectVars
  <2>4. QED BY <1>1, <2>1, <2>2, <2>3 DEF TypeOK
<1>8. CASE Judge
  BY <1>1, <1>8 DEF Judge, ExceptionMatched, TypeOK, policyVars, recordVars
<1>9. CASE DispatchInterrupt
  BY <1>1, <1>9 DEF DispatchInterrupt, TypeOK, policyVars, recordVars, expectVars
<1>10. CASE PmpCall \/ UNCHANGED vars
  BY <1>1, <1>10 DEF PmpCall, TypeOK, vars, excVars, policyVars, recordVars,
                     expectVars, testVars
<1>11. QED
  BY <1>2, <1>3, <1>4, <1>5, <1>6, <1>7, <1>8, <1>9, <1>10
     DEF Next, ApiCall, Hart

\* Whatever regions are asked for and in whatever order, pmp.c's entries guard
\* exactly the bytes asked for between calls, the locked ones at every moment.
THEOREM PmpGuards == Spec => []GuardsAsAsked
<1>1. Init => PmpInv /\ TypeOK
  <2> SUFFICES ASSUME Init PROVE PmpInv /\ TypeOK
    OBVIOUS
  <2>1. PmpInv
    BY PmpInitInv DEF Init
  <2>2. PmpTypeOK
    BY <2>1 DEF PmpInv, PmpTypeOK
  <2>3. QED
    BY <2>1, <2>2 DEF Init, ExcInit, TypeOK, NoRecord, Causes, CAUSE_MAX
<1>2. IInv /\ PmpInv /\ TypeOK /\ [Next]_vars => (PmpInv /\ TypeOK)'
  BY PmpInvStep, ExcTypeStep
<1>3. PmpInv /\ TypeOK => GuardsAsAsked
  BY DEF GuardsAsAsked, PmpInv, RegionIsAsAsked, LockedIsAsAsked, HalfWritten
<1>4. QED BY <1>1, <1>2, <1>3, InvHolds, PTL DEF Spec

\* The instructions from the entry to behind the one at pc are those before it
\* and that one: trap_insn_len, reading memory, steps as far as the hart does.
LEMMA OneMore ==
  ASSUME StepInv, Running, Code[pc].k # "ret", passed' = passed \cup {pc},
         entry' = entry, pc' \in {pc + Code[pc].len, pc + trap_insn_len(pc)}
  PROVE  /\ pc' \in DOMAIN Code /\ entry' \in Nat /\ entry' <= pc'
         /\ passed' = {a \in DOMAIN Code : entry' <= a /\ a < pc'}
<1> USE ExceptionsConstants DEF ExceptionsConstants
<1>1. pc \in DOMAIN Code /\ entry \in Nat /\ entry <= pc
      /\ passed = {a \in DOMAIN Code : entry <= a /\ a < pc}
  BY DEF StepInv, EachInstructionOnce, Running
<1>2. PICK len \in {1, 2} : len = Code[pc].len
  BY <1>1
<1>3. trap_insn_len(pc) = len
  BY <1>1, <1>2 DEF trap_insn_len
<1>4. pc' = pc + len /\ pc' \in DOMAIN Code /\ pc \in Nat
  BY <1>1, <1>2, <1>3
<1>5. \A a \in DOMAIN Code : a \in Nat /\ (a < pc + len <=> a < pc \/ a = pc)
  <2>1. SUFFICES ASSUME NEW a \in DOMAIN Code
                 PROVE  a \in Nat /\ (a < pc + len <=> a < pc \/ a = pc)
    OBVIOUS
  <2>2. a \in Nat OBVIOUS
  <2>3. len = 2 => a # pc + 1 BY <1>1, <1>2
  <2>4. QED BY ONLY <1>2, <1>4, <2>2, <2>3, SMT
<1>6. QED BY <1>1, <1>2, <1>4, <1>5

\* Whatever the code of a trigger, the policies and the expectation: each of its
\* instructions is executed or trapped at once, in order, and a trap resumes
\* behind the one that trapped (trap_skip_insn, trap_insn_len).
THEOREM TrapSkipsItsInstruction == Spec => []EachInstructionOnce
<1>1. Init => StepInv
  BY DEF Init, ExcInit, StepInv, EachInstructionOnce
<1>2. StepInv /\ [Next]_vars => StepInv'
  <2> SUFFICES ASSUME StepInv, [Next]_vars
               PROVE  StepInv'
    OBVIOUS
  <2> USE ExceptionsConstants DEF ExceptionsConstants, StepInv, EachInstructionOnce
  <2>1. CASE \E c \in Wanted, f \in Triggers : ExpectAndRun(c, f)
    <3>1. PICK f \in Triggers : /\ pc' = f /\ entry' = f /\ passed' = {}
      BY <2>1 DEF ExpectAndRun
    <3>2. f \in DOMAIN Code /\ f \in Nat
      OBVIOUS
    <3>3. \A a \in DOMAIN Code : ~(f <= a /\ a < f)
      BY <3>2
    <3>4. QED BY <3>1, <3>2, <3>3
  <2>2. CASE ApiCall /\ ~\E c \in Wanted, f \in Triggers : ExpectAndRun(c, f)
    BY <2>2 DEF ApiCall, ExceptionsInit, ExceptionSetAction,
                ExceptionSetHandler, Calls
  <2>3. CASE Execute
    <3>1. Running /\ passed' = passed \cup {pc} /\ entry' = entry
      BY <2>3 DEF Execute
    <3>2. CASE Code[pc].k = "ret"
      BY <2>3, <3>2 DEF Execute
    <3>3. CASE Code[pc].k # "ret"
      <4>1. pc' = pc + Code[pc].len BY <2>3, <3>3 DEF Execute
      <4>2. QED BY <3>1, <3>3, <4>1, OneMore
    <3>4. QED BY <3>2, <3>3
  <2>4. ASSUME NEW c \in Causes, TrapExpected(c) \/ TrapResumes(c)
        PROVE  StepInv'
    <3>1. Running /\ Raises(Code[pc]) # NONE /\ passed' = passed \cup {pc} /\ entry' = entry
      BY <2>4 DEF TrapExpected, TrapResumes, Traps
    <3>2. Code[pc].k # "ret"
      BY <3>1 DEF Raises
    <3>3. pc' = pc + trap_insn_len(pc)
      BY <2>4 DEF TrapExpected, TrapResumes, trap_skip_insn
    <3>4. QED BY <3>1, <3>2, <3>3, OneMore
  <2>5. ASSUME NEW c \in Causes, TrapFatal(c)
        PROVE  StepInv'
    BY <2>5 DEF TrapFatal
  <2>6. CASE Judge \/ DispatchInterrupt
    BY <2>6 DEF Judge, DispatchInterrupt
  <2>7. CASE PmpCall \/ UNCHANGED vars
    BY <2>7 DEF PmpCall, vars, excVars, testVars, history
  <2>8. QED BY <2>1, <2>2, <2>3, <2>4, <2>5, <2>6, <2>7 DEF Next, Hart
<1>3. StepInv => EachInstructionOnce
  BY DEF StepInv
<1>4. QED BY <1>1, <1>2, <1>3, PTL DEF Spec
=============================================================================
