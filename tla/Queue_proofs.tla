---------------------------- MODULE Queue_proofs ----------------------------
(* Proofs about a queue on the scheduler, for any length, either item size,   *)
(* any application, number of tasks and priorities, and any width of the tick *)
(* count.  The ring of queue.c is a first-in first-out queue whatever runs    *)
(* between two critical sections; the scheduler keeps its invariant under the *)
(* calls that wait; nobody sleeps beside an item or a free place; and no call *)
(* gives up before its time.                                                  *)
EXTENDS Queue, Kernel_proofs

-----------------------------------------------------------------------------
(* The ring as a sequence *)

\* Moving on from a position that has wrapped is moving on from the one that has
\* not (pcWriteTo and pcReadFrom).
LEMMA ModAdd ==
  ASSUME NEW m \in Nat \ {0}, NEW a \in Int, NEW b \in Int
  PROVE  ((a % m) + b) % m = (a + b) % m
<1>1. PICK d \in Int, r \in 0 .. m - 1 : r = a % m /\ a = m * d + r
  BY Turns, Zenon
<1>2. PICK e \in Int, s \in 0 .. m - 1 : s = (a + b) % m /\ a + b = m * e + s
  <2>1. a + b \in Int OBVIOUS
  <2>2. QED BY <2>1, Turns, Zenon
<1>3. PICK f \in Int, t \in 0 .. m - 1 : t = (r + b) % m /\ r + b = m * f + t
  <2>1. r + b \in Int OBVIOUS
  <2>2. QED BY <2>1, Turns, Zenon
<1>4. t = m * (e - d - f) + s
  <2>1. m * (e - d - f) = m * e - m * d - m * f OBVIOUS
  <2>2. m * e \in Int /\ m * d \in Int /\ m * f \in Int OBVIOUS
  <2>3. QED BY <1>1, <1>2, <1>3, <2>1, <2>2
<1>5. t = s
  BY <1>4, OneRest
<1>6. QED
  BY <1>1, <1>2, <1>3, <1>5

\* Two positions less than the length apart are different.
LEMMA ModDistinct ==
  ASSUME NEW m \in Nat \ {0}, NEW a \in Int, NEW b \in 1 .. m - 1
  PROVE  (a + b) % m # a % m
<1>1. PICK d \in Int, r \in 0 .. m - 1 : r = a % m /\ a = m * d + r
  BY Turns, Zenon
<1>2. PICK e \in Int, s \in 0 .. m - 1 : s = (a + b) % m /\ a + b = m * e + s
  <2>1. a + b \in Int OBVIOUS
  <2>2. QED BY <2>1, Turns, Zenon
<1>3. SUFFICES ASSUME r = s PROVE FALSE
  BY <1>1, <1>2
<1>4. b = m * (e - d) + 0
  <2>1. m * (e - d) = m * e - m * d OBVIOUS
  <2>2. m * e \in Int /\ m * d \in Int OBVIOUS
  <2>3. QED BY <1>1, <1>2, <1>3, <2>1, <2>2
<1>5. b = 0
  BY <1>4, OneRest
<1>6. QED
  BY <1>5

\* A position within the storage has not wrapped.
LEMMA ModWithin ==
  ASSUME NEW m \in Nat \ {0}, NEW a \in 0 .. m - 1
  PROVE  a % m = a
OBVIOUS

\* Storing at pcWriteTo: it stays one place behind the last item, and the place
\* it pointed to held none of the items.
LEMMA WritePlace ==
  ASSUME NEW m \in Nat \ {0}, NEW r \in 0 .. m - 1, NEW n \in 0 .. m - 1
  PROVE  /\ (((r + n + 1) % m) + 1) % m = (r + (n + 1) + 1) % m
         /\ \A j \in 1 .. n : (r + j) % m # (r + n + 1) % m
<1>1. (((r + n + 1) % m) + 1) % m = (r + (n + 1) + 1) % m
  <2>1. PICK a \in Int : a = r + n + 1 OBVIOUS
  <2>2. ((a % m) + 1) % m = (a + 1) % m
    <3>1. 1 \in Int OBVIOUS
    <3>2. QED BY <3>1, ModAdd, Zenon
  <2>3. a + 1 = r + (n + 1) + 1 BY <2>1
  <2>4. QED BY <2>1, <2>2, <2>3, Zenon
<1>2. ASSUME NEW j \in 1 .. n PROVE (r + j) % m # (r + n + 1) % m
  <2>1. PICK a \in Int : a = r + j OBVIOUS
  <2>2. n + 1 - j \in 1 .. m - 1 OBVIOUS
  <2>3. PICK b \in 1 .. m - 1 : b = n + 1 - j BY <2>2, Zenon
  <2>4. (a + b) % m # a % m BY ModDistinct
  <2>5. a + b = r + n + 1 BY <2>1, <2>3
  <2>6. QED BY <2>1, <2>4, <2>5
<1>3. QED
  BY <1>1, <1>2

\* Storing at pcReadFrom: the items follow one place later.
LEMMA FrontPlace ==
  ASSUME NEW m \in Nat \ {0}, NEW r \in 0 .. m - 1, NEW n \in 0 .. m - 1
  PROVE  /\ (r - 1) % m \in 0 .. m - 1
         /\ (((r - 1) % m) + (n + 1) + 1) % m = (r + n + 1) % m
         /\ \A j \in 1 .. n : (((r - 1) % m) + (j + 1)) % m = (r + j) % m
<1>0. PICK p : p = (r - 1) % m OBVIOUS
<1>1. PICK a \in Int : a = r - 1 OBVIOUS
<1>2. ASSUME NEW b \in Int PROVE (p + b) % m = (a + b) % m
  BY <1>0, <1>1, ModAdd
<1>3. p \in 0 .. m - 1
  BY <1>0, <1>1
<1>4. (p + (n + 1) + 1) % m = (r + n + 1) % m
  <2>1. PICK b \in Int : b = n + 2 OBVIOUS
  <2>2. p + (n + 1) + 1 = p + b /\ r + n + 1 = a + b BY <1>1, <1>3, <2>1
  <2>3. QED BY <1>2, <2>2
<1>5. ASSUME NEW j \in 1 .. n PROVE (p + (j + 1)) % m = (r + j) % m
  <2>1. PICK b \in Int : b = j + 1 OBVIOUS
  <2>2. a + b = r + j BY <1>1, <2>1
  <2>3. QED BY <1>2, <2>1, <2>2
<1>6. QED
  BY <1>0, <1>3, <1>4, <1>5

\* The place pcReadFrom points to holds none of the items of a queue with room,
\* and is the place behind the one before it.
LEMMA FrontFree ==
  ASSUME NEW m \in Nat \ {0}, NEW r \in 0 .. m - 1
  PROVE  /\ (((r - 1) % m) + 1) % m = r
         /\ \A j \in 1 .. m - 1 : (r + j) % m # r
<1>1. PICK a \in Int : a = r - 1 OBVIOUS
<1>2. r % m = r
  BY ModWithin
<1>3. ((a % m) + 1) % m = (a + 1) % m
  <2>1. 1 \in Int OBVIOUS
  <2>2. QED BY <2>1, ModAdd, Zenon
<1>4. (((r - 1) % m) + 1) % m = r
  BY <1>1, <1>2, <1>3
<1>5. ASSUME NEW j \in 1 .. m - 1 PROVE (r + j) % m # r
  <2>1. r \in Int OBVIOUS
  <2>2. (r + j) % m # r % m BY <2>1, ModDistinct, Zenon
  <2>3. QED BY <1>2, <2>2
<1>6. QED
  BY <1>4, <1>5

\* Reading behind pcReadFrom: the other items follow the new position.
LEMMA ReadPlace ==
  ASSUME NEW m \in Nat \ {0}, NEW r \in 0 .. m - 1, NEW n \in 1 .. m
  PROVE  /\ (r + 1) % m \in 0 .. m - 1
         /\ (((r + 1) % m) + (n - 1) + 1) % m = (r + n + 1) % m
         /\ \A j \in 1 .. n - 1 : (((r + 1) % m) + j) % m = (r + (j + 1)) % m
<1>0. PICK p : p = (r + 1) % m OBVIOUS
<1>1. PICK a \in Int : a = r + 1 OBVIOUS
<1>2. ASSUME NEW b \in Int PROVE (p + b) % m = (a + b) % m
  BY <1>0, <1>1, ModAdd
<1>3. p \in 0 .. m - 1
  BY <1>0, <1>1
<1>4. (p + (n - 1) + 1) % m = (r + n + 1) % m
  <2>1. p + (n - 1) + 1 = p + n /\ r + n + 1 = a + n BY <1>1, <1>3
  <2>2. n \in Int OBVIOUS
  <2>3. (p + n) % m = (a + n) % m BY <1>2, <2>2, Zenon
  <2>4. QED BY <2>1, <2>3, Zenon
<1>5. ASSUME NEW j \in 1 .. n - 1 PROVE (p + j) % m = (r + (j + 1)) % m
  <2>1. a + j = r + (j + 1) /\ j \in Int BY <1>1
  <2>2. (p + j) % m = (a + j) % m BY <1>2, <2>1, Zenon
  <2>3. QED BY <2>1, <2>2, Zenon
<1>6. QED
  BY <1>0, <1>3, <1>4, <1>5

-----------------------------------------------------------------------------
(* Sequences that differ in one item *)

\* A sequence longer by the item i at its end.
LEMMA IsAppend ==
  ASSUME NEW S, NEW s \in Seq(S), NEW u \in Seq(S), NEW i \in S,
         Len(u) = Len(s) + 1, u[Len(s) + 1] = i, \A j \in 1 .. Len(s) : u[j] = s[j]
  PROVE  u = Append(s, i)
<1>1. PICK v : v = Append(s, i) OBVIOUS
<1>2. PICK n \in Nat : n = Len(s) OBVIOUS
<1>3. v \in Seq(S) /\ Len(v) = n + 1 /\ v[n + 1] = i /\ (\A j \in 1 .. n : v[j] = s[j])
  <2>1. v \in Seq(S) BY <1>1, AppendProperties
  <2>2. Len(v) = n + 1 /\ v[n + 1] = i BY <1>1, <1>2, AppendProperties
  <2>3. \A j \in 1 .. n : v[j] = s[j] BY <1>1, <1>2, AppendProperties
  <2>4. QED BY <2>1, <2>2, <2>3
<1>4. ASSUME NEW j \in 1 .. n + 1 PROVE u[j] = v[j]
  <2>1. CASE j = n + 1 BY <1>2, <1>3, <2>1
  <2>2. CASE j \in 1 .. n BY <1>2, <1>3, <2>2
  <2>3. QED BY <2>1, <2>2
<1>5. u = v BY <1>2, <1>3, <1>4, SeqEqual
<1>6. QED BY <1>1, <1>5

\* A sequence longer by the item i at its head.
LEMMA IsPushed ==
  ASSUME NEW S, NEW s \in Seq(S), NEW u \in Seq(S), NEW i \in S,
         Len(u) = Len(s) + 1, u[1] = i, \A j \in 1 .. Len(s) : u[j + 1] = s[j]
  PROVE  u = <<i>> \o s
<1>1. PICK o : o = <<i>> OBVIOUS
<1>2. o \in Seq(S) /\ Len(o) = 1 /\ o[1] = i BY <1>1
<1>3. PICK v : v = o \o s OBVIOUS
<1>4. PICK n \in Nat : n = Len(s) OBVIOUS
<1>5. v \in Seq(S) /\ Len(v) = n + 1
      /\ (\A j \in 1 .. n + 1 : v[j] = IF j <= 1 THEN o[j] ELSE s[j - 1])
  <2>1. /\ v \in Seq(S) /\ Len(v) = Len(o) + Len(s)
        /\ \A j \in 1 .. Len(o) + Len(s) :
              v[j] = IF j <= Len(o) THEN o[j] ELSE s[j - Len(o)]
    BY <1>2, <1>3, ConcatProperties, Zenon
  <2>2. Len(o) + Len(s) = n + 1 BY <1>2, <1>4
  <2>3. QED BY <1>2, <2>1, <2>2
<1>6. ASSUME NEW j \in 1 .. n + 1 PROVE u[j] = v[j]
  <2>1. CASE j = 1 BY <1>2, <1>5, <2>1
  <2>2. CASE j # 1
    <3>1. PICK l \in 1 .. n : j = l + 1
      <4>1. j - 1 \in 1 .. n /\ j = (j - 1) + 1 BY <2>2
      <4>2. QED BY <4>1, Zenon
    <3>2. ~(j <= 1) /\ j - 1 = l BY <3>1
    <3>3. v[j] = s[l] BY <1>5, <3>2
    <3>4. u[j] = s[l] BY <1>4, <3>1
    <3>5. QED BY <3>3, <3>4
  <2>3. QED BY <2>1, <2>2
<1>7. u = v BY <1>4, <1>5, <1>6, SeqEqual
<1>8. QED BY <1>1, <1>3, <1>7

\* A sequence shorter by its head.
LEMMA IsTail ==
  ASSUME NEW S, NEW s \in Seq(S), NEW u \in Seq(S), s # <<>>,
         Len(u) = Len(s) - 1, \A j \in 1 .. Len(s) - 1 : u[j] = s[j + 1]
  PROVE  u = Tail(s)
<1>1. PICK v : v = Tail(s) OBVIOUS
<1>2. PICK n \in Nat : n = Len(s) - 1 BY EmptySeq, LenProperties
<1>3. v \in Seq(S) /\ Len(v) = n /\ (\A j \in 1 .. n : v[j] = s[j + 1])
  BY <1>1, <1>2, HeadTailProperties
<1>4. u = v BY <1>2, <1>3, SeqEqual
<1>5. QED BY <1>1, <1>4

-----------------------------------------------------------------------------
(* RingInv and Oldest for any queue x. *)
Sound(x) ==
  /\ DOMAIN x = QueueFields
  /\ x.length \in Nat \ {0} /\ x.size \in {0, 1} /\ x.n \in 0 .. x.length /\ x.got \in Item
  /\ x.read \in 0 .. x.length - 1 /\ x.write \in 0 .. x.length - 1
  /\ x.buf \in [0 .. x.length - 1 -> Item]
  /\ x.size = 1 => x.write = (x.read + x.n + 1) % x.length

ItemAt(x, j) == IF x.size = 0 THEN x.got ELSE x.buf[(x.read + j) % x.length]
Ring(x) == [j \in 1 .. x.n |-> ItemAt(x, j)]

\* The items of a sound ring are a sequence of as many items as it counts.
LEMMA RingIsSeq ==
  ASSUME NEW x, Sound(x)
  PROVE  /\ Ring(x) \in Seq(Item) /\ Len(Ring(x)) = x.n
         /\ \A j \in 1 .. x.n : Ring(x)[j] = ItemAt(x, j) /\ ItemAt(x, j) \in Item
<1>1. x.n \in Nat /\ x.length \in Nat \ {0} /\ x.read \in Int
  BY DEF Sound
<1>2. ASSUME NEW j \in 1 .. x.n PROVE ItemAt(x, j) \in Item
  <2>1. (x.read + j) % x.length \in 0 .. x.length - 1 BY <1>1
  <2>2. QED BY <2>1 DEF Sound, ItemAt
<1>3. Ring(x) \in [1 .. x.n -> Item]
  BY <1>2 DEF Ring
<1>4. Ring(x) \in Seq(Item) /\ Len(Ring(x)) = x.n
  <2> DEFINE r == Ring(x)
  <2> HIDE DEF r
  <2>1. r \in Seq(Item) /\ Len(r) = x.n
    BY <1>1, <1>3, SeqDef DEF r
  <2>2. QED BY <2>1 DEF r
<1>5. QED
  BY <1>2, <1>4 DEF Ring

\* Members of the queue other than the storage do not matter to the ring.
LEMMA RingSame ==
  ASSUME NEW x, NEW y, Sound(x), DOMAIN y = QueueFields,
         y.length = x.length, y.size = x.size, y.n = x.n, y.got = x.got,
         y.buf = x.buf, y.write = x.write, y.read = x.read
  PROVE  Sound(y) /\ Ring(y) = Ring(x)
BY DEF Sound, Ring, ItemAt

\* prvCopyDataToQueue at the back: the item becomes the last one.
LEMMA RingPut ==
  ASSUME NEW x, NEW y, NEW i \in Item, Sound(x), DOMAIN y = QueueFields,
         x.size = 1, x.n < x.length,
         y.length = x.length, y.size = x.size, y.n = x.n + 1, y.got = x.got,
         y.buf = [x.buf EXCEPT ![x.write] = i], y.write = (x.write + 1) % x.length,
         y.read = x.read
  PROVE  Sound(y) /\ Ring(y) = Append(Ring(x), i)
<1>0. PICK m \in Nat \ {0} : m = x.length BY DEF Sound
<1>1. /\ x.n \in 0 .. m /\ x.read \in 0 .. m - 1 /\ x.write \in 0 .. m - 1
      /\ x.write = (x.read + x.n + 1) % m
  BY <1>0 DEF Sound
<1>2. PICK r \in 0 .. m - 1, n \in 0 .. m - 1 : r = x.read /\ n = x.n
  BY <1>0, <1>1
<1>3. PICK e \in 0 .. m - 1 : e = (r + n + 1) % m /\ e = x.write
  BY <1>1, <1>2, Zenon
<1>4. (e + 1) % m = (r + (n + 1) + 1) % m /\ (\A j \in 1 .. n : (r + j) % m # e)
  <2>1. (((r + n + 1) % m) + 1) % m = (r + (n + 1) + 1) % m
        /\ \A j \in 1 .. n : (r + j) % m # (r + n + 1) % m
    BY WritePlace, ZenonT(40)
  <2>2. QED BY <1>3, <2>1, ZenonT(40)
<1>5. Sound(y)
  <2>1. (e + 1) % m \in 0 .. m - 1 BY <1>1
  <2>2. y.buf \in [0 .. m - 1 -> Item] BY <1>0, <1>3 DEF Sound
  <2>3. y.length = m /\ y.n \in 0 .. m BY <1>0, <1>1, <1>2
  <2>4. y.read = r /\ y.n = n + 1 /\ y.write = (e + 1) % m BY <1>0, <1>2, <1>3
  <2>5. y.write = (y.read + y.n + 1) % y.length BY <1>4, <2>3, <2>4
  <2>6. QED BY <1>1, <1>2, <2>1, <2>2, <2>3, <2>4, <2>5 DEF Sound
<1>6. ASSUME NEW j \in 1 .. n + 1
      PROVE  ItemAt(y, j) = IF j = n + 1 THEN i ELSE ItemAt(x, j)
  <2>1. ItemAt(y, j) = y.buf[(r + j) % m] /\ ItemAt(x, j) = x.buf[(r + j) % m]
    BY <1>0, <1>2 DEF ItemAt
  <2>2. PICK p \in 0 .. m - 1 : p = (r + j) % m BY <1>1, <1>2
  <2>3. x.buf \in [0 .. m - 1 -> Item] /\ y.buf = [x.buf EXCEPT ![e] = i]
    BY <1>0, <1>3 DEF Sound
  <2>4. CASE j = n + 1
    <3>1. r + j = r + n + 1 BY <1>2, <2>4
    <3>2. p = e BY <1>3, <2>2, <3>1
    <3>3. QED BY <2>1, <2>2, <2>3, <2>4, <3>2
  <2>5. CASE j # n + 1
    <3>1. j \in 1 .. n BY <1>2, <2>5
    <3>2. p # e BY <1>4, <2>2, <3>1
    <3>3. QED BY <2>1, <2>2, <2>3, <2>5, <3>2
  <2>6. QED BY <2>4, <2>5
<1>7. Ring(y) = Append(Ring(x), i)
  <2>1. PICK s : s = Ring(x) OBVIOUS
  <2>2. PICK u : u = Ring(y) OBVIOUS
  <2>3. s \in Seq(Item) /\ Len(s) = n /\ (\A j \in 1 .. n : s[j] = ItemAt(x, j))
    BY <1>2, <2>1, RingIsSeq
  <2>4. u \in Seq(Item) /\ Len(u) = n + 1 /\ (\A j \in 1 .. n + 1 : u[j] = ItemAt(y, j))
    BY <1>2, <1>5, <2>2, RingIsSeq
  <2>5. u[n + 1] = i
    BY <1>2, <1>6, <2>4
  <2>6. ASSUME NEW j \in 1 .. n PROVE u[j] = s[j]
    <3>1. j \in 1 .. n + 1 /\ j # n + 1 BY <1>2
    <3>2. QED BY <1>6, <2>3, <2>4, <3>1
  <2>7. u = Append(s, i) BY <2>3, <2>4, <2>5, <2>6, IsAppend
  <2>8. QED BY <2>1, <2>2, <2>7
<1>8. QED BY <1>5, <1>7

\* prvCopyDataToQueue at the front: the item becomes the first one.
LEMMA RingPutFront ==
  ASSUME NEW x, NEW y, NEW i \in Item, Sound(x), DOMAIN y = QueueFields,
         x.size = 1, x.n < x.length,
         y.length = x.length, y.size = x.size, y.n = x.n + 1, y.got = x.got,
         y.buf = [x.buf EXCEPT ![x.read] = i], y.read = (x.read - 1) % x.length,
         y.write = x.write
  PROVE  Sound(y) /\ Ring(y) = <<i>> \o Ring(x)
<1>0. PICK m \in Nat \ {0} : m = x.length BY DEF Sound
<1>1. /\ x.n \in 0 .. m /\ x.read \in 0 .. m - 1 /\ x.write \in 0 .. m - 1
      /\ x.write = (x.read + x.n + 1) % m
  BY <1>0 DEF Sound
<1>2. PICK r \in 0 .. m - 1, n \in 0 .. m - 1 : r = x.read /\ n = x.n
  BY <1>0, <1>1
<1>3. PICK p : p = (r - 1) % m OBVIOUS
<1>4. /\ p \in 0 .. m - 1
      /\ (p + (n + 1) + 1) % m = (r + n + 1) % m
      /\ (p + 1) % m = r
      /\ \A j \in 1 .. n : (p + (j + 1)) % m = (r + j) % m
      /\ \A j \in 1 .. n : (r + j) % m # r
  <2>1. /\ (r - 1) % m \in 0 .. m - 1
        /\ (((r - 1) % m) + (n + 1) + 1) % m = (r + n + 1) % m
        /\ \A j \in 1 .. n : (((r - 1) % m) + (j + 1)) % m = (r + j) % m
    BY FrontPlace, Zenon
  <2>2. /\ (((r - 1) % m) + 1) % m = r
        /\ \A j \in 1 .. m - 1 : (r + j) % m # r
    BY FrontFree, Zenon
  <2>3. \A j \in 1 .. n : j \in 1 .. m - 1 OBVIOUS
  <2>4. QED BY <1>3, <2>1, <2>2, <2>3, Zenon
<1>5. Sound(y)
  <2>1. y.buf \in [0 .. m - 1 -> Item] BY <1>0, <1>2 DEF Sound
  <2>2. y.length = m /\ y.n \in 0 .. m BY <1>0, <1>1, <1>2
  <2>3. y.read = p /\ y.n = n + 1 /\ y.write = (r + n + 1) % m
    BY <1>0, <1>1, <1>2, <1>3
  <2>4. y.write = (y.read + y.n + 1) % y.length BY <1>4, <2>2, <2>3
  <2>5. QED BY <1>1, <1>4, <2>1, <2>2, <2>3, <2>4 DEF Sound
<1>6. /\ x.buf \in [0 .. m - 1 -> Item] /\ y.buf = [x.buf EXCEPT ![r] = i]
      /\ y.length = m /\ y.read = p
  <2>1. x.buf \in [0 .. m - 1 -> Item] BY <1>0 DEF Sound
  <2>2. y.buf = [x.buf EXCEPT ![r] = i] BY <1>2
  <2>3. y.length = m BY <1>0
  <2>4. y.read = p BY <1>0, <1>2, <1>3
  <2>5. QED BY <2>1, <2>2, <2>3, <2>4
<1>7. ItemAt(y, 1) = i
  <2>1. (y.read + 1) % y.length = r BY <1>4, <1>6, Zenon
  <2>2. y.buf[r] = i BY <1>6, Zenon
  <2>3. y.size # 0 OBVIOUS
  <2>4. QED BY <2>1, <2>2, <2>3, Zenon DEF ItemAt
<1>8. ASSUME NEW j \in 1 .. n PROVE ItemAt(y, j + 1) = ItemAt(x, j)
  <2>1. PICK e \in 0 .. m - 1 : e = (r + j) % m BY <1>2
  <2>2. e # r /\ (p + (j + 1)) % m = e BY <1>4, <2>1
  <2>3. ItemAt(x, j) = x.buf[e] BY <1>0, <1>2, <2>1 DEF ItemAt
  <2>4. ItemAt(y, j + 1) = y.buf[e] BY <1>6, <2>2 DEF ItemAt
  <2>5. QED BY <1>6, <2>2, <2>3, <2>4
<1>9. Ring(y) = <<i>> \o Ring(x)
  <2>1. PICK s : s = Ring(x) OBVIOUS
  <2>2. PICK u : u = Ring(y) OBVIOUS
  <2>3. s \in Seq(Item) /\ Len(s) = n /\ (\A j \in 1 .. n : s[j] = ItemAt(x, j))
    BY <1>2, <2>1, RingIsSeq
  <2>4. u \in Seq(Item) /\ Len(u) = n + 1 /\ (\A j \in 1 .. n + 1 : u[j] = ItemAt(y, j))
    BY <1>2, <1>5, <2>2, RingIsSeq
  <2>5. u[1] = i
    BY <1>7, <2>4
  <2>6. ASSUME NEW j \in 1 .. n PROVE u[j + 1] = s[j]
    <3>1. j + 1 \in 1 .. n + 1 BY <1>2
    <3>2. QED BY <1>8, <2>3, <2>4, <3>1
  <2>7. u = <<i>> \o s BY <2>3, <2>4, <2>5, <2>6, IsPushed
  <2>8. QED BY <2>1, <2>2, <2>7
<1>10. QED BY <1>5, <1>9

\* xQueueOverwrite on a full queue of one item: that item is replaced.
LEMMA RingOverwrite ==
  ASSUME NEW x, NEW y, NEW i \in Item, Sound(x), DOMAIN y = QueueFields,
         x.size = 1, x.length = 1, x.n = 1,
         y.length = x.length, y.size = x.size, y.n = x.n, y.got = x.got,
         y.buf = [x.buf EXCEPT ![x.read] = i], y.read = (x.read - 1) % x.length,
         y.write = x.write
  PROVE  Sound(y) /\ Ring(y) = <<i>>
<1>1. x.read = 0 /\ x.write = 0 /\ x.buf \in [0 .. 0 -> Item]
  BY DEF Sound
<1>2. y.read = 0 /\ y.buf[0] = i /\ y.buf \in [0 .. 0 -> Item]
  BY <1>1
<1>3. Sound(y)
  BY <1>1, <1>2 DEF Sound
<1>4. ItemAt(y, 1) = i
  BY <1>2 DEF ItemAt
<1>5. PICK u : u = Ring(y) OBVIOUS
<1>6. u \in Seq(Item) /\ Len(u) = 1 /\ u[1] = i
  <2>1. /\ u \in Seq(Item) /\ Len(u) = y.n
        /\ \A j \in 1 .. y.n : u[j] = ItemAt(y, j) /\ ItemAt(y, j) \in Item
    BY <1>3, <1>5, RingIsSeq, Zenon
  <2>2. QED BY <1>4, <2>1
<1>7. PICK v : v = <<i>> OBVIOUS
<1>8. v \in Seq(Item) /\ Len(v) = 1 /\ v[1] = i
  BY <1>7
<1>9. u = v
  BY <1>6, <1>8, SeqEqual
<1>10. QED
  BY <1>3, <1>5, <1>7, <1>9

\* prvCopyDataFromQueue copies out the first item, and a receive removes it.
LEMMA RingTake ==
  ASSUME NEW x, NEW y, Sound(x), DOMAIN y = QueueFields, x.size = 1, x.n # 0,
         y.length = x.length, y.size = x.size, y.n = x.n - 1,
         y.got = x.buf[(x.read + 1) % x.length],
         y.buf = x.buf, y.read = (x.read + 1) % x.length, y.write = x.write
  PROVE  /\ Sound(y) /\ Ring(x) # <<>>
         /\ y.got = Head(Ring(x)) /\ Ring(y) = Tail(Ring(x))
<1>0. PICK m \in Nat \ {0} : m = x.length BY DEF Sound
<1>1. /\ x.n \in 0 .. m /\ x.read \in 0 .. m - 1 /\ x.write \in 0 .. m - 1
      /\ x.write = (x.read + x.n + 1) % m
  BY <1>0 DEF Sound
<1>2. PICK r \in 0 .. m - 1, n \in 1 .. m : r = x.read /\ n = x.n
  BY <1>0, <1>1
<1>3. PICK p : p = (r + 1) % m OBVIOUS
<1>4. /\ p \in 0 .. m - 1
      /\ (p + (n - 1) + 1) % m = (r + n + 1) % m
      /\ \A j \in 1 .. n - 1 : (p + j) % m = (r + (j + 1)) % m
  <2>1. /\ (r + 1) % m \in 0 .. m - 1
        /\ (((r + 1) % m) + (n - 1) + 1) % m = (r + n + 1) % m
        /\ \A j \in 1 .. n - 1 : (((r + 1) % m) + j) % m = (r + (j + 1)) % m
    BY ReadPlace, Zenon
  <2>2. QED BY <1>3, <2>1, Zenon
<1>5. Sound(y)
  <2>1. y.buf \in [0 .. m - 1 -> Item] /\ y.got = x.buf[p] BY <1>0, <1>2, <1>3 DEF Sound
  <2>2. y.length = m /\ y.n \in 0 .. m BY <1>0, <1>1, <1>2
  <2>3. y.read = p /\ y.n = n - 1 /\ y.write = (r + n + 1) % m
    BY <1>0, <1>1, <1>2, <1>3
  <2>4. y.write = (y.read + y.n + 1) % y.length BY <1>4, <2>2, <2>3
  <2>5. QED BY <1>1, <1>4, <2>1, <2>2, <2>3, <2>4 DEF Sound
<1>6. y.got = ItemAt(x, 1)
  BY DEF ItemAt
<1>7. ASSUME NEW j \in 1 .. n - 1 PROVE ItemAt(y, j) = ItemAt(x, j + 1)
  <2>1. (p + j) % m = (r + (j + 1)) % m BY <1>4
  <2>2. QED BY <1>0, <1>2, <1>3, <2>1 DEF ItemAt
<1>8. PICK s : s = Ring(x) OBVIOUS
<1>9. PICK u : u = Ring(y) OBVIOUS
<1>10. s \in Seq(Item) /\ Len(s) = n /\ (\A j \in 1 .. n : s[j] = ItemAt(x, j))
  BY <1>2, <1>8, RingIsSeq
<1>11. u \in Seq(Item) /\ Len(u) = n - 1 /\ (\A j \in 1 .. n - 1 : u[j] = ItemAt(y, j))
  BY <1>2, <1>5, <1>9, RingIsSeq
<1>12. s # <<>> /\ y.got = Head(s)
  <2>1. s # <<>> BY <1>2, <1>10
  <2>2. Head(s) = s[1] BY <1>10, <2>1
  <2>3. QED BY <1>6, <1>10, <2>1, <2>2
<1>13. ASSUME NEW j \in 1 .. n - 1 PROVE u[j] = s[j + 1]
  <2>1. j + 1 \in 1 .. n BY <1>2
  <2>2. QED BY <1>7, <1>10, <1>11, <2>1
<1>14. u = Tail(s)
  BY <1>10, <1>11, <1>12, <1>13, IsTail
<1>15. QED
  BY <1>5, <1>8, <1>9, <1>12, <1>14

\* A peek copies the first item out and leaves the ring as it was.
LEMMA RingLook ==
  ASSUME NEW x, NEW y, Sound(x), DOMAIN y = QueueFields, x.size = 1, x.n # 0,
         y.length = x.length, y.size = x.size, y.n = x.n,
         y.got = x.buf[(x.read + 1) % x.length],
         y.buf = x.buf, y.read = x.read, y.write = x.write
  PROVE  /\ Sound(y) /\ Ring(x) # <<>>
         /\ y.got = Head(Ring(x)) /\ Ring(y) = Ring(x)
<1>1. (x.read + 1) % x.length \in 0 .. x.length - 1
  BY DEF Sound
<1>2. Sound(y)
  <2>1. y.got \in Item BY <1>1 DEF Sound
  <2>2. QED BY <2>1 DEF Sound
<1>3. Ring(y) = Ring(x)
  BY DEF Ring, ItemAt
<1>4. y.got = ItemAt(x, 1)
  BY DEF ItemAt
<1>5. PICK s : s = Ring(x) OBVIOUS
<1>6. s \in Seq(Item) /\ Len(s) = x.n /\ (\A j \in 1 .. x.n : s[j] = ItemAt(x, j))
  BY <1>5, RingIsSeq
<1>7. x.n \in Nat
  BY DEF Sound
<1>8. s # <<>> /\ y.got = Head(s)
  <2>1. s # <<>> BY <1>6, <1>7
  <2>2. Head(s) = s[1] /\ 1 \in 1 .. x.n BY <1>6, <1>7, <2>1
  <2>3. QED BY <1>4, <1>6, <2>1, <2>2
<1>9. QED
  BY <1>2, <1>3, <1>5, <1>8

\* A semaphore counts: a give is a put of the one item there is.
LEMMA RingGive ==
  ASSUME NEW x, NEW y, Sound(x), DOMAIN y = QueueFields, x.size = 0, x.n < x.length,
         y.length = x.length, y.size = x.size, y.n = x.n + 1, y.got = x.got,
         y.buf = x.buf, y.read = x.read, y.write = x.write
  PROVE  Sound(y) /\ Ring(y) = Append(Ring(x), x.got)
<1>1. Sound(y)
  BY DEF Sound
<1>2. x.n \in Nat /\ x.got \in Item
  BY DEF Sound
<1>3. PICK s : s = Ring(x) OBVIOUS
<1>4. PICK u : u = Ring(y) OBVIOUS
<1>5. s \in Seq(Item) /\ Len(s) = x.n /\ (\A j \in 1 .. x.n : s[j] = x.got)
  BY <1>3, RingIsSeq DEF ItemAt
<1>6. u \in Seq(Item) /\ Len(u) = x.n + 1 /\ (\A j \in 1 .. x.n + 1 : u[j] = x.got)
  BY <1>1, <1>4, RingIsSeq DEF ItemAt
<1>7. u = Append(s, x.got)
  BY <1>2, <1>5, <1>6, IsAppend
<1>8. QED
  BY <1>1, <1>3, <1>4, <1>7

\* A take is a receive of the one item there is.
LEMMA RingSemTake ==
  ASSUME NEW x, NEW y, Sound(x), DOMAIN y = QueueFields, x.size = 0, x.n # 0,
         y.length = x.length, y.size = x.size, y.n = x.n - 1, y.got = x.got,
         y.buf = x.buf, y.read = x.read, y.write = x.write
  PROVE  /\ Sound(y) /\ Ring(x) # <<>>
         /\ y.got = Head(Ring(x)) /\ Ring(y) = Tail(Ring(x))
<1>1. Sound(y)
  BY DEF Sound
<1>2. x.n \in Nat \ {0} /\ x.got \in Item
  BY DEF Sound
<1>3. PICK s : s = Ring(x) OBVIOUS
<1>4. PICK u : u = Ring(y) OBVIOUS
<1>5. s \in Seq(Item) /\ Len(s) = x.n /\ (\A j \in 1 .. x.n : s[j] = x.got)
  BY <1>3, RingIsSeq DEF ItemAt
<1>6. u \in Seq(Item) /\ Len(u) = x.n - 1 /\ (\A j \in 1 .. x.n - 1 : u[j] = x.got)
  BY <1>1, <1>4, RingIsSeq DEF ItemAt
<1>7. s # <<>> /\ y.got = Head(s)
  <2>1. s # <<>> BY <1>2, <1>5
  <2>2. Head(s) = s[1] /\ 1 \in 1 .. x.n BY <1>2, <1>5, <2>1
  <2>3. QED BY <1>5, <2>1, <2>2
<1>8. u = Tail(s)
  <2>1. ASSUME NEW j \in 1 .. Len(s) - 1 PROVE u[j] = s[j + 1]
    <3>1. j \in 1 .. x.n - 1 /\ j + 1 \in 1 .. x.n BY <1>2, <1>5
    <3>2. QED BY <1>5, <1>6, <3>1
  <2>2. QED BY <1>5, <1>6, <1>7, <2>1, IsTail
<1>9. QED
  BY <1>1, <1>3, <1>4, <1>7, <1>8

\* xQueueGenericReset empties the ring.
LEMMA RingClear ==
  ASSUME NEW x, NEW y, Sound(x), DOMAIN y = QueueFields,
         y.length = x.length, y.size = x.size, y.n = 0, y.got = x.got,
         y.buf = x.buf, y.read = x.length - 1, y.write = 0
  PROVE  Sound(y) /\ Ring(y) = <<>>
<1>0. PICK m \in Nat \ {0} : m = x.length BY DEF Sound
<1>1. m % m = 0
  BY ModAdd
<1>2. Sound(y)
  <2>1. y.read + y.n + 1 = m BY <1>0
  <2>2. y.write = (y.read + y.n + 1) % y.length BY <1>0, <1>1, <2>1
  <2>3. y.length \in Nat \ {0} /\ y.n \in 0 .. y.length /\ y.read \in 0 .. y.length - 1
        /\ y.write \in 0 .. y.length - 1
    BY <1>0
  <2>4. QED BY <2>2, <2>3 DEF Sound
<1>3. PICK u : u = Ring(y) OBVIOUS
<1>4. u \in Seq(Item) /\ Len(u) = 0
  BY <1>2, <1>3, RingIsSeq
<1>5. u = <<>>
  BY <1>4, EmptySeq
<1>6. QED
  BY <1>2, <1>3, <1>5

-----------------------------------------------------------------------------
(* The operations on the queue *)

(* What a first-in first-out queue may do between two queues x and y. *)
FifoStep(x, y) ==
  \/ Ring(y) = Ring(x) /\ y.got = x.got
  \/ /\ x.n < x.length /\ y.got = x.got
     /\ \E i \in Item : Ring(y) = Append(Ring(x), i) \/ Ring(y) = <<i>> \o Ring(x)
  \/ x.length = 1 /\ y.got = x.got /\ \E i \in Item : Ring(y) = <<i>>
  \/ /\ Ring(x) # <<>> /\ y.got = Head(Ring(x))
     /\ Ring(y) = Tail(Ring(x)) \/ Ring(y) = Ring(x)
  \/ Ring(y) = <<>> /\ y.got = x.got

Good(x, y) == Sound(y) /\ y.length = x.length /\ y.size = x.size /\ FifoStep(x, y)

\* A step that leaves the storage alone, the locks and the reset mark apart.
LEMMA GoodSame ==
  ASSUME NEW x, NEW y, Sound(x), DOMAIN y = QueueFields,
         y.length = x.length, y.size = x.size, y.n = x.n, y.got = x.got,
         y.buf = x.buf, y.write = x.write, y.read = x.read
  PROVE  Good(x, y)
BY RingSame DEF Good, FifoStep

\* An interrupt counts a wake-up to make up for along with what it stores.
LEMMA GoodThenSame ==
  ASSUME NEW x, NEW y, NEW z, Good(x, y), DOMAIN z = QueueFields,
         z.length = y.length, z.size = y.size, z.n = y.n, z.got = y.got,
         z.buf = y.buf, z.write = y.write, z.read = y.read
  PROVE  Good(x, z)
<1>1. Sound(z) /\ Ring(z) = Ring(y)
  BY RingSame DEF Good
<1>2. QED
  BY <1>1 DEF Good, FifoStep

\* prvCopyDataToQueue, with room in the queue or overwriting its one item.
LEMMA CopyToIsGood ==
  ASSUME Sound(q), NEW i \in Item, NEW position \in {"back", "front", "overwrite"},
         position = "overwrite" => q.length = 1,
         position # "overwrite" => q.n # q.length,
         q.size = 0 => position = "back"
  PROVE  Good(q, prvCopyDataToQueue(i, position))
<1>1. PICK x : x = q OBVIOUS
<1>2. PICK y : y = prvCopyDataToQueue(i, position) OBVIOUS
<1>3. DOMAIN x = QueueFields /\ Sound(x) /\ x.size \in {0, 1} /\ x.n \in 0 .. x.length
      /\ x.length \in Nat /\ x.got \in Item
  BY <1>1 DEF Sound
<1>4. SUFFICES Good(x, y)
  BY <1>1, <1>2
<1>5. CASE x.size = 0
  <2>1. y = [x EXCEPT !.n = @ + 1]
    BY <1>1, <1>2, <1>5 DEF prvCopyDataToQueue
  <2>2. /\ DOMAIN y = QueueFields /\ y.length = x.length /\ y.size = x.size
        /\ y.n = x.n + 1 /\ y.got = x.got
        /\ y.buf = x.buf /\ y.read = x.read /\ y.write = x.write
    BY <1>3, <2>1 DEF QueueFields
  <2>3. x.n < x.length
    BY <1>1, <1>3, <1>5
  <2>4. Sound(y) /\ Ring(y) = Append(Ring(x), x.got)
    BY <1>3, <1>5, <2>2, <2>3, RingGive
  <2>5. QED BY <1>3, <2>2, <2>3, <2>4, Zenon DEF Good, FifoStep
<1>6. CASE x.size = 1 /\ position = "back"
  <2>1. y = [[x EXCEPT !.buf[x.write] = i, !.write = (@ + 1) % x.length] EXCEPT !.n = @ + 1]
    BY <1>1, <1>2, <1>6 DEF prvCopyDataToQueue
  <2>2. /\ DOMAIN y = QueueFields /\ y.length = x.length /\ y.size = x.size
        /\ y.n = x.n + 1 /\ y.got = x.got
        /\ y.buf = [x.buf EXCEPT ![x.write] = i]
        /\ y.read = x.read /\ y.write = (x.write + 1) % x.length
    BY <1>3, <2>1 DEF QueueFields
  <2>3. x.n < x.length
    BY <1>1, <1>3, <1>6
  <2>4. Sound(y) /\ Ring(y) = Append(Ring(x), i)
    <3>1. Sound(x) /\ x.size = 1 BY <1>3, <1>6
    <3>2. QED BY <2>2, <2>3, <3>1, RingPut
  <2>5. QED BY <1>3, <2>2, <2>3, <2>4, Zenon DEF Good, FifoStep
<1>7. CASE x.size = 1 /\ position # "back" /\ x.n < x.length
  <2>0. PICK f : f = [x EXCEPT !.buf[x.read] = i, !.read = (@ - 1) % x.length] OBVIOUS
  <2>1. y = [f EXCEPT !.n = x.n + 1]
    <3>1. position = "overwrite" => ~(x.n > 0)
      BY <1>1, <1>3, <1>7
    <3>2. y = [f EXCEPT !.n = IF x.size # 0 /\ position = "overwrite" /\ @ > 0
                              THEN @ ELSE @ + 1]
      BY <1>1, <1>2, <1>7, <2>0 DEF prvCopyDataToQueue
    <3>3. f.n = x.n
      BY <1>3, <2>0 DEF QueueFields
    <3>4. QED BY <3>1, <3>2, <3>3
  <2>2. /\ DOMAIN y = QueueFields /\ y.length = x.length /\ y.size = x.size
        /\ y.n = x.n + 1 /\ y.got = x.got
        /\ y.buf = [x.buf EXCEPT ![x.read] = i]
        /\ y.write = x.write /\ y.read = (x.read - 1) % x.length
    BY <1>3, <2>0, <2>1 DEF QueueFields
  <2>3. Sound(y) /\ Ring(y) = <<i>> \o Ring(x)
    BY <1>3, <1>7, <2>2, RingPutFront
  <2>4. QED BY <1>3, <1>7, <2>2, <2>3, Zenon DEF Good, FifoStep
<1>8. CASE x.size = 1 /\ position # "back" /\ ~(x.n < x.length)
  <2>1. position = "overwrite" /\ x.length = 1 /\ x.n = 1
    BY <1>1, <1>3, <1>8
  <2>0. PICK f : f = [x EXCEPT !.buf[x.read] = i, !.read = (@ - 1) % x.length] OBVIOUS
  <2>2. y = [f EXCEPT !.n = x.n]
    <3>1. y = [f EXCEPT !.n = IF x.size # 0 /\ position = "overwrite" /\ @ > 0
                              THEN @ ELSE @ + 1]
      BY <1>1, <1>2, <1>8, <2>0 DEF prvCopyDataToQueue
    <3>2. f.n = x.n
      BY <1>3, <2>0 DEF QueueFields
    <3>3. QED BY <1>8, <2>1, <3>1, <3>2
  <2>3. /\ DOMAIN y = QueueFields /\ y.length = x.length /\ y.size = x.size
        /\ y.n = x.n /\ y.got = x.got
        /\ y.buf = [x.buf EXCEPT ![x.read] = i]
        /\ y.write = x.write /\ y.read = (x.read - 1) % x.length
    BY <1>3, <2>0, <2>2 DEF QueueFields
  <2>4. Sound(y) /\ Ring(y) = <<i>>
    BY <1>3, <1>8, <2>1, <2>3, RingOverwrite
  <2>5. QED BY <1>3, <2>1, <2>3, <2>4, Zenon DEF Good, FifoStep
<1>9. QED
  BY <1>3, <1>5, <1>6, <1>7, <1>8

\* A receive, of a task or of an interrupt, from a queue that is not empty.
LEMMA ReceiveIsGood ==
  ASSUME Sound(q), q.n # 0
  PROVE  Good(q, [prvCopyDataFromQueue EXCEPT !.n = @ - 1])
<1>1. PICK x : x = q OBVIOUS
<1>2. PICK y : y = [prvCopyDataFromQueue EXCEPT !.n = @ - 1] OBVIOUS
<1>3. DOMAIN x = QueueFields /\ Sound(x) /\ x.size \in {0, 1} /\ x.n # 0
  BY <1>1 DEF Sound
<1>4. SUFFICES Good(x, y)
  BY <1>1, <1>2
<1>5. CASE x.size = 0
  <2>1. y = [x EXCEPT !.n = @ - 1]
    BY <1>1, <1>2, <1>5 DEF prvCopyDataFromQueue
  <2>2. /\ DOMAIN y = QueueFields /\ y.length = x.length /\ y.size = x.size
        /\ y.n = x.n - 1 /\ y.got = x.got
        /\ y.buf = x.buf /\ y.read = x.read /\ y.write = x.write
    BY <1>3, <2>1 DEF QueueFields
  <2>3. /\ Sound(y) /\ Ring(x) # <<>>
        /\ y.got = Head(Ring(x)) /\ Ring(y) = Tail(Ring(x))
    BY <1>3, <1>5, <2>2, RingSemTake
  <2>4. QED BY <2>2, <2>3, Zenon DEF Good, FifoStep
<1>6. CASE x.size = 1
  <2>1. y = [[x EXCEPT !.read = (x.read + 1) % x.length,
                       !.got = x.buf[(x.read + 1) % x.length]] EXCEPT !.n = @ - 1]
    BY <1>1, <1>2, <1>6 DEF prvCopyDataFromQueue
  <2>2. /\ DOMAIN y = QueueFields /\ y.length = x.length /\ y.size = x.size
        /\ y.n = x.n - 1 /\ y.got = x.buf[(x.read + 1) % x.length]
        /\ y.buf = x.buf /\ y.read = (x.read + 1) % x.length /\ y.write = x.write
    BY <1>3, <2>1 DEF QueueFields
  <2>3. /\ Sound(y) /\ Ring(x) # <<>>
        /\ y.got = Head(Ring(x)) /\ Ring(y) = Tail(Ring(x))
    BY <1>3, <1>6, <2>2, RingTake
  <2>4. QED BY <2>2, <2>3, Zenon DEF Good, FifoStep
<1>7. QED
  BY <1>3, <1>5, <1>6

\* A peek at a queue that is not empty.
LEMMA PeekIsGood ==
  ASSUME Sound(q), q.n # 0, q.size = 1
  PROVE  Good(q, [prvCopyDataFromQueue EXCEPT !.read = q.read])
<1>1. PICK x : x = q OBVIOUS
<1>2. PICK y : y = [prvCopyDataFromQueue EXCEPT !.read = q.read] OBVIOUS
<1>3. DOMAIN x = QueueFields /\ Sound(x) /\ x.size = 1 /\ x.n # 0
  BY <1>1 DEF Sound
<1>4. SUFFICES Good(x, y)
  BY <1>1, <1>2
<1>5. y = [[x EXCEPT !.read = (x.read + 1) % x.length,
                     !.got = x.buf[(x.read + 1) % x.length]] EXCEPT !.read = x.read]
  BY <1>1, <1>2, <1>3 DEF prvCopyDataFromQueue
<1>6. /\ DOMAIN y = QueueFields /\ y.length = x.length /\ y.size = x.size
      /\ y.n = x.n /\ y.got = x.buf[(x.read + 1) % x.length]
      /\ y.buf = x.buf /\ y.read = x.read /\ y.write = x.write
  BY <1>3, <1>5 DEF QueueFields
<1>7. /\ Sound(y) /\ Ring(x) # <<>>
      /\ y.got = Head(Ring(x)) /\ Ring(y) = Ring(x)
  BY <1>3, <1>6, RingLook
<1>8. QED
  BY <1>6, <1>7, Zenon DEF Good, FifoStep

\* The first critical section of a lawful call on a queue that is ready for it.
LEMMA DoneIsGood ==
  ASSUME Sound(q), NEW c, Lawful(c), ~NotReady(c)
  PROVE  Good(q, Done(c))
<1>1. CASE Sends(c)
  <2>1. Done(c) = prvCopyDataToQueue(c.item, c.call)
    BY <1>1 DEF Done, Sends
  <2>2. c.item \in Item /\ c.call \in {"back", "front", "overwrite"}
    BY <1>1 DEF Sends, Lawful
  <2>3. (c.call = "overwrite" => q.length = 1) /\ (q.size = 0 => c.call = "back")
    BY <1>1 DEF Sends, Lawful
  <2>4. c.call # "overwrite" => q.n # q.length
    BY <1>1 DEF NotReady, prvIsQueueFull
  <2>5. QED BY <2>1, <2>2, <2>3, <2>4, CopyToIsGood
<1>2. CASE ~Sends(c) /\ c.call = "receive"
  <2>1. Done(c) = [prvCopyDataFromQueue EXCEPT !.n = @ - 1]
    BY <1>2 DEF Done
  <2>2. q.n # 0
    BY <1>2 DEF NotReady, prvIsQueueEmpty
  <2>3. QED BY <2>1, <2>2, ReceiveIsGood
<1>3. CASE ~Sends(c) /\ c.call = "peek"
  <2>1. Done(c) = [prvCopyDataFromQueue EXCEPT !.read = q.read]
    BY <1>3 DEF Done
  <2>2. q.n # 0 /\ q.size = 1
    BY <1>3 DEF NotReady, prvIsQueueEmpty, Lawful, Sound
  <2>3. QED BY <2>1, <2>2, PeekIsGood
<1>4. QED
  BY <1>1, <1>2, <1>3 DEF Lawful, Sends

-----------------------------------------------------------------------------
(* The calls *)

\* One task moves on in its call, to place p with the variables d.
LEMMA CallMoves ==
  ASSUME CallInv, NEW t \in Task, Good(q, q'),
         NEW p, pc' = [pc EXCEPT ![t] = p], NEW d, w' = [w EXCEPT ![t] = d],
         p[1] \in Calling => DOMAIN d = CallFields /\ Lawful(d)
  PROVE  CallInv'
<1>1. q'.length = q.length /\ q'.size = q.size
  BY DEF Good
<1>2. DOMAIN w' = Task /\ DOMAIN pc' = Task
  BY DEF CallInv
<1>3. ASSUME NEW u \in Task, pc'[u][1] \in Calling
      PROVE  DOMAIN w'[u] = CallFields /\ Lawful(w'[u])
  <2>1. CASE u = t
    <3>1. w'[u] = d /\ pc'[u] = p BY <2>1 DEF CallInv
    <3>2. QED BY <1>3, <3>1
  <2>2. CASE u # t
    <3>1. w'[u] = w[u] /\ pc'[u] = pc[u] BY <2>2 DEF CallInv
    <3>2. QED BY <1>3, <3>1 DEF CallInv
  <2>3. QED BY <2>1, <2>2
<1>4. ASSUME NEW u \in Task, pc'[u][1] \in Calling
      PROVE  DOMAIN w'[u] = CallFields /\ Lawful(w[u])'
  BY <1>1, <1>3, <1>4 DEF Lawful
<1>5. QED
  BY <1>2, <1>4 DEF CallInv

\* No task enters or moves on in a call of queue.c.
LEMMA CallsStay ==
  ASSUME CallInv, Good(q, q'), DOMAIN pc' = Task, DOMAIN w' = Task,
         \A u \in Task : pc'[u][1] \in Calling => pc'[u] = pc[u],
         \A u \in Task : DOMAIN w[u] = CallFields =>
           DOMAIN w'[u] = CallFields /\ w'[u].call = w[u].call /\ w'[u].item = w[u].item
  PROVE  CallInv'
<1>1. q'.length = q.length /\ q'.size = q.size
  BY DEF Good
<1>2. ASSUME NEW u \in Task, pc'[u][1] \in Calling
      PROVE  DOMAIN w'[u] = CallFields /\ Lawful(w[u])'
  <2>1. DOMAIN w[u] = CallFields /\ Lawful(w[u]) BY <1>2 DEF CallInv
  <2>2. DOMAIN w'[u] = CallFields /\ w'[u].call = w[u].call /\ w'[u].item = w[u].item
    BY <2>1
  <2>3. QED BY <1>1, <2>1, <2>2 DEF Lawful
<1>3. QED
  BY <1>2 DEF CallInv

\* The storage stays as it is.
LEMMA GoodStutter ==
  ASSUME Sound(q), q' = q
  PROVE  Good(q, q')
<1>1. DOMAIN q' = QueueFields
  BY DEF Sound
<1>2. QED
  BY <1>1, GoodSame

\* Locking and unlocking the queue leaves its storage alone.
LEMMA GoodLocked ==
  ASSUME Sound(q), NEW tx, NEW rx, NEW y,
         y = [q EXCEPT !.tx = tx, !.rx = rx]
  PROVE  Good(q, y)
<1>1. PICK x : x = q OBVIOUS
<1>2. /\ DOMAIN y = QueueFields /\ y.length = x.length /\ y.size = x.size /\ y.n = x.n
      /\ y.got = x.got /\ y.buf = x.buf /\ y.write = x.write /\ y.read = x.read
  BY <1>1 DEF Sound, QueueFields
<1>3. QED
  BY <1>1, <1>2, GoodSame

\* The first critical section of a call: it does what it was asked, fails at
\* once, or goes on to wait.
LEMMA TryIsGood ==
  ASSUME Sound(q), CallInv, NEW t \in Task, NEW c, DOMAIN c = CallFields, Lawful(c), Try(t, c)
  PROVE  Good(q, q') /\ CallInv'
<1>1. CASE ~NotReady(c)
  <2>1. q' = Done(c) /\ pc' = [pc EXCEPT ![t] = <<"run", 0>>] /\ w' = [w EXCEPT ![t] = NoCall]
    BY <1>1 DEF Try, Goto
  <2>2. Good(q, q')
    BY <1>1, <2>1, DoneIsGood
  <2>3. PICK p : p = <<"run", 0>> OBVIOUS
  <2>4. p[1] \notin Calling
    BY <2>3 DEF Calling
  <2>5. CallInv'
    BY <2>1, <2>2, <2>3, <2>4, CallMoves
  <2>6. QED BY <2>2, <2>5
<1>2. CASE NotReady(c) /\ c.ticks = 0
  <2>1. q' = q /\ pc' = [pc EXCEPT ![t] = <<"failed", 0>>] /\ w' = [w EXCEPT ![t] = c]
    BY <1>2 DEF Try, Goto
  <2>2. Good(q, q')
    BY <2>1, GoodStutter
  <2>3. CallInv'
    BY <2>1, <2>2, CallMoves
  <2>4. QED BY <2>2, <2>3
<1>3. CASE NotReady(c) /\ c.ticks # 0
  <2>1. PICK d : d = IF c.set = 1 THEN c ELSE [vTaskInternalSetTimeOutState(c) EXCEPT !.set = 1]
    OBVIOUS
  <2>2. q' = q /\ pc' = [pc EXCEPT ![t] = <<"suspend_all", 0>>] /\ w' = [w EXCEPT ![t] = d]
    BY <1>3, <2>1 DEF Try, Goto
  <2>3. DOMAIN d = CallFields /\ d.call = c.call /\ d.item = c.item
    BY <2>1 DEF vTaskInternalSetTimeOutState, CallFields
  <2>4. Lawful(d)
    BY <2>3 DEF Lawful
  <2>5. Good(q, q')
    BY <2>2, GoodStutter
  <2>6. CallInv'
    BY <2>2, <2>3, <2>4, <2>5, CallMoves
  <2>7. QED BY <2>5, <2>6
<1>4. QED
  BY <1>1, <1>2, <1>3

\* A task in the middle of a call has its arguments.
LEMMA InCall ==
  ASSUME CallInv, NEW t \in Task, pc[t][1] \in Calling
  PROVE  DOMAIN w[t] = CallFields /\ Lawful(w[t])
BY DEF CallInv

\* A step of a task in a call of queue.c.
LEMMA QueueStepIsGood ==
  ASSUME app \in Apps, Sound(q), CallInv, NEW t \in Task, QueueStep(t)
  PROVE  Good(q, q') /\ CallInv'
<1>1. CASE TryAgain(t)
  <2>1. pc[t][1] \in Calling /\ Try(t, w[t])
    BY <1>1 DEF TryAgain, At, Calling
  <2>2. DOMAIN w[t] = CallFields /\ Lawful(w[t])
    BY <2>1, InCall
  <2>3. PICK c : c = w[t] OBVIOUS
  <2>4. DOMAIN c = CallFields /\ Lawful(c) /\ Try(t, c)
    BY <2>1, <2>2, <2>3
  <2>5. QED BY <2>4, TryIsGood
<1>2. CASE Fails(t)
  <2>1. q' = q /\ pc' = [pc EXCEPT ![t] = <<"run", 0>>] /\ w' = [w EXCEPT ![t] = NoCall]
    BY <1>2 DEF Fails, Goto
  <2>2. PICK p : p = <<"run", 0>> OBVIOUS
  <2>3. p[1] \notin Calling
    BY <2>2 DEF Calling
  <2>4. Good(q, q')
    BY <2>1, GoodStutter
  <2>5. CallInv'
    BY <2>1, <2>2, <2>3, <2>4, CallMoves
  <2>6. QED BY <2>4, <2>5
<1>3. ASSUME NEW p, pc' = [pc EXCEPT ![t] = p], pc[t][1] \in Calling,
             w' = w, Good(q, q')
      PROVE  Good(q, q') /\ CallInv'
  <2>1. DOMAIN w[t] = CallFields /\ Lawful(w[t])
    BY <1>3, InCall
  <2>2. q'.length = q.length /\ q'.size = q.size
    BY <1>3 DEF Good
  <2>3. ASSUME NEW u \in Task, pc'[u][1] \in Calling
        PROVE  DOMAIN w'[u] = CallFields /\ Lawful(w[u])'
    <3>1. DOMAIN w[u] = CallFields /\ Lawful(w[u])
      BY <1>3, <2>1, <2>3 DEF CallInv
    <3>2. w'[u] = w[u] BY <1>3
    <3>3. QED BY <2>2, <3>1, <3>2 DEF Lawful
  <2>4. CallInv'
    BY <1>3, <2>3 DEF CallInv
  <2>5. QED BY <1>3, <2>4
<1>4. CASE QueueSuspendsAll(t)
  <2>1. q' = q /\ pc' = [pc EXCEPT ![t] = <<"lock", 0>>] /\ w' = w /\ pc[t][1] \in Calling
    BY <1>4 DEF QueueSuspendsAll, Goto, At, Calling
  <2>2. Good(q, q')
    BY <2>1, GoodStutter
  <2>3. QED BY <1>3, <2>1, <2>2
<1>5. CASE LockAndCheck(t)
  <2>1. pc[t][1] \in Calling /\ q' = prvLockQueue
    BY <1>5 DEF LockAndCheck, At, Calling
  <2>2. Good(q, q')
    <3>1. PICK tx, rx : q' = [q EXCEPT !.tx = tx, !.rx = rx]
      BY <2>1 DEF prvLockQueue
    <3>2. QED BY <3>1, GoodLocked
  <2>3. DOMAIN w[t] = CallFields /\ Lawful(w[t])
    BY <2>1, InCall
  <2>4. PICK c : c = w[t] OBVIOUS
  <2>5. PICK r : r = xTaskCheckForTimeOut(k, c) OBVIOUS
  <2>6. DOMAIN r.w = CallFields /\ r.w.call = c.call /\ r.w.item = c.item
    BY <2>3, <2>4, <2>5 DEF xTaskCheckForTimeOut, CallFields
  <2>7. PICK d : d = IF r.timedOut THEN [r.w EXCEPT !.out = "timeout"] ELSE r.w OBVIOUS
  <2>8. DOMAIN d = CallFields /\ d.call = c.call /\ d.item = c.item
    BY <2>6, <2>7 DEF CallFields
  <2>9. Lawful(d)
    BY <2>3, <2>4, <2>8 DEF Lawful
  <2>10. PICK p : p = IF r.timedOut THEN <<"unlock_tx", 0>> ELSE <<"place", 0>> OBVIOUS
  <2>11. w' = [w EXCEPT ![t] = d] /\ pc' = [pc EXCEPT ![t] = p]
    BY <1>5, <2>4, <2>5, <2>7, <2>10 DEF LockAndCheck, Goto
  <2>12. CallInv'
    BY <2>2, <2>8, <2>9, <2>11, CallMoves
  <2>13. QED BY <2>2, <2>12
<1>6. CASE Place(t)
  <2>1. pc[t][1] \in Calling /\ q' = q /\ pc' = [pc EXCEPT ![t] = <<"unlock_tx", 0>>]
    BY <1>6 DEF Place, At, Calling, Goto
  <2>2. Good(q, q')
    BY <2>1, GoodStutter
  <2>3. DOMAIN w[t] = CallFields /\ Lawful(w[t])
    BY <2>1, InCall
  <2>4. PICK o : w' = [w EXCEPT ![t].out = o]
    BY <1>6 DEF Place
  <2>5. PICK d : d = [w[t] EXCEPT !.out = o] OBVIOUS
  <2>6. DOMAIN d = CallFields /\ d.call = w[t].call /\ d.item = w[t].item
    BY <2>3, <2>5 DEF CallFields
  <2>7. Lawful(d)
    BY <2>3, <2>6 DEF Lawful
  <2>8. w' = [w EXCEPT ![t] = d]
    BY <2>4, <2>5
  <2>9. CallInv'
    BY <2>1, <2>2, <2>6, <2>7, <2>8, CallMoves
  <2>10. QED BY <2>2, <2>9
<1>7. CASE UnlockTx(t)
  <2>1. /\ pc[t][1] \in Calling /\ q' = [q EXCEPT !.tx = queueUNLOCKED]
        /\ pc' = [pc EXCEPT ![t] = <<"unlock_rx", 0>>] /\ w' = w
    BY <1>7 DEF UnlockTx, At, Calling, Goto
  <2>2. q' = [q EXCEPT !.tx = queueUNLOCKED, !.rx = q.rx]
    BY <2>1 DEF Sound, QueueFields
  <2>3. Good(q, q')
    BY <2>2, GoodLocked
  <2>4. QED BY <1>3, <2>1, <2>3
<1>8. CASE UnlockRx(t)
  <2>1. /\ pc[t][1] \in Calling /\ q' = [q EXCEPT !.rx = queueUNLOCKED]
        /\ pc' = [pc EXCEPT ![t] = <<"resume_all", 0>>] /\ w' = w
    BY <1>8 DEF UnlockRx, At, Calling, Goto
  <2>2. q' = [q EXCEPT !.tx = q.tx, !.rx = queueUNLOCKED]
    BY <2>1 DEF Sound, QueueFields
  <2>3. Good(q, q')
    BY <2>2, GoodLocked
  <2>4. QED BY <1>3, <2>1, <2>3
<1>9. CASE QueueResumesAll(t) \/ GiveWay(t) \/ LookOnceMore(t)
  <2>1. pc[t][1] \in Calling /\ q' = q /\ w' = w
    BY <1>9 DEF QueueResumesAll, GiveWay, LookOnceMore, At, Calling
  <2>2. PICK p : pc' = [pc EXCEPT ![t] = p]
    <3>1. \E place : Goto(t, place, 0)
      BY <1>9, Zenon DEF QueueResumesAll, GiveWay, LookOnceMore
    <3>2. QED BY <3>1 DEF Goto
  <2>3. Good(q, q')
    BY <2>1, GoodStutter
  <2>4. QED BY <1>3, <2>1, <2>2, <2>3
<1>10. CASE xQueueGenericReset(t)
  <2>1. /\ q' = [q EXCEPT !.n = 0, !.write = 0, !.read = q.length - 1, !.reset = 1,
                          !.tx = queueUNLOCKED, !.rx = queueUNLOCKED]
        /\ pc' = pc /\ w' = w
    BY <1>10 DEF xQueueGenericReset
  <2>2. PICK x : x = q OBVIOUS
  <2>3. PICK y : y = q' OBVIOUS
  <2>4. /\ DOMAIN y = QueueFields /\ y.length = x.length /\ y.size = x.size /\ y.n = 0
        /\ y.got = x.got /\ y.buf = x.buf /\ y.read = x.length - 1 /\ y.write = 0
    BY <2>1, <2>2, <2>3 DEF Sound, QueueFields
  <2>5. Sound(y) /\ Ring(y) = <<>>
    BY <2>2, <2>4, RingClear
  <2>6. Good(q, q')
    BY <2>2, <2>3, <2>4, <2>5 DEF Good, FifoStep
  <2>7. CallInv'
    BY <2>1, <2>6, CallsStay DEF CallInv
  <2>8. QED BY <2>6, <2>7
<1>11. ASSUME NEW c \in QueueCalls(t), QueueCall(t, c)
       PROVE  Good(q, q') /\ CallInv'
  <2>1. PICK d : d = [call |-> c.call, item |-> c.item, ticks |-> c.ticks, set |-> 0, entry |-> 0,
                      overflows |-> 0, asked |-> c.ticks, waited |-> 0, out |-> "retry"]
    OBVIOUS
  <2>2. DOMAIN d = CallFields /\ d.call = c.call /\ d.item = c.item
    BY <2>1 DEF CallFields
  <2>3. app.items \subseteq Item /\ q.got \in Item
    BY QueueAssumption DEF Sound
  <2>4. c.call \in {"back", "front", "overwrite", "receive", "peek"} /\ c.item \in Item
    BY <2>3 DEF QueueCalls
  <2>5. Lawful(d)
    BY <1>11, <2>2, <2>4 DEF QueueCall, Lawful
  <2>6. Try(t, d)
    BY <1>11, <2>1 DEF QueueCall
  <2>7. QED BY <2>2, <2>5, <2>6, TryIsGood
<1>12. QED
  BY <1>1, <1>2, <1>4, <1>5, <1>6, <1>7, <1>8, <1>9, <1>10, <1>11 DEF QueueStep

\* An interrupt handler that fills the queue (IsrFills).
LEMMA IsrFillsIsGood ==
  ASSUME Sound(q), CallInv, NEW filled, Good(q, filled), IsrFills(filled)
  PROVE  Good(q, q') /\ CallInv'
<1>1. PICK tx : q' = filled \/ q' = [filled EXCEPT !.tx = tx]
  <2>1. q' = filled \/ q' = [filled EXCEPT !.tx = IncrementLock(@)]
    BY DEF IsrFills
  <2>2. QED BY <2>1
<1>2. Good(q, q')
  <2>1. CASE q' = filled BY <2>1
  <2>2. CASE q' = [filled EXCEPT !.tx = tx]
    <3>1. PICK z : z = q' OBVIOUS
    <3>2. /\ DOMAIN z = QueueFields /\ z.length = filled.length /\ z.size = filled.size
          /\ z.n = filled.n /\ z.got = filled.got
          /\ z.buf = filled.buf /\ z.write = filled.write /\ z.read = filled.read
      BY <2>2, <3>1 DEF Good, Sound, QueueFields
    <3>3. Good(q, z) BY <3>2, GoodThenSame
    <3>4. QED BY <3>1, <3>3
  <2>3. QED BY <1>1, <2>1, <2>2
<1>3. pc' = pc /\ w' = w
  BY DEF IsrFills
<1>4. CallInv'
  BY <1>2, <1>3, CallsStay DEF CallInv
<1>5. QED
  BY <1>2, <1>4

\* The interrupts: the tick only makes the waiting calls older.
LEMMA QueueInterruptIsGood ==
  ASSUME app \in Apps, Sound(q), CallInv, QueueInterrupt
  PROVE  Good(q, q') /\ CallInv'
<1>1. CASE QueueTick
  <2>1. q' = q /\ pc' = pc
    BY <1>1 DEF QueueTick, TickInterrupt
  <2>2. Good(q, q')
    BY <2>1, GoodStutter
  <2>3. DOMAIN w' = Task
    BY <1>1 DEF QueueTick
  <2>4. ASSUME NEW u \in Task, DOMAIN w[u] = CallFields
        PROVE  DOMAIN w'[u] = CallFields /\ w'[u].call = w[u].call /\ w'[u].item = w[u].item
    <3>1. w'[u] = w[u] \/ w'[u] = [w[u] EXCEPT !.waited = @ + 1]
      BY <1>1 DEF QueueTick
    <3>2. QED BY <2>4, <3>1 DEF CallFields
  <2>5. CallInv'
    BY <2>1, <2>2, <2>3, <2>4, CallsStay DEF CallInv
  <2>6. QED BY <2>2, <2>5
<1>2. CASE xQueueReceiveFromISR
  <2>1. PICK y : y = [prvCopyDataFromQueue EXCEPT !.n = @ - 1] OBVIOUS
  <2>2. Good(q, y)
    BY <1>2, <2>1, ReceiveIsGood DEF xQueueReceiveFromISR, prvIsQueueEmpty
  <2>3. PICK rx : q' = y \/ q' = [y EXCEPT !.rx = rx]
    <3>1. q' = y \/ q' = [y EXCEPT !.rx = IncrementLock(@)]
      BY <1>2, <2>1 DEF xQueueReceiveFromISR
    <3>2. QED BY <3>1
  <2>4. Good(q, q')
    <3>1. CASE q' = y BY <2>2, <3>1
    <3>2. CASE q' = [y EXCEPT !.rx = rx]
      <4>1. PICK z : z = q' OBVIOUS
      <4>2. /\ DOMAIN z = QueueFields /\ z.length = y.length /\ z.size = y.size
            /\ z.n = y.n /\ z.got = y.got
            /\ z.buf = y.buf /\ z.write = y.write /\ z.read = y.read
        BY <2>2, <3>2, <4>1 DEF Good, Sound, QueueFields
      <4>3. Good(q, z) BY <2>2, <4>2, GoodThenSame
      <4>4. QED BY <4>1, <4>3
    <3>3. QED BY <2>3, <3>1, <3>2
  <2>5. pc' = pc /\ w' = w
    BY <1>2 DEF xQueueReceiveFromISR
  <2>6. CallInv'
    BY <2>4, <2>5, CallsStay DEF CallInv
  <2>7. QED BY <2>4, <2>6
<1>3. CASE xQueueGiveFromISR
  <2>1. PICK x : x = q OBVIOUS
  <2>2. PICK y : y = [q EXCEPT !.n = @ + 1] OBVIOUS
  <2>3. Sound(x) /\ x.size = 0 /\ x.n < x.length /\ IsrFills(y) /\ x.got \in Item
    BY <1>3, <2>1, <2>2 DEF xQueueGiveFromISR, Sound
  <2>4. /\ DOMAIN y = QueueFields /\ y.length = x.length /\ y.size = x.size
        /\ y.n = x.n + 1 /\ y.got = x.got
        /\ y.buf = x.buf /\ y.read = x.read /\ y.write = x.write
    BY <2>1, <2>2 DEF Sound, QueueFields
  <2>5. Sound(y) /\ Ring(y) = Append(Ring(x), x.got)
    BY <2>3, <2>4, RingGive
  <2>6. Good(x, y)
    BY <2>3, <2>4, <2>5, Zenon DEF Good, FifoStep
  <2>7. Good(q, y)
    BY <2>1, <2>6
  <2>8. QED BY <2>3, <2>7, IsrFillsIsGood
<1>4. ASSUME NEW i \in app.items, NEW p \in {"back", "front", "overwrite"},
             xQueueGenericSendFromISR(i, p)
      PROVE  Good(q, q') /\ CallInv'
  <2>1. i \in Item
    BY QueueAssumption
  <2>2. q.size # 0 /\ IsrFills(prvCopyDataToQueue(i, p))
    BY <1>4 DEF xQueueGenericSendFromISR
  <2>3. (p = "overwrite" => q.length = 1) /\ (p # "overwrite" => q.n # q.length)
    BY <1>4 DEF xQueueGenericSendFromISR, prvIsQueueFull
  <2>4. Good(q, prvCopyDataToQueue(i, p))
    BY <2>1, <2>2, <2>3, CopyToIsGood
  <2>5. QED BY <2>2, <2>4, IsrFillsIsGood
<1>5. QED
  BY <1>1, <1>2, <1>3, <1>4 DEF QueueInterrupt

(* Task t goes on in its own code or in a call of tasks.c, and nobody else moves. *)
Elsewhere(t) ==
  /\ DOMAIN pc' = Task /\ t = k.cur /\ pc[t][1] \notin Calling /\ pc'[t][1] \notin Calling
  /\ \A u \in Task \ {t} : pc'[u] = pc[u]
  /\ pc[t][1] \in Notifying => pc'[t][1] \in Notifying \/ TakeCollects(t) \/ WaitCollects(t)

\* The functions of tasks.c that tasks call move nobody into the middle of a call
\* of queue.c, and leave no call early.
LEMMA CallKeepsPlaces ==
  ASSUME DOMAIN pc = Task, NEW t \in Task, Call(t)
  PROVE  Elsewhere(t)
<1>1. /\ \A p \in {"run", "locked", "catchup", "suspend", "reset", "resetlocked", "delay", "yield",
                  "malloc", "create", "created"} : p \notin Calling /\ p \notin Notifying
      /\ \A p \in Notifying : p \notin Calling
  BY DEF Calling, Notifying
<1>2. ASSUME pc' = pc, InTask(t) PROVE Elsewhere(t)
  BY <1>1, <1>2 DEF InTask, At, Elsewhere
<1>3. ASSUME NEW place, NEW n, place \notin Calling, Goto(t, place, n), t = k.cur,
             pc[t][1] \notin Calling, pc[t][1] \notin Notifying
      PROVE  Elsewhere(t)
  BY <1>1, <1>3 DEF Goto, Elsewhere
<1>40. ASSUME NEW place, NEW n, place \in Notifying, Goto(t, place, n), t = k.cur, pc[t][1] \in Notifying
       PROVE  Elsewhere(t)
  BY <1>1, <1>40 DEF Goto, Elsewhere
<1>41. ASSUME Goto(t, "run", 0), t = k.cur, pc[t][1] \in Notifying, TakeCollects(t) \/ WaitCollects(t)
       PROVE  Elsewhere(t)
  BY <1>1, <1>41 DEF Goto, Elsewhere
<1>4. CASE taskYIELD(t) BY <1>2, <1>4 DEF taskYIELD
<1>5. CASE SuspendAll(t) BY <1>1, <1>3, <1>5 DEF SuspendAll, At
<1>6. CASE ResumeAll(t) BY <1>1, <1>3, <1>6 DEF ResumeAll, At
<1>7. CASE SuspendEnds(t) BY <1>1, <1>3, <1>7 DEF SuspendEnds, At
<1>8. CASE DelayResumes(t)
  <2>1. \E p \in {"run", "yield"} : Goto(t, p, 0)
    BY <1>8 DEF DelayResumes
  <2>2. QED BY <1>1, <1>3, <1>8, <2>1 DEF DelayResumes, At
<1>9. CASE Yields(t) BY <1>1, <1>3, <1>9 DEF Yields, At
<1>10. CASE xTaskCreate(t) BY <1>1, <1>3, <1>10 DEF xTaskCreate, At
<1>11. CASE CreateGoesOn(t) BY <1>1, <1>3, <1>11 DEF CreateGoesOn, At
<1>12. CASE NotifyBlocks(t)
  <2>1. pc[t][1] \in Notifying /\ t = k.cur
    BY <1>12 DEF NotifyBlocks, At, Notifying
  <2>2. \E n : Goto(t, "blocked", n)
    BY <1>12 DEF NotifyBlocks
  <2>3. QED BY <1>40, <2>1, <2>2 DEF Notifying
<1>13. CASE NotifyResumes(t)
  <2>1. pc[t][1] \in Notifying /\ t = k.cur
    BY <1>13 DEF NotifyResumes, At, Notifying
  <2>2. \E p \in {"collect", "handover"} : \E n : Goto(t, p, n)
    BY <1>13 DEF NotifyResumes
  <2>3. QED BY <1>40, <2>1, <2>2 DEF Notifying
<1>14. CASE NotifyHandsOver(t)
  <2>1. pc[t][1] \in Notifying /\ t = k.cur
    BY <1>14 DEF NotifyHandsOver, At, Notifying
  <2>2. \E n : Goto(t, "collect", n)
    BY <1>14 DEF NotifyHandsOver
  <2>3. QED BY <1>40, <2>1, <2>2 DEF Notifying
<1>15. CASE TakeCollects(t)
  <2>1. pc[t][1] \in Notifying /\ t = k.cur /\ Goto(t, "run", 0)
    BY <1>15 DEF TakeCollects, At, Notifying
  <2>2. QED BY <1>15, <1>41, <2>1
<1>16. CASE WaitCollects(t)
  <2>1. pc[t][1] \in Notifying /\ t = k.cur /\ Goto(t, "run", 0)
    BY <1>16 DEF WaitCollects, At, Notifying
  <2>2. QED BY <1>16, <1>41, <2>1
<1>160. \A p \in {"delay", "catchup", "nowait", "block_take", "block_wait"} : p \notin Calling
  BY DEF Calling
<1>17. ASSUME NEW n \in app.delays[t], vTaskDelay(t, n) PROVE Elsewhere(t)
  BY <1>1, <1>3, <1>160, <1>17 DEF vTaskDelay, At
<1>18. ASSUME NEW n \in app.delays[t], xTaskDelayUntil(t, n) PROVE Elsewhere(t)
  BY <1>1, <1>3, <1>160, <1>18 DEF xTaskDelayUntil, At
<1>19. ASSUME NEW n \in app.delays[t], NotifyTake(t, n) PROVE Elsewhere(t)
  <2>1. t = k.cur /\ pc[t][1] = "run" /\ \E p \in {"block_take", "nowait"} : \E m : Goto(t, p, m)
    BY <1>19 DEF NotifyTake, At
  <2>2. QED BY <1>1, <1>3, <1>160, <2>1
<1>20. ASSUME NEW n \in app.delays[t], xTaskCatchUpTicks(t, n) PROVE Elsewhere(t)
  BY <1>1, <1>3, <1>160, <1>20 DEF xTaskCatchUpTicks, At
<1>21. ASSUME NEW n \in app.delays[t], NEW b \in BOOLEAN, NotifyWait(t, n, b) PROVE Elsewhere(t)
  <2>1. t = k.cur /\ pc[t][1] = "run" /\ \E p \in {"block_wait", "nowait"} : \E m : Goto(t, p, m)
    BY <1>21 DEF NotifyWait, At
  <2>2. QED BY <1>1, <1>3, <1>160, <2>1
<1>22. ASSUME NEW x \in Task, vTaskSuspend(t, x) PROVE Elsewhere(t)
  <2>1. /\ t = k.cur /\ pc[t][1] \in {"run", "locked"}
        /\ \E p \in {"suspend", "reset", "resetlocked"} : Goto(t, p, 0)
    BY <1>22 DEF vTaskSuspend, InTask, At
  <2>2. QED BY <1>1, <1>3, <2>1
<1>23. ASSUME NEW x \in Task,
              \/ vTaskResume(t, x) \/ xTaskGenericNotify(t, x)
              \/ xTaskGenericNotifyStateClear(t, x) \/ ulTaskGenericNotifyValueClear(t, x)
              \/ \E p \in Priorities : vTaskPrioritySet(t, x, p)
       PROVE  Elsewhere(t)
  BY <1>2, <1>23 DEF vTaskResume, xTaskGenericNotify, xTaskGenericNotifyStateClear,
                     ulTaskGenericNotifyValueClear, vTaskPrioritySet
<1>24. QED
  BY <1>4, <1>5, <1>6, <1>7, <1>8, <1>9, <1>10, <1>11, <1>12, <1>13, <1>14, <1>15, <1>16,
     <1>17, <1>18, <1>19, <1>20, <1>21, <1>22, <1>23 DEF Call

-----------------------------------------------------------------------------
(* The theorems *)

\* A step of a first-in first-out queue is a step of the abstract one.
LEMMA GoodIsFifo ==
  ASSUME Sound(q), Good(q, q')
  PROVE  [\E length \in {q.length} : F(length)!Next]_<<Oldest, q.got>>
<1>0. PICK m \in {q.length} : m = q.length OBVIOUS
<1>1. PICK s : s = Oldest OBVIOUS
<1>2. PICK u : u = Oldest' OBVIOUS
<1>3. s = Ring(q) /\ u = Ring(q')
  BY <1>1, <1>2 DEF Oldest, Ring, ItemAt
<1>4. Len(s) = q.n
  BY <1>3, RingIsSeq
<1>5. \/ u = s /\ q'.got = q.got
      \/ /\ q.n < q.length /\ q'.got = q.got
         /\ \E i \in Item : u = Append(s, i) \/ u = <<i>> \o s
      \/ q.length = 1 /\ q'.got = q.got /\ \E i \in Item : u = <<i>>
      \/ s # <<>> /\ q'.got = Head(s) /\ (u = Tail(s) \/ u = s)
      \/ u = <<>> /\ q'.got = q.got
  BY <1>3 DEF Good, FifoStep
<1>6. CASE u = s /\ q'.got = q.got
  BY <1>1, <1>2, <1>6
<1>7. SUFFICES ASSUME ~(u = s /\ q'.got = q.got)
               PROVE  F(m)!Next
  BY <1>1, <1>2, <1>6, Zenon
<1>8. CASE q.n < q.length /\ q'.got = q.got /\ \E i \in Item : u = Append(s, i) \/ u = <<i>> \o s
  <2>1. PICK i \in Item : u = Append(s, i) \/ u = <<i>> \o s BY <1>8
  <2>2. F(m)!Put(i) \/ F(m)!PutFront(i)
    BY <1>0, <1>1, <1>2, <1>4, <1>8, <2>1 DEF F!Put, F!PutFront
  <2>3. QED BY <2>2, Zenon DEF F!Next
<1>9. CASE q.length = 1 /\ q'.got = q.got /\ \E i \in Item : u = <<i>>
  <2>1. PICK i \in Item : u = <<i>> BY <1>9
  <2>2. F(m)!Overwrite(i)
    BY <1>0, <1>1, <1>2, <1>9, <2>1 DEF F!Overwrite
  <2>3. QED BY <2>2, Zenon DEF F!Next
<1>10. CASE s # <<>> /\ q'.got = Head(s) /\ (u = Tail(s) \/ u = s)
  <2>1. F(m)!Take \/ F(m)!Look
    BY <1>1, <1>2, <1>10 DEF F!Take, F!Look
  <2>2. QED BY <2>1, Zenon DEF F!Next
<1>11. CASE u = <<>> /\ q'.got = q.got
  <2>1. F(m)!Clear
    BY <1>1, <1>2, <1>11 DEF F!Clear
  <2>2. QED BY <2>1, Zenon DEF F!Next
<1>12. QED
  BY <1>5, <1>7, <1>8, <1>9, <1>10, <1>11

\* The queue as xQueueGenericCreate leaves it.
LEMMA QueueInitSound ==
  ASSUME QueueInit
  PROVE  StorageInv
<1>1. app \in Apps
  BY DEF QueueInit, Init
<1>2. app.length \in Nat \ {0} /\ app.size \in {0, 1} /\ app.items \subseteq Item
  BY <1>1, QueueAssumption
<1>3. PICK i \in app.items :
        q = [length |-> app.length, size |-> app.size, n |-> 0, got |-> i,
             buf |-> [j \in 0 .. app.length - 1 |-> i], write |-> 0, read |-> app.length - 1,
             tx |-> queueUNLOCKED, rx |-> queueUNLOCKED, reset |-> 0]
  BY DEF QueueInit
<1>4. PICK m \in Nat \ {0} : m = app.length
  BY <1>2
<1>5. /\ DOMAIN q = QueueFields /\ q.length = m /\ q.size = app.size /\ q.n = 0 /\ q.got = i
      /\ q.buf = [j \in 0 .. m - 1 |-> i] /\ q.write = 0 /\ q.read = m - 1
  BY <1>3, <1>4 DEF QueueFields
<1>6. i \in Item
  BY <1>2, <1>3
<1>7. m % m = 0
  BY ModAdd
<1>8. RingInv
  <2>1. q.read + q.n + 1 = m BY <1>5
  <2>2. q.write = (q.read + q.n + 1) % q.length BY <1>5, <1>7, <2>1
  <2>3. q.length \in Nat \ {0} /\ q.n \in 0 .. q.length /\ q.read \in 0 .. q.length - 1
        /\ q.write \in 0 .. q.length - 1
    BY <1>5
  <2>4. q.buf \in [0 .. q.length - 1 -> Item] BY <1>5, <1>6
  <2>5. QED BY <1>2, <1>5, <1>6, <2>2, <2>3, <2>4 DEF RingInv
<1>9. CallInv
  <2>1. w = [t \in Task |-> NoCall] /\ pc = [t \in Task |-> <<"run", 0>>]
    BY DEF QueueInit, Init
  <2>2. \A t \in Task : pc[t][1] = "run"
    BY <2>1
  <2>3. "run" \notin Calling
    BY DEF Calling
  <2>4. QED BY <2>1, <2>2, <2>3 DEF CallInv
<1>10. QED
  BY <1>1, <1>8, <1>9 DEF StorageInv

\* Every step keeps the storage sound and is a step of a first-in first-out queue.
LEMMA QueueNextIsGood ==
  ASSUME StorageInv, [QueueNext]_qvars
  PROVE  Good(q, q') /\ CallInv' /\ app' = app
<1>1. app \in Apps /\ Sound(q) /\ CallInv
  BY DEF StorageInv, RingInv, Sound
<1>2. CASE UNCHANGED qvars
  <2>1. q' = q /\ pc' = pc /\ w' = w /\ app' = app
    BY <1>2 DEF qvars, vars
  <2>2. Good(q, q')
    BY <1>1, <2>1, GoodStutter
  <2>3. CallInv'
    BY <1>1, <2>1, <2>2, CallsStay DEF CallInv
  <2>4. QED BY <2>1, <2>2, <2>3
<1>3. CASE QueueNext
  <2>1. app' = app
    BY <1>3 DEF QueueNext
  <2>2. CASE QueueInterrupt
    BY <1>1, <2>1, <2>2, QueueInterruptIsGood
  <2>3. CASE \E t \in Users : QueueStep(t)
    <3>1. PICK t \in Users : QueueStep(t) BY <2>3
    <3>2. t \in Task BY DEF Users
    <3>3. QED BY <1>1, <2>1, <3>1, <3>2, QueueStepIsGood
  <2>4. CASE (prvIdleTask \/ \E t \in Users : Call(t)) /\ UNCHANGED <<q, w>>
    <3>1. q' = q /\ w' = w BY <2>4
    <3>2. Good(q, q') BY <1>1, <3>1, GoodStutter
    <3>3. DOMAIN pc' = Task /\ \A u \in Task : pc'[u][1] \in Calling => pc'[u] = pc[u]
      <4>1. CASE prvIdleTask
        <5>1. pc' = pc BY <4>1 DEF prvIdleTask
        <5>2. QED BY <1>1, <5>1 DEF CallInv
      <4>2. CASE \E t \in Users : Call(t)
        <5>1. PICK t \in Users : Call(t) BY <4>2
        <5>2. t \in Task BY DEF Users
        <5>3. Elsewhere(t)
          BY <1>1, <5>1, <5>2, CallKeepsPlaces DEF CallInv
        <5>4. QED BY <5>2, <5>3 DEF Elsewhere
      <4>3. QED BY <2>4, <4>1, <4>2
    <3>4. CallInv'
      BY <1>1, <3>1, <3>2, <3>3, CallsStay DEF CallInv
    <3>5. QED BY <2>1, <3>2, <3>4
  <2>5. QED BY <1>3, <2>2, <2>3, <2>4 DEF QueueNext
<1>4. QED
  BY <1>2, <1>3

\* Try in the middle of a call: only the time of entry may be written.
LEMMA TryKeepsArguments ==
  ASSUME CallInv, NEW t \in Task, pc[t][1] \in Calling, Try(t, w[t]), pc'[t][1] \in Calling
  PROVE  SameArguments(t)
<1>1. DOMAIN w = Task /\ DOMAIN pc = Task /\ DOMAIN w[t] = CallFields
  BY InCall DEF CallInv
<1>2. NotReady(w[t])
  <2>1. SUFFICES ASSUME ~NotReady(w[t]) PROVE FALSE
    OBVIOUS
  <2>2. pc' = [pc EXCEPT ![t] = <<"run", 0>>]
    BY <2>1 DEF Try, Goto
  <2>3. QED BY <1>1, <2>2 DEF Calling
<1>3. PICK d : d = IF w[t].set = 1 THEN w[t]
                   ELSE [vTaskInternalSetTimeOutState(w[t]) EXCEPT !.set = 1]
  OBVIOUS
<1>4. d.call = w[t].call /\ d.item = w[t].item /\ d.asked = w[t].asked
  BY <1>1, <1>3 DEF vTaskInternalSetTimeOutState, CallFields
<1>5. w' = [w EXCEPT ![t] = w[t]] \/ w' = [w EXCEPT ![t] = d]
  BY <1>2, <1>3 DEF Try
<1>6. QED BY <1>1, <1>4, <1>5 DEF SameArguments

\* A step of a task leaves its own call and those of the others as they were
\* made: LockAndCheck writes the ticks left, Place what became of the wait.
LEMMA StepKeepsArguments ==
  ASSUME CallInv, NEW t \in Task, QueueStep(t),
         NEW u \in Task, pc[u][1] \in Calling, pc'[u][1] \in Calling
  PROVE  SameArguments(u)
<1>1. DOMAIN w = Task /\ DOMAIN pc = Task /\ DOMAIN w[u] = CallFields
  BY InCall DEF CallInv
<1>2. CASE TryAgain(t)
  <2>1. Try(t, w[t]) BY <1>2 DEF TryAgain
  <2>2. CASE u = t
    BY <2>1, <2>2, TryKeepsArguments
  <2>3. CASE u # t
    <3>1. w'[u] = w[u] BY <1>1, <2>1, <2>3 DEF Try
    <3>2. QED BY <3>1 DEF SameArguments
  <2>4. QED BY <2>2, <2>3
<1>3. CASE Fails(t)
  <2>1. pc' = [pc EXCEPT ![t] = <<"run", 0>>] /\ w' = [w EXCEPT ![t] = NoCall]
    BY <1>3 DEF Fails, Goto
  <2>2. u # t BY <1>1, <2>1 DEF Calling
  <2>3. w'[u] = w[u] BY <1>1, <2>1, <2>2
  <2>4. QED BY <2>3 DEF SameArguments
<1>4. CASE LockAndCheck(t)
  <2>1. PICK c : c = w[t] OBVIOUS
  <2>2. PICK r : r = xTaskCheckForTimeOut(k, c) OBVIOUS
  <2>3. PICK d : d = IF r.timedOut THEN [r.w EXCEPT !.out = "timeout"] ELSE r.w OBVIOUS
  <2>4. w' = [w EXCEPT ![t] = d]
    BY <1>4, <2>1, <2>2, <2>3 DEF LockAndCheck
  <2>5. CASE u = t
    <3>1. DOMAIN c = CallFields BY <1>1, <2>1, <2>5
    <3>2. DOMAIN r.w = CallFields /\ r.w.call = c.call /\ r.w.item = c.item /\ r.w.asked = c.asked
      BY <2>2, <3>1 DEF xTaskCheckForTimeOut, CallFields
    <3>3. d.call = c.call /\ d.item = c.item /\ d.asked = c.asked
      BY <2>3, <3>2 DEF CallFields
    <3>4. QED BY <1>1, <2>1, <2>4, <2>5, <3>3 DEF SameArguments
  <2>6. CASE u # t
    <3>1. w'[u] = w[u] BY <1>1, <2>4, <2>6
    <3>2. QED BY <3>1 DEF SameArguments
  <2>7. QED BY <2>5, <2>6
<1>5. CASE Place(t)
  <2>1. PICK o : w' = [w EXCEPT ![t].out = o]
    BY <1>5 DEF Place
  <2>2. w'[u] = w[u] \/ w'[u] = [w[u] EXCEPT !.out = o]
    BY <1>1, <2>1
  <2>3. QED BY <1>1, <2>2 DEF SameArguments, CallFields
<1>6. CASE QueueSuspendsAll(t) \/ UnlockTx(t) \/ UnlockRx(t) \/ QueueResumesAll(t) \/ GiveWay(t)
           \/ LookOnceMore(t) \/ xQueueGenericReset(t)
  <2>1. w' = w
    BY <1>6 DEF QueueSuspendsAll, UnlockTx, UnlockRx, QueueResumesAll, GiveWay, LookOnceMore,
                xQueueGenericReset
  <2>2. QED BY <2>1 DEF SameArguments
<1>7. ASSUME NEW c \in QueueCalls(t), QueueCall(t, c)
      PROVE  SameArguments(u)
  <2>1. PICK d : Try(t, d)
    BY <1>7 DEF QueueCall
  <2>2. pc[t][1] = "run"
    BY <1>7 DEF QueueCall, At
  <2>3. u # t BY <2>2 DEF Calling
  <2>4. w'[u] = w[u] BY <1>1, <2>1, <2>3 DEF Try
  <2>5. QED BY <2>4 DEF SameArguments
<1>8. QED
  BY <1>2, <1>3, <1>4, <1>5, <1>6, <1>7 DEF QueueStep

\* Interrupts and the calls of tasks.c leave them alone as well: a tick only
\* makes a waiting call older.
LEMMA NextKeepsArguments ==
  ASSUME StorageInv, [QueueNext]_qvars,
         NEW u \in Task, pc[u][1] \in Calling, pc'[u][1] \in Calling
  PROVE  SameArguments(u)
<1>1. CallInv /\ DOMAIN w[u] = CallFields
  BY InCall DEF StorageInv
<1>2. CASE UNCHANGED qvars
  BY <1>2 DEF qvars, SameArguments
<1>3. CASE QueueTick
  <2>1. w'[u] = w[u] \/ w'[u] = [w[u] EXCEPT !.waited = @ + 1]
    BY <1>3 DEF QueueTick
  <2>2. QED BY <1>1, <2>1 DEF SameArguments, CallFields
<1>4. CASE QueueInterrupt /\ ~QueueTick
  <2>1. w' = w
    BY <1>4 DEF QueueInterrupt, xQueueReceiveFromISR, xQueueGiveFromISR,
                xQueueGenericSendFromISR, IsrFills
  <2>2. QED BY <2>1 DEF SameArguments
<1>5. CASE \E t \in Users : QueueStep(t)
  <2>1. PICK t \in Users : QueueStep(t) BY <1>5
  <2>2. t \in Task BY DEF Users
  <2>3. QED BY <1>1, <2>1, <2>2, StepKeepsArguments
<1>6. CASE UNCHANGED <<q, w>>
  BY <1>6 DEF SameArguments
<1>7. QED
  BY <1>2, <1>3, <1>4, <1>5, <1>6 DEF QueueNext

\* The storage is sound in every state, whatever the tasks and interrupts of the
\* application do (xQueueGenericSend and Receive, their FromISR forms, peeks,
\* overwrites and xQueueGenericReset), and a blocking call goes on as the call
\* it was made, with the item it was given.
THEOREM StorageSound == QueueSpec => []StorageInv /\ CallsKeepTheirArguments
<1>1. QueueInit => StorageInv
  BY QueueInitSound
<1>2. StorageInv /\ [QueueNext]_qvars => StorageInv'
  <2>1. SUFFICES ASSUME StorageInv, [QueueNext]_qvars PROVE StorageInv'
    OBVIOUS
  <2>2. Good(q, q') /\ CallInv' /\ app' = app
    BY <2>1, QueueNextIsGood
  <2>3. RingInv'
    BY <2>2 DEF Good, Sound, RingInv
  <2>4. QED BY <2>1, <2>2, <2>3 DEF StorageInv
<1>3. StorageInv /\ [QueueNext]_qvars
        => [\A t \in Task : pc[t][1] \in Calling /\ pc'[t][1] \in Calling => SameArguments(t)]_qvars
  BY NextKeepsArguments
<1>4. QED
  BY <1>1, <1>2, <1>3, PTL DEF QueueSpec, CallsKeepTheirArguments

\* The ring of queue.c, with its positions that wrap, is a first-in first-out
\* queue: every step of every task and interrupt puts an item at one of its ends,
\* replaces its only item, hands out the first one, empties it or leaves it alone.
THEOREM QueueIsFifo == QueueSpec => IsFifo
<1>1. StorageInv /\ [QueueNext]_qvars
        => [\E length \in {q.length} : F(length)!Next]_<<Oldest, q.got>>
  <2>1. SUFFICES ASSUME StorageInv, [QueueNext]_qvars
                 PROVE  [\E length \in {q.length} : F(length)!Next]_<<Oldest, q.got>>
    OBVIOUS
  <2>2. Sound(q)
    BY <2>1 DEF StorageInv, RingInv, Sound
  <2>3. Good(q, q')
    BY <2>1, QueueNextIsGood
  <2>4. QED BY <2>2, <2>3, GoodIsFifo
<1>2. QED
  BY <1>1, StorageSound, PTL DEF QueueSpec, IsFifo

-----------------------------------------------------------------------------
(* The wait lists of the queue *)

\* Of the lists that event items are in: the tasks that wait are those whose item
\* says so.
LEMMA WaitersListed ==
  ASSUME NEW x, Data(x), NEW l \in EventLists
  PROVE  /\ x.list[l] = <<>> => \A u \in Task : x.evt[u] # l
         /\ x.list[l] # <<>> => Head(x.list[l]) \in Task /\ x.evt[Head(x.list[l])] = l
<1>1. l \in Lists /\ l \notin StateLists
  BY ListNames
<1>2. PICK s \in Seq(Task) : s = x.list[l]
  BY <1>1 DEF Data, Shape
<1>3. \A u \in Task : (\E i \in DOMAIN s : s[i] = u) <=> x.evt[u] = l
  BY <1>1, <1>2 DEF Data, Agree, Holds
<1>4. s # <<>> => 1 \in DOMAIN s /\ Head(s) = s[1] /\ s[1] \in Task
  OBVIOUS
<1>5. s = <<>> => DOMAIN s = {}
  OBVIOUS
<1>6. QED BY <1>2, <1>3, <1>4, <1>5

\* uxListRemove on an event item.
LEMMA EventOutData ==
  ASSUME NEW x, Data(x), NEW t \in Task, NEW l \in EventLists, x.evt[t] = l,
         NEW y, y = uxListRemove(x, l, t)
  PROVE  /\ Data(y) /\ SameRest(x, y) /\ SameMarks(x, y) /\ y.where = x.where
         /\ y.evt = [x.evt EXCEPT ![t] = None]
<1>1. l \in Lists /\ l \notin StateLists /\ l \notin DelayedLists
  BY ListNames
<1>2. Core(x) /\ Holds(x, l, t)
  BY <1>1 DEF Data, Core, Holds
<1>3. Core(y) /\ Removed(x, y, l, t)
  BY <1>1, <1>2, RemoveDoes
<1>4. /\ SameRest(x, y) /\ SameMarks(x, y) /\ y.where = x.where /\ y.evt = [x.evt EXCEPT ![t] = None]
      /\ \A u \in Task : y.wake[u] = x.wake[u] /\ y.left[u] = x.left[u]
  BY <1>1, <1>3 DEF Removed
<1>5. Right(y)
  BY <1>4 DEF Data, Right, SameRest, SameMarks
<1>6. Left(y)
  BY <1>4 DEF Data, Left, SameRest, SameMarks
<1>7. Early(y)
  BY <1>4 DEF Data, Early, SameRest, SameMarks
<1>8. QED BY <1>3, <1>4, <1>5, <1>6, <1>7 DEF Data, Core

\* vListInsert of an event item, wherever its priority puts it.
LEMMA EventInData ==
  ASSUME NEW x, Data(x), NEW t \in Task, NEW l \in EventLists, x.evt[t] = None,
         NEW y, y = vListInsert(x, l, t)
  PROVE  /\ Data(y) /\ SameRest(x, y) /\ SameMarks(x, y) /\ y.where = x.where
         /\ y.evt = [x.evt EXCEPT ![t] = l]
<1>0. l \in Lists /\ l \notin StateLists /\ l \notin DelayedLists /\ Core(x)
  BY ListNames DEF Data, Core
<1>1. PICK s \in Seq(Task) : s = x.list[l]
  BY <1>0 DEF Core, Shape
<1>2. PICK later : later = {j \in DOMAIN s : ItemValue(x, l, s[j]) > ItemValue(x, l, t)} OBVIOUS
<1>3. PICK p : p = IF later = {} THEN Len(s) + 1 ELSE Min(later) OBVIOUS
<1>4. p \in 1 .. Len(s) + 1
  <2>1. CASE later = {}
    BY <1>3, <2>1
  <2>2. CASE later # {}
    <3>1. later \subseteq Nat
      BY <1>2
    <3>2. \E j \in later : \A i \in later : j <= i
      BY <2>2, <3>1, Least
    <3>3. p \in later
      BY <1>3, <2>2, <3>2 DEF Min
    <3>4. QED BY <1>2, <3>3
  <2>3. QED BY <2>1, <2>2
<1>5. PICK u : u = InsertAt(s, p, t) OBVIOUS
<1>6. PutIn(s, u, p, t)
  BY <1>4, <1>5, InsertAtPuts
<1>7. PICK m : m = [x EXCEPT !.list[l] = u] OBVIOUS
<1>8. y = [m EXCEPT !.evt[t] = l]
  <2>1. {j \in DOMAIN x.list[l] : ItemValue(x, l, x.list[l][j]) > ItemValue(x, l, t)} = later
    BY <1>1, <1>2
  <2>2. p = IF later = {} THEN Len(x.list[l]) + 1 ELSE Min(later)
    BY <1>1, <1>3
  <2>3. y = Container([x EXCEPT !.list[l] = InsertAt(@, p, t)], l, t, l)
    BY <2>1, <2>2 DEF vListInsert
  <2>4. [x EXCEPT !.list[l] = InsertAt(@, p, t)] = m
    BY <1>1, <1>5, <1>7
  <2>5. QED BY <1>0, <2>3, <2>4 DEF Container
<1>9. DOMAIN x = Fields
  BY <1>0 DEF Core, Shape
<1>10. /\ DOMAIN m = Fields /\ m.list = [x.list EXCEPT ![l] = u] /\ m.index = x.index
       /\ m.where = x.where /\ m.evt = x.evt /\ m.wake = x.wake /\ m.left = x.left
       /\ SameRest(x, m) /\ SameMarks(x, m)
  BY <1>7, <1>9 DEF Fields, SameRest, SameMarks
<1>11. /\ DOMAIN y = Fields /\ y.list = [x.list EXCEPT ![l] = u] /\ y.index = x.index
       /\ y.where = x.where /\ y.evt = [x.evt EXCEPT ![t] = l] /\ y.wake = x.wake /\ y.left = x.left
  BY <1>8, <1>10 DEF Fields
<1>12. SameRest(x, y) /\ SameMarks(x, y)
  BY <1>8, <1>10 DEF Fields, SameRest, SameMarks
<1>13. Inserted(x, y, l, t)
  BY <1>0, <1>11, <1>12 DEF Inserted
<1>14. PICK ix \in Nat : ix = x.index[l] /\ ix <= Len(s) + 1
  BY <1>0, <1>1 DEF Core, Shape, Agree
<1>15. y.index = [x.index EXCEPT ![l] = ix]
  BY <1>0, <1>11, <1>14 DEF Core, Shape
<1>16. Core(y)
  <2>1. Free(x, l, t) /\ l \in Lists
    BY <1>0 DEF Free
  <2>2. InOrder(x, l, s, p, t)
    BY <1>0 DEF InOrder
  <2>3. DOMAIN y = Fields /\ y.list = [x.list EXCEPT ![l] = u] /\ ix \in Nat /\ ix <= Len(s) + 1
    BY <1>11, <1>14
  <2>4. QED BY <1>0, <1>1, <1>6, <1>13, <1>15, <2>1, <2>2, <2>3, PutDoes, Zenon
<1>17. Right(y)
  BY <1>11, <1>12 DEF Data, Right, SameRest, SameMarks
<1>18. Left(y)
  BY <1>11, <1>12 DEF Data, Left, SameRest, SameMarks
<1>19. Early(y)
  BY <1>11, <1>12 DEF Data, Early, SameRest, SameMarks
<1>20. QED BY <1>11, <1>12, <1>16, <1>17, <1>18, <1>19 DEF Data, Core

(* y is x with task t of list l woken: it is ready, or left for xTaskResumeAll. *)
First(x, y, l, t) ==
  /\ Data(y) /\ SameRest(x, y) /\ x.evt[t] = l
  /\ y.evt = [x.evt EXCEPT ![t] = IF x.susp = 0 THEN None ELSE Pending]
  /\ y.where = (IF x.susp = 0 THEN [x.where EXCEPT ![t] = Ready(x.prio[t])] ELSE x.where)
  /\ y.yield = IF x.prio[t] > x.prio[x.cur] THEN 1 ELSE x.yield

\* xTaskRemoveFromEventList wakes the first task of the list.
LEMMA RemoveFromDoes ==
  ASSUME NEW x, Data(x), NEW l \in EventLists, x.list[l] # <<>>, NEW t \in Task, t = Head(x.list[l]),
         x.where[t] # None, NEW r, r = xTaskRemoveFromEventList(x, l)
  PROVE  First(x, r.k, l, t) /\ r.woken = (x.prio[t] > x.prio[x.cur])
<1>1. x.evt[t] = l
  BY WaitersListed
<1>2. PICK m : m = uxListRemove(x, l, t) OBVIOUS
<1>3. /\ Data(m) /\ SameRest(x, m) /\ SameMarks(x, m) /\ m.where = x.where
      /\ m.evt = [x.evt EXCEPT ![t] = None]
  BY <1>1, <1>2, EventOutData
<1>4. DOMAIN x.evt = Task /\ x.susp \in Nat /\ m.evt[t] = None /\ DOMAIN x.where = Task
  BY <1>3 DEF Data, Shape
<1>5. PICK z : z = ReadyOrPend(m, t) OBVIOUS
<1>6. PICK y : y = NoteHigher(z, t) OBVIOUS
<1>7. r.k = y /\ r.woken = (x.prio[t] > x.prio[x.cur])
  BY <1>2, <1>5, <1>6 DEF xTaskRemoveFromEventList
<1>8. /\ m.prio = x.prio /\ m.cur = x.cur /\ m.susp = x.susp /\ m.yield = x.yield
  BY <1>3 DEF SameRest, SameMarks
<1>9. /\ Data(z) /\ SameRest(m, z) /\ z.yield = m.yield
      /\ z.evt = [x.evt EXCEPT ![t] = IF x.susp = 0 THEN None ELSE Pending]
      /\ z.where = (IF x.susp = 0 THEN [x.where EXCEPT ![t] = Ready(x.prio[t])] ELSE x.where)
  <2>1. CASE x.susp = 0
    <3>1. z = prvAddTaskToReadyList(RemoveState(m, t), t)
      BY <1>5, <1>8, <2>1 DEF ReadyOrPend
    <3>2. m.where[t] # None
      BY <1>3
    <3>3. /\ Data(z) /\ SameRest(m, z) /\ z.yield = m.yield /\ z.evt = m.evt
          /\ z.where = [m.where EXCEPT ![t] = Ready(m.prio[t])]
      <4>1. Data(m)
        BY <1>3
      <4>2. QED BY ONLY <3>1, <3>2, <4>1, t \in Task, ReadyData, SMT
    <3>4. z.evt = [x.evt EXCEPT ![t] = None] /\ z.where = [x.where EXCEPT ![t] = Ready(x.prio[t])]
      BY <1>3, <1>8, <3>3
    <3>5. QED BY <2>1, <3>3, <3>4
  <2>2. CASE x.susp # 0
    <3>1. z = vListInsertEnd(m, Pending, t)
      BY <1>5, <1>8, <2>2 DEF ReadyOrPend
    <3>2. /\ Data(z) /\ SameRest(m, z) /\ z.yield = m.yield /\ z.where = m.where
          /\ z.evt = [m.evt EXCEPT ![t] = Pending]
      BY <1>3, <1>4, <3>1, PendData
    <3>3. z.evt = [x.evt EXCEPT ![t] = Pending]
      BY <1>3, <1>4, <3>2
    <3>4. QED BY <1>3, <2>2, <3>2, <3>3
  <2>3. QED BY <2>1, <2>2
<1>10. SameRest(x, z)
  BY <1>3, <1>9 DEF SameRest
<1>11. DOMAIN z = Fields /\ z.yield \in {0, 1} /\ z.prio = x.prio /\ z.cur = x.cur
  BY <1>9, <1>10 DEF Data, Shape, SameRest
<1>12. y = [z EXCEPT !.yield = IF z.prio[t] > z.prio[z.cur] THEN 1 ELSE @]
  BY <1>6 DEF NoteHigher
<1>13. /\ DOMAIN y = Fields /\ y.list = z.list /\ y.index = z.index /\ y.where = z.where /\ y.evt = z.evt
       /\ y.wake = z.wake /\ y.left = z.left /\ y.top = z.top /\ y.unblock = z.unblock
  BY <1>11, <1>12 DEF Fields
<1>14. SameRest(z, y)
  BY <1>11, <1>12 DEF Fields, SameRest
<1>15. y.yield = IF x.prio[t] > x.prio[x.cur] THEN 1 ELSE x.yield
  BY <1>8, <1>9, <1>11, <1>12 DEF Fields
<1>16. Data(y)
  <2>1. /\ y.prio = z.prio /\ y.del = z.del /\ y.tick = z.tick /\ y.overflows = z.overflows
        /\ y.state = z.state /\ y.cur = z.cur /\ y.susp = z.susp /\ y.pended = z.pended /\ y.fault = z.fault
    BY <1>14 DEF SameRest
  <2>2. /\ y.state \in [Task -> {NotWaiting, Waiting, Received}] /\ y.cur \in Task /\ y.susp \in Nat
        /\ y.pended \in Nat /\ y.fault \in {0, 1} /\ y.yield \in {0, 1}
    BY <1>8, <1>9, <1>11, <1>15, <2>1 DEF Data, Shape
  <2>3. QED BY <1>9, <1>13, <2>1, <2>2, DataSame
<1>17. SameRest(x, y)
  BY <1>10, <1>14 DEF SameRest
<1>18. First(x, y, l, t)
  BY <1>1, <1>9, <1>13, <1>15, <1>16, <1>17 DEF First
<1>19. QED BY <1>7, <1>18

\* A task that is woken in the middle of a step.
LEMMA FirstBetween ==
  ASSUME SchedInv, NEW z, Between(z, held), NEW l \in EventLists, NEW x \in Task, NEW y, First(z, y, l, x)
  PROVE  Between(y, held) /\ (Lowest(z) => Lowest(y))
<1>1. /\ Data(z) /\ z.fault = 0 /\ z.preempt = 1 /\ z.started = 1 /\ z.cur = k.cur /\ z.susp = k.susp
      /\ Parked(z) /\ k.cur \in Task /\ Idle \in Task /\ (k.susp = 0 \/ k.susp = 1)
      /\ z.where[z.cur] # None /\ z.where[Idle] = Ready(0)
  BY Locked DEF Between
<1>2. /\ Data(y) /\ y.prio = z.prio /\ y.state = z.state /\ y.cur = z.cur /\ y.started = z.started
      /\ y.susp = z.susp /\ y.fault = z.fault /\ y.preempt = z.preempt
  BY DEF First, SameRest
<1>3. /\ \A u \in Task \ {x} : y.evt[u] = z.evt[u] /\ y.where[u] = z.where[u]
      /\ y.evt[x] = IF z.susp = 0 THEN None ELSE Pending
      /\ y.where[x] = IF z.susp = 0 THEN Ready(z.prio[x]) ELSE z.where[x]
  <2>1. DOMAIN z.evt = Task /\ DOMAIN z.where = Task
    BY <1>1 DEF Data, Shape
  <2>2. QED BY <2>1 DEF First
<1>4. z.evt[x] = l /\ l # None /\ l # Pending
  BY ListNames DEF First
<1>5. z.where[x] \in DelayedLists \cup {Suspended} /\ z.where[x] # None /\ z.state[x] # Waiting
  BY <1>1, <1>4, ListNames DEF Parked
<1>6. \A p : Ready(p) # None /\ Ready(p) \notin DelayedLists \cup {Suspended}
  BY ListNames DEF DelayedLists
<1>7. x # Idle
  BY <1>1, <1>5, <1>6
<1>8. Parked(y)
  <2>1. ASSUME NEW u \in Task
        PROVE  /\ y.evt[u] # None => y.where[u] # None /\ y.state[u] # Waiting
               /\ y.evt[u] = Pending => y.susp = 1
               /\ y.evt[u] \in EventLists => y.where[u] \in DelayedLists \cup {Suspended}
    <3>1. CASE u # x
      BY <1>1, <1>2, <1>3, <3>1 DEF Parked
    <3>2. CASE u = x
      BY <1>1, <1>2, <1>3, <1>5, <3>2, ListNames
    <3>3. QED BY <3>1, <3>2
  <2>2. QED BY <2>1 DEF Parked
<1>9. y.where[y.cur] # None /\ y.where[Idle] = Ready(0) /\ y.prio[Idle] = 0 /\ y.state[Idle] # Waiting
  BY <1>1, <1>2, <1>3, <1>5, <1>6, <1>7 DEF Between
<1>10. \A u \in held : y.where[u] = Suspended /\ y.evt[u] = None /\ y.state[u] # Waiting
  <2>1. held \subseteq Task
    BY DEF SchedInv, HeldInv, Users
  <2>2. x \notin held
    BY <1>4 DEF Between
  <2>3. QED BY <1>2, <1>3, <2>1, <2>2 DEF Between
<1>11. pc[k.cur][1] \notin Leaving => y.where[k.cur] = Ready(y.prio[k.cur])
  BY <1>1, <1>2, <1>3 DEF Between
<1>12. \A u \in Users \ held :
         pc[u][1] \in {"blocked", "handover", "collect"} /\ y.state[u] # Waiting =>
           y.where[u] = Ready(y.prio[u]) \/ y.evt[u] = Pending
  <2>1. \A u \in Users : u \in Task
    BY DEF Users
  <2>2. QED BY <1>2, <1>3, <2>1 DEF Between
<1>13. \A u \in Task :
         pc[u][1] \in {"block_take", "block_wait"} /\ y.state[u] # Waiting => y.evt[u] = Pending
  BY <1>2, <1>3, <1>4 DEF Between
<1>14. Between(y, held)
  BY <1>1, <1>2, <1>8, <1>9, <1>10, <1>11, <1>12, <1>13 DEF Between
<1>15. ASSUME Lowest(z) PROVE Lowest(y)
  <2>1. ASSUME y.yield = 0, pc[k.cur][1] \notin Yielding,
               NEW u \in Task, y.where[u] = Ready(y.prio[u])
        PROVE  y.prio[u] <= y.prio[k.cur] \/ (pc[k.cur][1] = "created" /\ y.prio[u] <= pc[k.cur][2])
    <3>1. z.prio[u] \in Int /\ z.prio[k.cur] \in Int
      BY <1>1, TasksAssumption DEF Data, Shape, Priorities
    <3>2. z.yield = 0 /\ ~(z.prio[x] > z.prio[k.cur])
      BY <1>1, <2>1 DEF First
    <3>3. CASE y.where[u] = z.where[u]
      BY <1>2, <1>15, <2>1, <3>2, <3>3 DEF Lowest
    <3>4. CASE y.where[u] # z.where[u]
      BY <1>2, <1>3, <3>1, <3>2, <3>4
    <3>5. QED BY <3>3, <3>4
  <2>2. QED BY <2>1 DEF Lowest
<1>16. QED BY <1>14, <1>15

(* The clock stands still, and nobody is marked as waiting or notified. *)
SameClock(x, y) ==
  y.tick = x.tick /\ y.overflows = x.overflows /\ y.pended = x.pended /\ y.state = x.state

(* One task of list l is woken, if there is one. *)
WakesOne(x, y, l) ==
  \/ y.evt = x.evt /\ y.where = x.where /\ \A u \in Task : x.evt[u] # l
  \/ \E t \in Task : /\ x.evt[t] = l /\ y.evt[t] = IF x.susp = 0 THEN None ELSE Pending
                     /\ \A u \in Task \ {t} : y.evt[u] = x.evt[u]
                     /\ x.susp # 0 => y.where = x.where

\* What WakeFirst does in the middle of a step.
LEMMA WakeFirstDoes ==
  ASSUME SchedInv, NEW z, Between(z, held), Lowest(z), NEW l \in EventLists, NEW r, r = WakeFirst(z, l)
  PROVE  /\ Between(r.k, held) /\ Lowest(r.k) /\ SameRest(z, r.k) /\ WakesOne(z, r.k, l)
         /\ r.woken \in BOOLEAN
<1>1. Data(z) /\ Parked(z)
  BY DEF Between
<1>2. CASE z.list[l] = <<>>
  <2>1. r.k = z /\ r.woken = FALSE
    BY <1>2 DEF WakeFirst
  <2>2. \A u \in Task : z.evt[u] # l
    BY <1>1, <1>2, WaitersListed
  <2>3. QED BY <2>1, <2>2 DEF SameRest, WakesOne
<1>3. CASE z.list[l] # <<>>
  <2>1. PICK t \in Task : t = Head(z.list[l]) /\ z.evt[t] = l
    BY <1>1, <1>3, WaitersListed
  <2>2. z.where[t] # None
    BY <1>1, <2>1, ListNames DEF Parked
  <2>3. r = xTaskRemoveFromEventList(z, l)
    BY <1>3 DEF WakeFirst
  <2>4. First(z, r.k, l, t) /\ r.woken = (z.prio[t] > z.prio[z.cur])
    BY <1>1, <1>3, <2>1, <2>2, <2>3, RemoveFromDoes
  <2>5. Between(r.k, held) /\ Lowest(r.k)
    BY <2>4, FirstBetween
  <2>6. SameRest(z, r.k)
    BY <2>4 DEF First
  <2>7. WakesOne(z, r.k, l)
    <3>1. DOMAIN z.evt = Task
      BY <1>1 DEF Data, Shape
    <3>2. r.k.evt[t] = (IF z.susp = 0 THEN None ELSE Pending)
          /\ (\A u \in Task \ {t} : r.k.evt[u] = z.evt[u]) /\ (z.susp # 0 => r.k.where = z.where)
      BY <2>4, <3>1 DEF First
    <3>3. QED BY <2>1, <3>2 DEF WakesOne
  <2>8. QED BY <2>4, <2>5, <2>6, <2>7
<1>4. QED BY <1>2, <1>3

\* A critical section that wakes the first task of a list, and may end in a switch.
LEMMA WakesAndGoesOn ==
  ASSUME SchedInv, app' = app, last' = last, ticks' = ticks, held' = held,
         DOMAIN pc' = Task, \A u \in Task : GoesOn(pc[u], pc'[u]),
         NEW l \in EventLists, NEW r, r = WakeFirst(k, l), k' = r.k \/ k' = vTaskSwitchContext(r.k)
  PROVE  SchedInv' /\ SameClock(k, k') /\ WakesOne(k, k', l) /\ k'.prio = k.prio
<1>1. Between(k, held) /\ Lowest(k)
  BY NowBetween
<1>2. Between(r.k, held) /\ Lowest(r.k) /\ SameRest(k, r.k) /\ WakesOne(k, r.k, l)
  BY <1>1, WakeFirstDoes
<1>3. r.k.pended = k.pended /\ r.k.tick = k.tick /\ r.k.susp = k.susp /\ r.k.overflows = k.overflows
  BY <1>2 DEF SameRest
<1>4. /\ r.k.pended \in 0 .. MaxPended /\ (r.k.susp = 0 => r.k.pended = 0)
      /\ ticks' = (r.k.tick + r.k.pended) % TickMod
  BY <1>3, KernelTime
<1>5. SchedInv' /\ Settled(r.k, k')
  BY <1>2, <1>4, Settles
<1>6. SameClock(k, k')
  BY <1>2, <1>3, <1>5 DEF Settled, SameClock, SameRest
<1>7. k'.evt = r.k.evt /\ k'.where = r.k.where
  BY <1>5 DEF Settled
<1>8. WakesOne(k, k', l)
  BY <1>2, <1>7 DEF WakesOne
<1>9. k'.prio = k.prio
  BY <1>2, <1>5 DEF Settled, SameRest
<1>10. QED BY <1>5, <1>6, <1>8, <1>9

\* What vTaskMissedYield notes is a switch that is pending.
LEMMA MissedBetween ==
  ASSUME SchedInv, NEW z, Between(z, held), NEW y, y = vTaskMissedYield(z)
  PROVE  Between(y, held) /\ Lowest(y) /\ SameRest(z, y) /\ y.evt = z.evt /\ y.where = z.where
<1>1. Data(z) /\ DOMAIN z = Fields
  BY DEF Between, Data, Shape
<1>2. /\ DOMAIN y = Fields /\ y.list = z.list /\ y.index = z.index /\ y.where = z.where /\ y.evt = z.evt
      /\ y.wake = z.wake /\ y.left = z.left /\ y.top = z.top /\ y.unblock = z.unblock /\ y.yield = 1
      /\ SameRest(z, y)
  BY <1>1 DEF vTaskMissedYield, Fields, SameRest
<1>3. /\ y.prio = z.prio /\ y.del = z.del /\ y.tick = z.tick /\ y.overflows = z.overflows
      /\ y.state = z.state /\ y.cur = z.cur /\ y.susp = z.susp /\ y.pended = z.pended /\ y.fault = z.fault
      /\ y.started = z.started /\ y.preempt = z.preempt
  BY <1>2 DEF SameRest
<1>4. /\ y.state \in [Task -> {NotWaiting, Waiting, Received}] /\ y.cur \in Task /\ y.susp \in Nat
      /\ y.pended \in Nat /\ y.fault \in {0, 1} /\ y.yield \in {0, 1}
  BY <1>1, <1>2, <1>3 DEF Data, Shape
<1>5. Data(y)
  BY <1>1, <1>2, <1>3, <1>4, DataSame
<1>6. Parked(y)
  BY <1>2, <1>3 DEF Between, Parked
<1>7. Between(y, held)
  BY <1>2, <1>3, <1>5, <1>6 DEF Between
<1>8. Lowest(y)
  BY <1>2 DEF Lowest
<1>9. QED BY <1>2, <1>7, <1>8

(* The values f that the loop of prvUnlockQueue over a lock count goes through. *)
MissRun(f, l, lock) ==
  /\ MakeUpFor(l, lock) = f[LeftOut(lock)] /\ f[0] = k
  /\ \A n \in 1 .. LeftOut(lock) : f[n] = MakeUpForOne(f[n - 1], l)

\* There are such values.
LEMMA MissLoop ==
  ASSUME NEW l, NEW lock \in Int
  PROVE  LeftOut(lock) \in Nat /\ \E f : MissRun(f, l, lock)
<1>0. PICK c \in Nat : c = LeftOut(lock)
  BY DEF LeftOut
<1>00. PICK s : s = [i \in 1 .. c |-> i] OBVIOUS
<1>000. Len(s) = c /\ \A i \in 1 .. c : s[i] = i
  BY <1>00
<1> DEFINE Rec(g, m) == g = [n \in 0 .. m |-> IF n = 0 THEN k ELSE MakeUpForOne(g[n - 1], l)]
           S == {m \in Nat : \E g : Rec(g, m)}
<1>1. 0 \in S
  <2>1. PICK g : g = [n \in 0 .. 0 |-> k] OBVIOUS
  <2>2. Rec(g, 0)
    BY <2>1
  <2>3. QED BY <2>2
<1>2. ASSUME NEW m \in 0 .. c - 1, m \in S PROVE m + 1 \in S
  <2>1. PICK g : Rec(g, m)
    BY <1>2
  <2>2. PICK a : a = MakeUpForOne(g[m], l) OBVIOUS
  <2>3. PICK h : h = [n \in 0 .. m + 1 |-> IF n = m + 1 THEN a ELSE g[n]] OBVIOUS
  <2>4. h[m + 1] = a /\ \A n \in 0 .. m : h[n] = g[n]
    BY <2>3
  <2>5. ASSUME NEW n \in 0 .. m + 1 PROVE h[n] = IF n = 0 THEN k ELSE MakeUpForOne(h[n - 1], l)
    <3>1. CASE n = m + 1
      <4>1. h[n - 1] = g[m] /\ n # 0
        BY <2>4, <3>1
      <4>2. QED BY <2>2, <2>4, <3>1, <4>1
    <3>2. CASE n # m + 1
      <4>1. n \in 0 .. m
        BY <3>2
      <4>2. g[n] = IF n = 0 THEN k ELSE MakeUpForOne(g[n - 1], l)
        BY <2>1, <4>1
      <4>3. n # 0 => n - 1 \in 0 .. m
        BY <4>1
      <4>4. QED BY <2>4, <4>1, <4>2, <4>3
    <3>3. QED BY <3>1, <3>2
  <2>6. h = [n \in 0 .. m + 1 |-> IF n = 0 THEN k ELSE MakeUpForOne(h[n - 1], l)]
    BY <2>3, <2>5
  <2>7. QED BY <2>6
<1>3. c \in S
  <2> HIDE DEF S
  <2>1. 0 .. c \subseteq S
    BY <1>1, <1>2, UpTo
  <2>2. QED BY <2>1
<1>4. PICK f : f = CHOOSE g : Rec(g, c) OBVIOUS
<1>5. Rec(f, c)
  BY <1>3, <1>4
<1>6. MakeUpFor(l, lock) = f[c]
  BY <1>0, <1>4 DEF ForEach, MakeUpFor
<1>7. f[0] = k /\ \A n \in 1 .. c : f[n] = MakeUpForOne(f[n - 1], l)
  BY <1>5
<1>8. MissRun(f, l, lock)
  BY <1>0, <1>6, <1>7 DEF MissRun
<1>9. QED BY <1>0, <1>8

(* The tasks U of list l are called, the scheduler being suspended: as many   *)
(* as n, or all of them.                                                      *)
CalledAre(x, y, l, n, U) ==
  /\ U \subseteq Task /\ y.where = x.where
  /\ \A u \in U : x.evt[u] = l /\ y.evt[u] = Pending
  /\ \A u \in Task \ U : y.evt[u] = x.evt[u]
  /\ Cardinality(U) = n \/ \A u \in Task : y.evt[u] # l

\* One turn of the loop calls one more.
LEMMA OneMoreCalled ==
  ASSUME NEW x, NEW z, NEW y, NEW l \in EventLists, NEW n \in Nat, NEW U, CalledAre(x, z, l, n, U),
         z.susp = 1, WakesOne(z, y, l)
  PROVE  \E V : CalledAre(x, y, l, n + 1, V)
<1>1. IsFiniteSet(U) /\ IsFiniteSet(Task)
  BY TasksAssumption, FS_Subset DEF CalledAre
<1>2. CASE y.evt = z.evt /\ y.where = z.where /\ \A u \in Task : z.evt[u] # l
  <2>1. CalledAre(x, y, l, n + 1, U)
    BY <1>2 DEF CalledAre
  <2>2. QED BY <2>1
<1>3. CASE \E t \in Task : /\ z.evt[t] = l /\ y.evt[t] = Pending
                           /\ \A u \in Task \ {t} : y.evt[u] = z.evt[u]
                           /\ y.where = z.where
  <2>1. PICK t \in Task : /\ z.evt[t] = l /\ y.evt[t] = Pending
                          /\ \A u \in Task \ {t} : y.evt[u] = z.evt[u]
                          /\ y.where = z.where
    BY <1>3
  <2>2. None # l /\ Pending # l
    BY ListNames
  <2>3. t \notin U /\ x.evt[t] = l /\ y.evt[t] = Pending
    BY <2>1, <2>2 DEF CalledAre
  <2>4. Cardinality(U) = n
    BY <2>1 DEF CalledAre
  <2>5. PICK V : V = U \cup {t} OBVIOUS
  <2>6. Cardinality(V) = n + 1
    BY <1>1, <2>3, <2>4, <2>5, FS_AddElement
  <2>7. V \subseteq Task /\ y.where = x.where
    BY <2>1, <2>5 DEF CalledAre
  <2>8. \A u \in V : x.evt[u] = l /\ y.evt[u] = Pending
    BY <2>1, <2>3, <2>5 DEF CalledAre
  <2>9. \A u \in Task \ V : y.evt[u] = x.evt[u]
    BY <2>1, <2>5 DEF CalledAre
  <2>10. CalledAre(x, y, l, n + 1, V)
    BY <2>6, <2>7, <2>8, <2>9 DEF CalledAre
  <2>11. QED BY <2>10
<1>4. QED BY <1>2, <1>3 DEF WakesOne

(* The state in the middle of the loop of prvUnlockQueue, after n turns. *)
Missed(z, l, n) ==
  /\ Between(z, held) /\ Lowest(z) /\ SameRest(k, z)
  /\ \E U : CalledAre(k, z, l, n, U)

\* One turn of the loop.
LEMMA MissedTurn ==
  ASSUME SchedInv, k.susp = 1, NEW l \in EventLists, NEW z, NEW n \in Nat, Missed(z, l, n),
         NEW y, y = MakeUpForOne(z, l)
  PROVE  Missed(y, l, n + 1)
<1>1. /\ Between(z, held) /\ Lowest(z) /\ SameRest(k, z) /\ z.susp = 1
  BY DEF Missed, SameRest
<1>2. PICK U : CalledAre(k, z, l, n, U)
  BY DEF Missed
<1>3. PICK r : r = WakeFirst(z, l) OBVIOUS
<1>4. /\ Between(r.k, held) /\ Lowest(r.k) /\ SameRest(z, r.k) /\ WakesOne(z, r.k, l)
      /\ r.woken \in BOOLEAN
  BY <1>1, <1>3, WakeFirstDoes
<1>5. /\ Between(y, held) /\ Lowest(y) /\ SameRest(r.k, y) /\ y.evt = r.k.evt /\ y.where = r.k.where
  <2>1. CASE r.woken
    <3>1. y = vTaskMissedYield(r.k)
      BY <1>3, <2>1 DEF MakeUpForOne
    <3>2. QED BY <1>4, <3>1, MissedBetween
  <2>2. CASE ~r.woken
    <3>1. y = r.k
      BY <1>3, <2>2 DEF MakeUpForOne
    <3>2. QED BY <1>4, <3>1 DEF SameRest
  <2>3. QED BY <2>1, <2>2
<1>6. SameRest(k, y) /\ y.susp = 1
  BY <1>1, <1>4, <1>5 DEF SameRest
<1>7. WakesOne(z, y, l)
  BY <1>4, <1>5 DEF WakesOne
<1>8. \E V : CalledAre(k, y, l, n + 1, V)
  BY <1>1, <1>2, <1>7, OneMoreCalled
<1>9. QED BY <1>5, <1>6, <1>8 DEF Missed

(* The tasks of list l that prvUnlockQueue calls for a lock count. *)
Called(x, y, l, lock) == \E U : CalledAre(x, y, l, LeftOut(lock), U)

\* prvUnlockQueue wakes as many tasks as were left out, or all who wait.
LEMMA MakeUpForDoes ==
  ASSUME SchedInv, k.susp = 1, app' = app, last' = last, ticks' = ticks, held' = held,
         DOMAIN pc' = Task, \A u \in Task : GoesOn(pc[u], pc'[u]),
         NEW l \in EventLists, NEW lock \in Int, k' = MakeUpFor(l, lock)
  PROVE  SchedInv' /\ SameClock(k, k') /\ Called(k, k', l, lock) /\ k'.prio = k.prio
<1>1. PICK f : MissRun(f, l, lock)
  BY MissLoop
<1>2. PICK c \in Nat : c = LeftOut(lock)
  BY MissLoop
<1>3. /\ k' = f[c] /\ f[0] = k /\ \A n \in 1 .. c : f[n] = MakeUpForOne(f[n - 1], l)
  BY <1>1, <1>2 DEF MissRun
<1> DEFINE S == {n \in 0 .. c : Missed(f[n], l, n)}
<1>4. 0 \in S
  <2>1. CalledAre(k, k, l, 0, {})
    BY FS_EmptySet DEF CalledAre
  <2>2. SameRest(k, k) /\ Between(k, held) /\ Lowest(k)
    BY NowBetween DEF SameRest
  <2>3. Missed(k, l, 0)
    BY <2>1, <2>2 DEF Missed
  <2>4. QED BY <1>3, <2>3
<1>5. ASSUME NEW n \in 0 .. c - 1, n \in S PROVE n + 1 \in S
  <2>1. Missed(f[n], l, n) /\ n \in Nat /\ n + 1 \in 1 .. c /\ n + 1 \in 0 .. c
    BY <1>5
  <2>2. f[n + 1] = MakeUpForOne(f[n], l)
    BY <1>3, <2>1
  <2>3. Missed(f[n + 1], l, n + 1)
    BY <2>1, <2>2, MissedTurn
  <2>4. QED BY <2>1, <2>3
<1>6. c \in S
  <2> HIDE DEF S
  <2>1. 0 .. c \subseteq S
    BY <1>4, <1>5, UpTo
  <2>2. QED BY <2>1
<1>7. PICK z : z = f[c] OBVIOUS
<1>8. Between(z, held) /\ Lowest(z) /\ SameRest(k, z) /\ \E U : CalledAre(k, z, l, c, U)
  BY <1>6, <1>7 DEF Missed
<1>9. z.pended = k.pended /\ z.tick = k.tick /\ z.susp = k.susp /\ z.overflows = k.overflows
      /\ z.prio = k.prio /\ z.state = k.state
  BY <1>8 DEF SameRest
<1>10. /\ z.pended \in 0 .. MaxPended /\ (z.susp = 0 => z.pended = 0)
       /\ ticks' = (z.tick + z.pended) % TickMod
  BY <1>9, KernelTime
<1>11. SchedInv'
  BY <1>3, <1>7, <1>8, <1>10, Settles
<1>12. SameClock(k, k')
  BY <1>3, <1>7, <1>9 DEF SameClock
<1>13. Called(k, k', l, lock)
  BY <1>2, <1>3, <1>7, <1>8 DEF Called
<1>14. QED BY <1>3, <1>7, <1>9, <1>11, <1>12, <1>13

-----------------------------------------------------------------------------
(* What each step of queue.c does to the scheduler *)

\* A step that leaves the scheduler alone.
LEMMA QueueRests ==
  ASSUME SchedInv, app' = app, last' = last, ticks' = ticks, held' = held,
         DOMAIN pc' = Task, \A u \in Task : GoesOn(pc[u], pc'[u]), k' = k
  PROVE  SchedInv'
BY NowBetween, Settles

\* One task goes on.
LEMMA OneGoesOn ==
  ASSUME SchedInv, NEW t \in Task, NEW p, NEW n, Goto(t, p, n),
         \/ pc[t][1] \in Plain /\ p \in Plain
         \/ pc[t][1] \in Inside /\ p \in Inside /\ (pc[t][1] \in Leaving => p \in Leaving)
  PROVE  DOMAIN pc' = Task /\ \A u \in Task : GoesOn(pc[u], pc'[u])
<1>1. DOMAIN pc' = Task /\ (\A u \in Task \ {t} : pc'[u] = pc[u]) /\ pc'[t][1] = p
  BY GotoDoes
<1>2. ASSUME NEW u \in Task PROVE GoesOn(pc[u], pc'[u])
  <2>1. CASE u = t
    BY <1>1, <2>1 DEF GoesOn
  <2>2. CASE u # t
    BY <1>1, <2>2 DEF GoesOn
  <2>3. QED BY <2>1, <2>2
<1>3. QED BY <1>1, <1>2

\* The two lists of the queue.
LEMMA TwoLists ==
  /\ Rx \in EventLists /\ Tx \in EventLists /\ Rx # Tx
  /\ Rx # None /\ Tx # None /\ Rx # Pending /\ Tx # Pending
<1>1. Rx \in EventLists /\ Tx \in EventLists
  BY QueueAssumption DEF Rx, Tx
<1>2. Rx # Tx
  BY DEF Rx, Tx
<1>3. QED BY <1>1, <1>2, ListNames

\* A task that wakes another one gives way to it, or does not.
LEMMA WakeAndYieldIs ==
  ASSUME NEW l
  PROVE  \E r : r = WakeFirst(k, l) /\ WakeAndYield(l) \in {r.k, vTaskSwitchContext(r.k)}
<1>1. PICK r : r = WakeFirst(k, l) OBVIOUS
<1>2. WakeAndYield(l) \in {r.k, vTaskSwitchContext(r.k)}
  BY <1>1 DEF WakeAndYield, YieldIfPreempting
<1>3. QED BY <1>1, <1>2

\* The first critical section of a call.
LEMMA TryDoes ==
  ASSUME SchedInv, app' = app, last' = last, ticks' = ticks, held' = held,
         NEW t \in Task, pc[t][1] \in {"run", "again"}, NEW c, Try(t, c)
  PROVE  /\ SchedInv' /\ SameClock(k, k') /\ k'.prio = k.prio
         /\ NotReady(c) => k' = k
         /\ ~NotReady(c) => WakesOne(k, k', Wakes(c))
<1>1. pc[t][1] \in Plain /\ {"run", "failed", "suspend_all"} \subseteq Plain
  BY DEF Plain
<1>2. DOMAIN pc' = Task /\ \A u \in Task : GoesOn(pc[u], pc'[u])
  <2>1. \E p \in {"run", "failed", "suspend_all"} : Goto(t, p, 0)
    BY DEF Try
  <2>2. QED BY <1>1, <2>1, OneGoesOn
<1>3. CASE NotReady(c)
  <2>1. k' = k
    BY <1>3 DEF Try
  <2>2. SchedInv'
    BY <1>2, <2>1, QueueRests
  <2>3. QED BY <1>3, <2>1, <2>2 DEF SameClock
<1>4. CASE ~NotReady(c)
  <2>1. k' = WakeAndYield(Wakes(c))
    BY <1>4 DEF Try
  <2>2. PICK l \in EventLists : l = Wakes(c)
    BY TwoLists DEF Wakes
  <2>3. PICK r : r = WakeFirst(k, l) /\ (k' = r.k \/ k' = vTaskSwitchContext(r.k))
    BY <2>1, <2>2, WakeAndYieldIs
  <2>4. SchedInv' /\ SameClock(k, k') /\ WakesOne(k, k', l) /\ k'.prio = k.prio
    BY <1>2, <2>3, WakesAndGoesOn
  <2>5. QED BY <1>4, <2>2, <2>4
<1>5. QED BY <1>3, <1>4

\* xQueueGenericReset.
LEMMA ClearDoes ==
  ASSUME SchedInv, app' = app, NEW t \in Task, xQueueGenericReset(t)
  PROVE  SchedInv' /\ SameClock(k, k') /\ k'.prio = k.prio /\ WakesOne(k, k', Tx)
<1>1. /\ k' = WakeAndYield(Tx) /\ pc' = pc /\ last' = last /\ ticks' = ticks /\ held' = held
  BY DEF xQueueGenericReset
<1>2. DOMAIN pc' = Task /\ \A u \in Task : GoesOn(pc[u], pc'[u])
  BY <1>1, AllStay
<1>3. PICK r : r = WakeFirst(k, Tx) /\ (k' = r.k \/ k' = vTaskSwitchContext(r.k))
  BY <1>1, WakeAndYieldIs
<1>4. QED BY <1>1, <1>2, <1>3, TwoLists, WakesAndGoesOn

\* The end of an interrupt handler that wakes the first task of a list.
LEMMA IsrDoes ==
  ASSUME SchedInv, app' = app, last' = last, ticks' = ticks, held' = held, pc' = pc,
         NEW l \in EventLists, NEW r, r = WakeFirst(k, l), EndOfIsr(r.k, r.woken)
  PROVE  SchedInv' /\ SameClock(k, k') /\ k'.prio = k.prio /\ WakesOne(k, k', l)
<1>1. DOMAIN pc' = Task /\ \A u \in Task : GoesOn(pc[u], pc'[u])
  BY AllStay
<1>2. k' = r.k \/ k' = vTaskSwitchContext(r.k)
  BY DEF EndOfIsr
<1>3. QED BY <1>1, <1>2, WakesAndGoesOn

\* Both sends from an interrupt.
LEMMA IsrFillsDoes ==
  ASSUME SchedInv, app' = app, NEW filled, IsrFills(filled)
  PROVE  /\ SchedInv' /\ SameClock(k, k') /\ k'.prio = k.prio /\ pc' = pc /\ w' = w
         /\ q.tx = queueUNLOCKED => q' = filled /\ WakesOne(k, k', Rx)
         /\ q.tx # queueUNLOCKED => k' = k /\ q' = [filled EXCEPT !.tx = IncrementLock(@)]
<1>1. pc' = pc /\ w' = w /\ last' = last /\ ticks' = ticks /\ held' = held
  BY DEF IsrFills
<1>2. CASE q.tx = queueUNLOCKED
  <2>1. PICK r : r = WakeFirst(k, Rx) OBVIOUS
  <2>2. q' = filled /\ EndOfIsr(r.k, r.woken)
    BY <1>2, <2>1 DEF IsrFills
  <2>3. SchedInv' /\ SameClock(k, k') /\ k'.prio = k.prio /\ WakesOne(k, k', Rx)
    BY <1>1, <2>1, <2>2, TwoLists, IsrDoes
  <2>4. QED BY <1>1, <1>2, <2>2, <2>3
<1>3. CASE q.tx # queueUNLOCKED
  <2>1. k' = k /\ q' = [filled EXCEPT !.tx = IncrementLock(@)]
    BY <1>3 DEF IsrFills
  <2>2. SchedInv'
    BY <1>1, <2>1, AllStay, QueueRests
  <2>3. QED BY <1>1, <1>3, <2>1, <2>2 DEF SameClock
<1>4. QED BY <1>2, <1>3

\* xQueueReceiveFromISR.
LEMMA IsrTakesDoes ==
  ASSUME SchedInv, app' = app, xQueueReceiveFromISR,
         NEW taken, taken = [prvCopyDataFromQueue EXCEPT !.n = @ - 1]
  PROVE  /\ SchedInv' /\ SameClock(k, k') /\ k'.prio = k.prio /\ pc' = pc /\ w' = w
         /\ q.rx = queueUNLOCKED => q' = taken /\ WakesOne(k, k', Tx)
         /\ q.rx # queueUNLOCKED => k' = k /\ q' = [taken EXCEPT !.rx = IncrementLock(@)]
<1>1. pc' = pc /\ w' = w /\ last' = last /\ ticks' = ticks /\ held' = held
  BY DEF xQueueReceiveFromISR
<1>2. CASE q.rx = queueUNLOCKED
  <2>1. PICK r : r = WakeFirst(k, Tx) OBVIOUS
  <2>2. q' = taken /\ EndOfIsr(r.k, r.woken)
    BY <1>2, <2>1 DEF xQueueReceiveFromISR
  <2>3. SchedInv' /\ SameClock(k, k') /\ k'.prio = k.prio /\ WakesOne(k, k', Tx)
    BY <1>1, <2>1, <2>2, TwoLists, IsrDoes
  <2>4. QED BY <1>1, <1>2, <2>2, <2>3
<1>3. CASE q.rx # queueUNLOCKED
  <2>1. k' = k /\ q' = [taken EXCEPT !.rx = IncrementLock(@)]
    BY <1>3 DEF xQueueReceiveFromISR
  <2>2. SchedInv'
    BY <1>1, <2>1, AllStay, QueueRests
  <2>3. QED BY <1>1, <1>3, <2>1, <2>2 DEF SameClock
<1>4. QED BY <1>2, <1>3

\* The steps of a call that only move on.
LEMMA MovesOnDoes ==
  ASSUME SchedInv, app' = app, NEW t \in Task, Fails(t) \/ LockAndCheck(t) \/ LookOnceMore(t)
  PROVE  SchedInv' /\ k' = k
<1>1. k' = k /\ last' = last /\ ticks' = ticks /\ held' = held
  BY DEF Fails, LockAndCheck, LookOnceMore
<1>2. \E p : /\ Goto(t, p, 0)
             /\ \/ pc[t][1] \in Plain /\ p \in Plain
                \/ pc[t][1] \in Inside /\ p \in Inside /\ (pc[t][1] \in Leaving => p \in Leaving)
  <2>1. CASE Fails(t)
    BY <2>1 DEF Fails, At, Plain
  <2>2. CASE LookOnceMore(t)
    <3>1. \E p \in {"failed", "again"} : Goto(t, p, 0)
      BY <2>2 DEF LookOnceMore
    <3>2. QED BY <2>2, <3>1 DEF LookOnceMore, At, Plain
  <2>3. CASE LockAndCheck(t)
    <3>1. \E p \in {"unlock_tx", "place"} : Goto(t, p, 0)
      BY <2>3 DEF LockAndCheck
    <3>2. pc[t][1] = "lock"
      BY <2>3 DEF LockAndCheck, At
    <3>3. QED BY <3>1, <3>2 DEF Inside, Leaving
  <2>4. QED BY <2>1, <2>2, <2>3
<1>3. DOMAIN pc' = Task /\ \A u \in Task : GoesOn(pc[u], pc'[u])
  BY <1>2, OneGoesOn
<1>4. QED BY <1>1, <1>3, QueueRests

\* vTaskSuspendAll of a task that is about to wait.
LEMMA QueueSuspendsDoes ==
  ASSUME SchedInv, app' = app, NEW t \in Users, QueueSuspendsAll(t)
  PROVE  SchedInv' /\ Passes(k, k', 0) /\ k'.evt = k.evt /\ k'.where = k.where
<1>1. /\ t = k.cur /\ pc[t][1] = "suspend_all" /\ last' = last /\ ticks' = ticks /\ held' = held
      /\ t \in Task /\ Goto(t, "lock", 0)
  BY DEF QueueSuspendsAll, At, Users
<1>2. PICK y : y = k' /\ y = vTaskSuspendAll(k)
  BY DEF QueueSuspendsAll
<1>3. k.susp = 0
  BY <1>1, Locked DEF Locking
<1>4. DOMAIN k = Fields /\ k.state \in [Task -> {NotWaiting, Waiting, Received}]
  BY DEF SchedInv, Data, Shape
<1>5. Suspending(k, y) /\ y.state = k.state /\ y.pended = k.pended
  BY <1>2, <1>3, <1>4 DEF vTaskSuspendAll, Suspending, Fields
<1>6. Data(y)
  BY <1>3, <1>4, <1>5, OpenTime, SuspendingData DEF SchedInv
<1>7. DOMAIN pc' = Task /\ (\A u \in Task \ {t} : pc'[u] = pc[u]) /\ pc'[t][1] = "lock"
  BY <1>1, GotoDoes
<1>8. TimeInv'
  BY <1>1, <1>2, <1>3, <1>5, OpenTime DEF TimeInv, Suspending
<1>9. /\ y.fault = 0 /\ y.preempt = 1 /\ y.started = 1 /\ y.susp = 1 /\ y.cur = k.cur /\ y.prio = k.prio
      /\ y.evt = k.evt /\ y.yield = k.yield /\ y.where = k.where /\ y.tick = k.tick
      /\ y.overflows = k.overflows
  BY <1>5 DEF Suspending, SchedInv
<1>10. SchedInv' /\ Passes(k, k', 0)
  BY <1>1, <1>2, <1>5, <1>6, <1>7, <1>8, <1>9, Locks
<1>11. QED BY <1>2, <1>9, <1>10

\* taskYIELD of a task on a wait list.
LEMMA GiveWayDoes ==
  ASSUME SchedInv, app' = app, NEW t \in Task, GiveWay(t)
  PROVE  SchedInv' /\ Passes(k, k', 0)
<1>1. /\ t = k.cur /\ k' = vTaskSwitchContext(k) /\ Goto(t, "again", 0) /\ last' = last /\ ticks' = ticks
      /\ held' = held /\ pc[t][1] = "give_way"
  BY DEF GiveWay, At
<1>2. Alike(k, k)
  BY DEF Alike, SchedInv
<1>3. DOMAIN pc' = Task /\ (\A u \in Task \ {t} : pc'[u] = pc[u]) /\ pc'[t][1] = "again"
  BY <1>1, GotoDoes
<1>4. QED BY <1>1, <1>2, <1>3, Switches

\* xTaskResumeAll of a task that goes to sleep or goes on.
LEMMA QueueResumesDoes ==
  ASSUME SchedInv, app' = app, NEW t \in Task, Waits(t), QueueResumesAll(t)
  PROVE  SchedInv' /\ Passes(k, k', 0)
<1>1. /\ t = k.cur /\ pc[t][1] = "resume_all" /\ last' = last /\ ticks' = ticks /\ held' = held
  BY DEF QueueResumesAll, At
<1>2. PICK r : r = xTaskResumeAll(k) OBVIOUS
<1>3. w[t].out \in {"wait", "retry", "timeout"} /\ (w[t].out # "wait" => k.where[t] = Ready(k.prio[t]))
  BY <1>1 DEF Waits, Calling
<1>4. PICK p \in {"again", "give_way", "failed", "look"} :
        /\ Goto(t, p, 0)
        /\ w[t].out = "wait" => p = IF r.yielded THEN "again" ELSE "give_way"
  BY <1>2, <1>3 DEF QueueResumesAll
<1>5. k' = r.k
  BY <1>2 DEF QueueResumesAll
<1>6. DOMAIN pc' = Task /\ (\A u \in Task \ {t} : pc'[u] = pc[u]) /\ pc'[t][1] = p
  BY <1>4, GotoDoes
<1>7. pc'[t][1] \notin Yielding /\ ~r.yielded => k.where[t] = Ready(k.prio[t])
  BY <1>3, <1>4, <1>6 DEF Yielding
<1>8. pc[t][1] \in Locking
  BY <1>1 DEF Locking
<1>9. QED BY <1>1, <1>2, <1>5, <1>6, <1>7, <1>8, Resumes

\* Both halves of prvUnlockQueue.
LEMMA UnlockDoes ==
  ASSUME SchedInv, app' = app, NEW t \in Task, q.tx \in Int, q.rx \in Int
  PROVE  /\ UnlockTx(t) => SchedInv' /\ SameClock(k, k') /\ Called(k, k', Rx, q.tx) /\ k'.prio = k.prio
         /\ UnlockRx(t) => SchedInv' /\ SameClock(k, k') /\ Called(k, k', Tx, q.rx) /\ k'.prio = k.prio
<1>1. {"unlock_tx", "unlock_rx", "resume_all"} \subseteq Inside \cap Leaving \cap Locking
  BY DEF Inside, Leaving, Locking
<1>2. CASE UnlockTx(t)
  <2>1. /\ t = k.cur /\ pc[t][1] = "unlock_tx" /\ last' = last /\ ticks' = ticks /\ held' = held
        /\ Goto(t, "unlock_rx", 0) /\ k' = MakeUpFor(Rx, q.tx)
    BY <1>2 DEF UnlockTx, At
  <2>2. k.susp = 1
    BY <1>1, <2>1, Locked
  <2>3. DOMAIN pc' = Task /\ \A u \in Task : GoesOn(pc[u], pc'[u])
    BY <1>1, <2>1, OneGoesOn
  <2>4. SchedInv' /\ SameClock(k, k') /\ Called(k, k', Rx, q.tx) /\ k'.prio = k.prio
    BY <2>1, <2>2, <2>3, TwoLists, MakeUpForDoes
  <2>5. ~UnlockRx(t)
    BY <2>1 DEF UnlockRx, At
  <2>6. QED BY <2>4, <2>5
<1>3. CASE UnlockRx(t)
  <2>1. /\ t = k.cur /\ pc[t][1] = "unlock_rx" /\ last' = last /\ ticks' = ticks /\ held' = held
        /\ Goto(t, "resume_all", 0) /\ k' = MakeUpFor(Tx, q.rx)
    BY <1>3 DEF UnlockRx, At
  <2>2. k.susp = 1
    BY <1>1, <2>1, Locked
  <2>3. DOMAIN pc' = Task /\ \A u \in Task : GoesOn(pc[u], pc'[u])
    BY <1>1, <2>1, OneGoesOn
  <2>4. SchedInv' /\ SameClock(k, k') /\ Called(k, k', Tx, q.rx) /\ k'.prio = k.prio
    BY <2>1, <2>2, <2>3, TwoLists, MakeUpForDoes
  <2>5. ~UnlockTx(t)
    BY <2>1 DEF UnlockTx, At
  <2>6. QED BY <2>4, <2>5
<1>4. QED BY <1>2, <1>3

\* vTaskPlaceOnEventList: the task is on the wait list and out of the ready list.
LEMMA PlacesDoes ==
  ASSUME SchedInv, app' = app, NEW t \in Users, Waits(t), Place(t), NotReady(w[t])
  PROVE  /\ SchedInv' /\ SameClock(k, k') /\ k'.prio = k.prio
         /\ k'.evt = [k.evt EXCEPT ![t] = WaitList(w[t])]
         /\ \A u \in Task \ {t} : k'.where[u] = k.where[u]
<1>1. /\ t = k.cur /\ pc[t][1] = "place" /\ last' = last /\ ticks' = ticks
      /\ held' = held /\ t \in Task /\ Goto(t, "unlock_tx", 0)
      /\ k' = vTaskPlaceOnEventList(k, WaitList(w[t]), w[t].ticks)
  BY DEF Place, At, Users
<1>2. k.susp = 1 /\ pc[t][1] \in Locking
  BY <1>1, Locked DEF Locking
<1>3. PICK n \in TickType \ {0} : n = w[t].ticks
  BY <1>1 DEF Waits, Calling
<1>4. PICK l \in EventLists : l = WaitList(w[t])
  BY TwoLists DEF WaitList
<1>5. k.evt[t] = None
  BY <1>1 DEF Waits, Calling, Asleep
<1>6. PICK m : m = vListInsert(k, l, t) OBVIOUS
<1>7. /\ Data(m) /\ SameRest(k, m) /\ SameMarks(k, m) /\ m.where = k.where
      /\ m.evt = [k.evt EXCEPT ![t] = l]
  BY <1>1, <1>5, <1>6, EventInData DEF SchedInv
<1>70. /\ m.prio = k.prio /\ m.state = k.state /\ m.cur = k.cur /\ m.started = k.started /\ m.tick = k.tick
       /\ m.susp = k.susp /\ m.pended = k.pended /\ m.fault = k.fault /\ m.preempt = k.preempt
       /\ m.overflows = k.overflows /\ m.yield = k.yield
  BY <1>7 DEF SameRest, SameMarks
<1>8. PICK y : y = k' OBVIOUS
<1>9. PICK b \in BOOLEAN : y = prvAddCurrentTaskToDelayedList(m, n, b)
  BY <1>1, <1>3, <1>4, <1>6, <1>8 DEF vTaskPlaceOnEventList
<1>10. /\ Data(y) /\ SameRest(m, y) /\ y.yield = m.yield /\ y.evt = m.evt
       /\ y.where = [m.where EXCEPT ![m.cur] = y.where[m.cur]]
       /\ y.where[m.cur] \in {Delayed(0), Delayed(1), Suspended}
  <2>1. m.where[m.cur] # None
    BY <1>7, <1>70 DEF SchedInv, ItemsInv
  <2>2. Data(m)
    BY <1>7
  <2>3. QED BY <1>9, <2>1, <2>2, DelayDoes
<1>11. (\A u \in Task \ {t} : y.where[u] = k.where[u]) /\ y.where[t] \in {Delayed(0), Delayed(1), Suspended}
  <2>1. k.where \in [Task -> StateLists \cup {None}]
    BY DEF SchedInv, Data, Shape
  <2>2. QED BY <1>1, <1>7, <1>10, <1>70, <2>1
<1>12. (\A u \in Task \ {t} : y.evt[u] = k.evt[u]) /\ y.evt[t] = l /\ y.evt = [k.evt EXCEPT ![t] = l]
  <2>1. DOMAIN k.evt = Task
    BY DEF SchedInv, Data, Shape
  <2>2. QED BY <1>1, <1>7, <1>10, <2>1
<1>13. /\ y.prio = k.prio /\ y.state = k.state /\ y.cur = k.cur /\ y.started = k.started /\ y.tick = k.tick
       /\ y.susp = k.susp /\ y.pended = k.pended /\ y.fault = k.fault /\ y.preempt = k.preempt
       /\ y.overflows = k.overflows /\ y.yield = k.yield
  BY <1>10, <1>70 DEF SameRest
<1>14. DOMAIN pc' = Task /\ (\A u \in Task \ {t} : pc'[u] = pc[u]) /\ pc'[t][1] = "unlock_tx"
  BY <1>1, GotoDoes
<1>15. PlacesInv'
  <2>1. "unlock_tx" \in Locking
    BY DEF Locking
  <2>2. QED BY <1>1, <1>2, <1>8, <1>13, <1>14, <2>1 DEF SchedInv, PlacesInv
<1>16. t # Idle /\ Idle \in Task
  BY Locked DEF Users
<1>17. k.state[t] # Waiting
  BY <1>1 DEF Waits, Notifying
<1>18. ItemsInv'
  <2>1. y.where[t] # None /\ y.where[t] \in DelayedLists \cup {Suspended}
    BY <1>11, ListNames DEF DelayedLists
  <2>2. ASSUME NEW u \in Task
        PROVE  /\ y.evt[u] # None => y.where[u] # None /\ y.state[u] # Waiting
               /\ y.evt[u] = Pending => y.susp = 1
               /\ y.evt[u] \in EventLists => y.where[u] \in DelayedLists \cup {Suspended}
    <3>1. CASE u = t
      BY <1>2, <1>13, <1>17, <2>1, <3>1
    <3>2. CASE u # t
      BY <1>11, <1>12, <1>13, <3>2 DEF SchedInv, ItemsInv, Parked
    <3>3. QED BY <3>1, <3>2
  <2>3. Parked(y)
    BY <2>2 DEF Parked
  <2>4. QED BY <1>1, <1>8, <1>11, <1>13, <1>16, <2>1, <2>3 DEF SchedInv, ItemsInv
<1>19. TimeInv'
  BY <1>1, <1>8, <1>13 DEF SchedInv, TimeInv
<1>20. t \notin held
  BY <1>1 DEF SchedInv, HeldInv
<1>21. HeldInv'
  <2>1. held \subseteq Task
    BY DEF SchedInv, HeldInv, Users
  <2>2. QED BY <1>1, <1>8, <1>11, <1>12, <1>13, <1>20, <2>1 DEF SchedInv, HeldInv
<1>22. RunsInv'
  <2>1. ASSUME y.yield = 0, NEW u \in Task, y.where[u] = Ready(y.prio[u]) PROVE y.prio[u] <= y.prio[t]
    <3>1. u # t
      BY <1>11, <2>1, ListNames
    <3>2. k.where[u] = Ready(k.prio[u]) /\ k.yield = 0
      BY <1>11, <1>13, <2>1, <3>1
    <3>3. pc[t][1] \notin Yielding /\ pc[t][1] # "created"
      BY <1>1 DEF Yielding
    <3>4. QED BY <1>1, <1>13, <3>2, <3>3 DEF SchedInv, RunsInv
  <2>2. pc'[t][1] \in Leaving
    BY <1>14 DEF Leaving
  <2>3. QED BY <1>1, <1>8, <1>13, <1>14, <2>1, <2>2 DEF RunsInv
<1>23. NotesInv'
  <2>1. \A u \in Users : u \in Task
    BY DEF Users
  <2>2. ASSUME NEW u \in Users \ held, pc'[u][1] \in {"blocked", "handover", "collect"}, y.state[u] # Waiting
        PROVE  y.where[u] = Ready(y.prio[u]) \/ y.evt[u] = Pending
    <3>1. u # t /\ pc'[u] = pc[u]
      BY <1>14, <2>1, <2>2
    <3>2. QED BY <1>11, <1>12, <1>13, <2>1, <2>2, <3>1 DEF SchedInv, NotesInv
  <2>3. ASSUME NEW u \in Task, pc'[u][1] \in {"block_take", "block_wait"}, y.state[u] # Waiting
        PROVE  y.evt[u] = Pending
    <3>1. u # t /\ pc'[u] = pc[u]
      BY <1>14, <2>3
    <3>2. QED BY <1>12, <1>13, <2>3, <3>1 DEF SchedInv, NotesInv
  <2>4. QED BY <1>1, <1>8, <2>2, <2>3 DEF NotesInv
<1>24. app \in Apps /\ y.fault = 0 /\ y.preempt = 1 /\ y.started = 1
  BY <1>13 DEF SchedInv
<1>25. SchedInv'
  BY <1>8, <1>10, <1>15, <1>18, <1>19, <1>21, <1>22, <1>23, <1>24 DEF SchedInv
<1>26. \A u \in Task \ {t} : y.where[u] = k.where[u]
  BY <1>11
<1>27. QED BY <1>4, <1>8, <1>12, <1>13, <1>25, <1>26 DEF SameClock

-----------------------------------------------------------------------------
(* The tasks that do not move *)

\* With the scheduler suspended a tick is only remembered.
LEMMA TickRemembered ==
  ASSUME SchedInv, TickInterrupt, k.susp = 1
  PROVE  k'.where = k.where /\ k'.prio = k.prio /\ k'.evt = k.evt
<1>1. k' = [k EXCEPT !.pended = @ + 1]
  BY DEF TickInterrupt, xTaskIncrementTick
<1>2. DOMAIN k = Fields
  BY DEF SchedInv, Data, Shape
<1>3. QED BY <1>1, <1>2 DEF Fields

(* Task u does not move: its event item leaves its list at most, and its call *)
(* is the same but for the ticks it has waited.                               *)
Resting(u) ==
  /\ pc'[u] = pc[u]
  /\ w'[u] = w[u] \/ (DOMAIN w[u] = CallFields /\ w'[u] = [w[u] EXCEPT !.waited = @ + 1])
  /\ k'.evt[u] \in {k.evt[u], None} \/ (k.evt[u] \in EventLists /\ k'.evt[u] = Pending)
  /\ k'.state[u] = Waiting => k.state[u] = Waiting \/ pc[u][1] \in Notifying
  /\ pc[u][1] \in Locking => k'.where[u] = k.where[u] /\ k'.prio[u] = k.prio[u]

\* Such a task goes on waiting.
LEMMA RestingWaits ==
  ASSUME NEW u \in Task, Waits(u), Resting(u)
  PROVE  Waits(u)'
<1>1. /\ w'[u].call = w[u].call /\ w'[u].ticks = w[u].ticks /\ w'[u].entry = w[u].entry
      /\ w'[u].out = w[u].out /\ (w'[u] = NoCall <=> w[u] = NoCall)
  <2>1. CASE w'[u] = w[u]
    BY <2>1
  <2>2. CASE DOMAIN w[u] = CallFields /\ w'[u] = [w[u] EXCEPT !.waited = @ + 1]
    <3>1. DOMAIN NoCall # CallFields
      BY DEF NoCall, CallFields
    <3>2. DOMAIN w'[u] = CallFields
      BY <2>2
    <3>3. w[u] # NoCall /\ w'[u] # NoCall
      BY <2>2, <3>1, <3>2
    <3>4. QED BY <2>2, <3>3 DEF CallFields
  <2>3. QED BY <2>1, <2>2 DEF Resting
<1>2. None \notin EventLists /\ Pending \notin EventLists /\ None # Pending
  BY ListNames
<1>3. /\ k'.evt[u] \in EventLists => k'.evt[u] = k.evt[u]
      /\ k'.evt[u] # None => k.evt[u] # None
  BY <1>2 DEF Resting
<1>4. WaitList(w[u])' = WaitList(w[u])
  BY <1>1 DEF WaitList, Sends
<1>5. {"unlock_tx", "unlock_rx", "resume_all"} \subseteq Locking
  BY DEF Locking
<1>6. /\ w'[u] # NoCall <=> pc'[u][1] \in Calling
      /\ k'.state[u] = Waiting => pc'[u][1] \in Notifying
      /\ k'.evt[u] \in EventLists => pc'[u][1] \in Calling /\ k'.evt[u] = WaitList(w[u])'
  BY <1>1, <1>3, <1>4 DEF Waits, Resting
<1>7. pc'[u][1] \in Calling =>
       /\ u # Idle /\ w'[u].call # "overwrite"
       /\ w'[u].ticks \in TickType /\ w'[u].entry \in TickType
       /\ w'[u].out \in {"wait", "retry", "timeout"}
       /\ k'.evt[u] # None => pc'[u][1] \in Asleep /\ w'[u].out = "wait"
       /\ pc'[u][1] = "place" => w'[u].ticks # 0
       /\ pc'[u][1] = "give_way" => w'[u].out # "timeout"
  BY <1>1, <1>3 DEF Waits, Resting
<1>8. pc'[u][1] \in Calling /\ pc'[u][1] \in {"unlock_tx", "unlock_rx", "resume_all"} /\ w'[u].out # "wait" =>
        k'.where[u] = Ready(k'.prio[u])
  BY <1>1, <1>5 DEF Waits, Resting
<1>9. QED BY <1>6, <1>7, <1>8 DEF Waits

(* Event items only leave their lists, for good or for the pending ready list. *)
OnlyLeave(x, y) ==
  \A u \in Task : y.evt[u] \in {x.evt[u], None} \/ (x.evt[u] \in EventLists /\ y.evt[u] = Pending)

\* What a queue wakes, and what the functions of tasks.c do, leaves lists only.
LEMMA LeavesOnly ==
  ASSUME NEW x, Data(x), NEW y
  PROVE  /\ \A l \in EventLists : WakesOne(x, y, l) => OnlyLeave(x, y)
         /\ \A l \in EventLists : \A lock : Called(x, y, l, lock) => OnlyLeave(x, y)
         /\ NoneJoins(x, y) => OnlyLeave(x, y)
         /\ y = x => OnlyLeave(x, y)
<1>1. ASSUME NEW l \in EventLists, WakesOne(x, y, l) PROVE OnlyLeave(x, y)
  <2>1. CASE y.evt = x.evt
    BY <2>1 DEF OnlyLeave
  <2>2. CASE \E t \in Task : /\ x.evt[t] = l /\ y.evt[t] = (IF x.susp = 0 THEN None ELSE Pending)
                             /\ \A u \in Task \ {t} : y.evt[u] = x.evt[u]
    BY <2>2 DEF OnlyLeave
  <2>3. QED BY <1>1, <2>1, <2>2 DEF WakesOne
<1>2. ASSUME NEW l \in EventLists, NEW lock, Called(x, y, l, lock) PROVE OnlyLeave(x, y)
  BY <1>2 DEF Called, CalledAre, OnlyLeave
<1>3. ASSUME NoneJoins(x, y) PROVE OnlyLeave(x, y)
  BY <1>3 DEF NoneJoins, OnlyLeave
<1>4. ASSUME y = x PROVE OnlyLeave(x, y)
  BY <1>4 DEF OnlyLeave
<1>5. QED BY <1>1, <1>2, <1>3, <1>4

\* A task that runs in its own code or may try again is on no list.
LEMMA RunnerIsFree ==
  ASSUME SchedInv, NEW t \in Task, t = k.cur
  PROVE  /\ pc[t][1] \notin Leaving => k.where[t] = Ready(k.prio[t]) /\ k.evt[t] \notin EventLists
         /\ pc[t][1] \notin Leaving \cup Locking => k.evt[t] = None
<1>1. k.evt[t] \in EventLists \cup {Pending, None}
  BY DEF SchedInv, Data, Shape
<1>2. \A p : Ready(p) \notin DelayedLists \cup {Suspended}
  BY ListNames DEF DelayedLists
<1>3. pc[t][1] \notin Leaving => k.where[t] = Ready(k.prio[t])
  BY DEF SchedInv, RunsInv
<1>4. pc[t][1] \notin Locking => k.susp = 0
  BY DEF SchedInv, PlacesInv
<1>5. /\ k.evt[t] = Pending => k.susp = 1
      /\ k.evt[t] \in EventLists => k.where[t] \in DelayedLists \cup {Suspended}
  BY DEF SchedInv, ItemsInv, Parked
<1>6. QED BY <1>1, <1>2, <1>3, <1>4, <1>5

\* A step of the running task leaves the others where they wait.
LEMMA OthersWait ==
  ASSUME SchedInv, WaitInv, NEW t \in Task, t = k.cur,
         \A u \in Task \ {t} : pc'[u] = pc[u] /\ w'[u] = w[u],
         OnlyLeave(k, k'), NoneJoins(k, k') \/ k'.state = k.state
  PROVE  \A u \in Task \ {t} : Waits(u)'
<1>1. ASSUME NEW u \in Task \ {t} PROVE Waits(u)'
  <2>1. pc[u][1] \notin Locking
    BY DEF SchedInv, PlacesInv
  <2>2. k'.state[u] = Waiting => k.state[u] = Waiting \/ pc[u][1] \in Notifying
    BY DEF NoneJoins
  <2>3. Resting(u)
    BY <2>1, <2>2 DEF Resting, OnlyLeave
  <2>4. QED BY <2>3, RestingWaits DEF WaitInv
<1>2. QED BY <1>1

\* A task that is on no list, in the middle of a call.
LEMMA AwakeWaits ==
  ASSUME NEW t \in Users, pc'[t][1] \in Calling, DOMAIN w'[t] = CallFields,
         k'.evt[t] = None, k'.state[t] # Waiting, w'[t].call # "overwrite",
         w'[t].ticks \in TickType, w'[t].entry \in TickType, w'[t].out \in {"wait", "retry", "timeout"},
         pc'[t][1] = "place" => w'[t].ticks # 0, pc'[t][1] = "give_way" => w'[t].out # "timeout",
         pc'[t][1] \in {"unlock_tx", "unlock_rx", "resume_all"} /\ w'[t].out # "wait" =>
           k'.where[t] = Ready(k'.prio[t])
  PROVE  Waits(t)'
<1>1. DOMAIN NoCall # CallFields
  BY DEF NoCall, CallFields
<1>2. None \notin EventLists
  BY ListNames
<1>3. QED BY <1>1, <1>2 DEF Waits, Users

\* The first critical section of a call: the task is on no list.
LEMMA TryWaits ==
  ASSUME SchedInv, CallInv, NEW t \in Users, t = k.cur, pc[t][1] \in {"run", "again"}, Waits(t),
         NEW c, DOMAIN c = CallFields, Try(t, c), c.ticks \in TickType, c.entry \in TickType,
         c.out \in {"wait", "retry", "timeout"}, SameClock(k, k'), OnlyLeave(k, k')
  PROVE  Waits(t)' /\ \A u \in Task \ {t} : pc'[u] = pc[u] /\ w'[u] = w[u]
<1>1. t \in Task /\ DOMAIN w = Task /\ DOMAIN pc = Task
  BY DEF CallInv, Users
<1>2. pc[t][1] \notin Leaving \cup Locking \cup Notifying
  BY DEF Leaving, Locking, Notifying
<1>3. k.evt[t] = None /\ k.state[t] # Waiting
  BY <1>1, <1>2, RunnerIsFree DEF Waits
<1>4. k'.evt[t] = None /\ k'.state[t] # Waiting
  <2>1. None \notin EventLists
    BY ListNames
  <2>2. QED BY <1>1, <1>3, <2>1 DEF OnlyLeave, SameClock
<1>5. CASE ~NotReady(c)
  <2>1. pc' = [pc EXCEPT ![t] = <<"run", 0>>] /\ w' = [w EXCEPT ![t] = NoCall]
    BY <1>5 DEF Try, Goto
  <2>2. pc'[t][1] = "run" /\ w'[t] = NoCall /\ \A u \in Task \ {t} : pc'[u] = pc[u] /\ w'[u] = w[u]
    BY <1>1, <2>1
  <2>3. "run" \notin Calling /\ None \notin EventLists
    BY ListNames DEF Calling
  <2>4. Waits(t)'
    BY <1>4, <2>2, <2>3 DEF Waits
  <2>5. QED BY <2>2, <2>4
<1>6. CASE NotReady(c)
  <2>1. PICK d : d = IF c.ticks = 0 \/ c.set = 1 THEN c
                     ELSE [vTaskInternalSetTimeOutState(c) EXCEPT !.set = 1]
    OBVIOUS
  <2>2. PICK p \in {"failed", "suspend_all"} :
          pc' = [pc EXCEPT ![t] = <<p, 0>>] /\ w' = [w EXCEPT ![t] = d]
    BY <1>6, <2>1 DEF Try, Goto
  <2>3. pc'[t][1] = p /\ w'[t] = d /\ \A u \in Task \ {t} : pc'[u] = pc[u] /\ w'[u] = w[u]
    BY <1>1, <2>2
  <2>4. k.tick \in TickType
    BY DEF SchedInv, Data, Shape
  <2>5. /\ DOMAIN d = CallFields /\ d.call = c.call /\ d.ticks = c.ticks /\ d.out = c.out
        /\ d.entry \in TickType
    BY <2>1, <2>4 DEF vTaskInternalSetTimeOutState, CallFields
  <2>6. c.call # "overwrite"
    BY <1>6 DEF NotReady, Sends
  <2>7. p \in Calling
    BY DEF Calling
  <2>8. Waits(t)'
    BY <1>4, <2>3, <2>5, <2>6, <2>7, AwakeWaits
  <2>9. QED BY <2>3, <2>8
<1>7. QED BY <1>5, <1>6

\* A call that looks at the queue, for the first time or again.
LEMMA TryKeeps ==
  ASSUME SchedInv, WaitInv, CallInv, app' = app, last' = last, ticks' = ticks, held' = held,
         NEW t \in Users, t = k.cur, pc[t][1] \in {"run", "again"},
         NEW c, DOMAIN c = CallFields, Try(t, c), c.ticks \in TickType, c.entry \in TickType,
         c.out \in {"wait", "retry", "timeout"}
  PROVE  SchedInv' /\ WaitInv'
<1>1. t \in Task
  BY DEF Users
<1>2. /\ SchedInv' /\ SameClock(k, k')
      /\ NotReady(c) => k' = k
      /\ ~NotReady(c) => WakesOne(k, k', Wakes(c))
  BY <1>1, TryDoes
<1>3. OnlyLeave(k, k')
  <2>1. Wakes(c) \in EventLists
    BY TwoLists DEF Wakes
  <2>2. QED BY <1>2, <2>1, KernelTime, LeavesOnly
<1>4. Waits(t)
  BY <1>1 DEF WaitInv
<1>5. Waits(t)' /\ \A u \in Task \ {t} : pc'[u] = pc[u] /\ w'[u] = w[u]
  BY <1>2, <1>3, <1>4, TryWaits
<1>6. \A u \in Task \ {t} : Waits(u)'
  BY <1>1, <1>2, <1>3, <1>5, OthersWait DEF SameClock
<1>7. WaitInv'
  BY <1>5, <1>6 DEF WaitInv
<1>8. QED BY <1>2, <1>7

\* A call from a task's own code.
LEMMA QueueCallKeeps ==
  ASSUME SchedInv, WaitInv, CallInv, app' = app, NEW t \in Users, NEW c \in QueueCalls(t), QueueCall(t, c)
  PROVE  SchedInv' /\ WaitInv'
<1>1. t = k.cur /\ pc[t][1] = "run" /\ last' = last /\ ticks' = ticks /\ held' = held
  BY DEF QueueCall, At
<1>2. PICK d : d = [call |-> c.call, item |-> c.item, ticks |-> c.ticks, set |-> 0, entry |-> 0,
                    overflows |-> 0, asked |-> c.ticks, waited |-> 0, out |-> "retry"]
  OBVIOUS
<1>3. DOMAIN d = CallFields /\ d.ticks = c.ticks /\ d.entry = 0 /\ d.out = "retry"
  BY <1>2 DEF CallFields
<1>4. c.ticks \in TickType /\ 0 \in TickType
  <2>1. app \in Apps /\ t \in Task
    BY DEF SchedInv, Users
  <2>2. app.delays[t] \subseteq TickType
    BY <2>1, KernelAssumption
  <2>3. c.ticks \in app.delays[t]
    BY DEF QueueCalls
  <2>4. QED BY <2>2, <2>3, TasksAssumption DEF TickType
<1>5. Try(t, d)
  BY <1>2 DEF QueueCall
<1>6. QED BY <1>1, <1>3, <1>4, <1>5, TryKeeps

\* A task that looks at the queue again.
LEMMA TryAgainKeeps ==
  ASSUME SchedInv, WaitInv, CallInv, app' = app, NEW t \in Users, TryAgain(t)
  PROVE  SchedInv' /\ WaitInv'
<1>1. t = k.cur /\ pc[t][1] = "again" /\ last' = last /\ ticks' = ticks /\ held' = held /\ t \in Task
  BY DEF TryAgain, At, Users
<1>2. PICK c : c = w[t] OBVIOUS
<1>3. pc[t][1] \in Calling
  BY <1>1 DEF Calling
<1>4. /\ DOMAIN c = CallFields /\ c.ticks \in TickType /\ c.entry \in TickType
      /\ c.out \in {"wait", "retry", "timeout"}
  BY <1>1, <1>2, <1>3 DEF CallInv, WaitInv, Waits
<1>5. Try(t, c)
  BY <1>2 DEF TryAgain
<1>6. QED BY <1>1, <1>4, <1>5, TryKeeps

\* What xTaskCheckForTimeOut leaves of a call.
LEMMA CheckDoes ==
  ASSUME NEW c, DOMAIN c = CallFields, c.ticks \in TickType, c.entry \in TickType, Data(k),
         NEW r, r = xTaskCheckForTimeOut(k, c)
  PROVE  /\ DOMAIN r.w = CallFields /\ r.w.call = c.call /\ r.w.out = c.out /\ r.w.entry \in TickType
         /\ r.w.ticks \in TickType /\ (~r.timedOut => r.w.ticks # 0)
<1>1. k.tick \in TickType /\ TickMod \in Nat \ {0}
  BY TasksAssumption DEF Data, Shape
<1>2. PICK e : e = (k.tick - c.entry) % TickMod OBVIOUS
<1>3. e \in 0 .. TickMod - 1
  BY <1>1, <1>2 DEF TickType
<1>4. CASE c.ticks = portMAX_DELAY /\ r = [w |-> c, timedOut |-> FALSE]
  BY <1>1, <1>4, TasksAssumption DEF portMAX_DELAY
<1>5. CASE r = [w |-> [c EXCEPT !.ticks = 0], timedOut |-> TRUE]
  <2>1. 0 \in TickType
    BY <1>1 DEF TickType
  <2>2. QED BY <1>5, <2>1 DEF CallFields
<1>6. CASE e < c.ticks /\ r = [w |-> [c EXCEPT !.ticks = @ - e, !.entry = k.tick, !.overflows = k.overflows],
                               timedOut |-> FALSE]
  <2>1. c.ticks - e \in TickType \ {0}
    BY <1>1, <1>3, <1>6 DEF TickType
  <2>2. PICK d : d = [c EXCEPT !.ticks = @ - e, !.entry = k.tick, !.overflows = k.overflows] OBVIOUS
  <2>3. DOMAIN d = CallFields /\ d.call = c.call /\ d.out = c.out /\ d.entry = k.tick /\ d.ticks = c.ticks - e
    BY <2>2 DEF CallFields
  <2>4. r.w = d /\ ~r.timedOut
    BY <1>6, <2>2
  <2>5. QED BY <1>1, <2>1, <2>3, <2>4
<1>7. r = IF c.ticks = portMAX_DELAY THEN [w |-> c, timedOut |-> FALSE]
          ELSE IF k.overflows # c.overflows /\ k.tick >= c.entry
          THEN [w |-> [c EXCEPT !.ticks = 0], timedOut |-> TRUE]
          ELSE IF (k.tick - c.entry) % TickMod < c.ticks
          THEN [w |-> [c EXCEPT !.ticks = @ - ((k.tick - c.entry) % TickMod), !.entry = k.tick,
                                !.overflows = k.overflows],
                timedOut |-> FALSE]
          ELSE [w |-> [c EXCEPT !.ticks = 0], timedOut |-> TRUE]
  BY DEF xTaskCheckForTimeOut
<1>8. CASE c.ticks = portMAX_DELAY
  BY <1>4, <1>7, <1>8
<1>9. CASE c.ticks # portMAX_DELAY /\ k.overflows # c.overflows /\ k.tick >= c.entry
  BY <1>5, <1>7, <1>9
<1>10. CASE c.ticks # portMAX_DELAY /\ ~(k.overflows # c.overflows /\ k.tick >= c.entry) /\ e < c.ticks
  BY <1>2, <1>6, <1>7, <1>10
<1>11. CASE c.ticks # portMAX_DELAY /\ ~(k.overflows # c.overflows /\ k.tick >= c.entry) /\ ~(e < c.ticks)
  BY <1>2, <1>5, <1>7, <1>11
<1>12. QED BY <1>8, <1>9, <1>10, <1>11

\* The steps of a call that leave the scheduler alone.
LEMMA MovesOnKeeps ==
  ASSUME SchedInv, WaitInv, CallInv, app' = app, NEW t \in Users,
         Fails(t) \/ LockAndCheck(t) \/ LookOnceMore(t)
  PROVE  SchedInv' /\ WaitInv'
<1>1. t \in Task /\ t = k.cur /\ DOMAIN w = Task /\ DOMAIN pc = Task
  BY DEF Fails, LockAndCheck, LookOnceMore, At, Users, CallInv
<1>2. SchedInv' /\ k' = k
  BY <1>1, MovesOnDoes
<1>3. pc[t][1] \in {"failed", "lock", "look"} /\ pc[t][1] \in Calling
  BY DEF Fails, LockAndCheck, LookOnceMore, At, Calling
<1>4. pc[t][1] \notin Leaving \cup Notifying \cup Asleep
  BY <1>3 DEF Leaving, Notifying, Asleep
<1>5. /\ k.evt[t] = None /\ k.state[t] # Waiting /\ k.where[t] = Ready(k.prio[t])
      /\ DOMAIN w[t] = CallFields /\ w[t].call # "overwrite" /\ w[t].ticks \in TickType
      /\ w[t].entry \in TickType /\ w[t].out \in {"wait", "retry", "timeout"}
  <2>1. Waits(t)
    BY <1>1 DEF WaitInv
  <2>2. k.where[t] = Ready(k.prio[t])
    BY <1>1, <1>4, RunnerIsFree
  <2>3. DOMAIN w[t] = CallFields
    BY <1>1, <1>3 DEF CallInv
  <2>4. QED BY <1>3, <1>4, <2>1, <2>2, <2>3 DEF Waits
<1>6. Waits(t)' /\ \A u \in Task \ {t} : pc'[u] = pc[u] /\ w'[u] = w[u]
  <2>1. CASE Fails(t)
    <3>1. pc'[t][1] = "run" /\ w'[t] = NoCall /\ \A u \in Task \ {t} : pc'[u] = pc[u] /\ w'[u] = w[u]
      BY <1>1, <2>1 DEF Fails, Goto
    <3>2. "run" \notin Calling /\ None \notin EventLists
      BY ListNames DEF Calling
    <3>3. QED BY <1>2, <1>5, <3>1, <3>2 DEF Waits
  <2>2. CASE LookOnceMore(t)
    <3>1. PICK p \in {"failed", "again"} : Goto(t, p, 0)
      BY <2>2 DEF LookOnceMore
    <3>2. w' = w
      BY <2>2 DEF LookOnceMore
    <3>3. pc'[t][1] = p /\ \A u \in Task \ {t} : pc'[u] = pc[u] /\ w'[u] = w[u]
      BY <1>1, <3>1, <3>2 DEF Goto
    <3>4. p \in Calling
      BY DEF Calling
    <3>5. Waits(t)'
      BY <1>2, <1>5, <3>2, <3>3, <3>4, AwakeWaits
    <3>6. QED BY <3>3, <3>5
  <2>3. CASE LockAndCheck(t)
    <3>1. PICK c : c = w[t] OBVIOUS
    <3>2. PICK r : r = xTaskCheckForTimeOut(k, c) OBVIOUS
    <3>3. /\ DOMAIN r.w = CallFields /\ r.w.call = c.call /\ r.w.out = c.out /\ r.w.entry \in TickType
          /\ r.w.ticks \in TickType /\ (~r.timedOut => r.w.ticks # 0)
      BY <1>5, <3>1, <3>2, KernelTime, CheckDoes
    <3>4. CASE r.timedOut
      <4>1. PICK d : d = [r.w EXCEPT !.out = "timeout"] OBVIOUS
      <4>2. w' = [w EXCEPT ![t] = d] /\ Goto(t, "unlock_tx", 0)
        BY <2>3, <3>1, <3>2, <3>4, <4>1 DEF LockAndCheck
      <4>3. pc'[t][1] = "unlock_tx" /\ w'[t] = d /\ \A u \in Task \ {t} : pc'[u] = pc[u] /\ w'[u] = w[u]
        BY <1>1, <4>2 DEF Goto
      <4>4. /\ DOMAIN d = CallFields /\ d.call = c.call /\ d.out = "timeout" /\ d.entry \in TickType
            /\ d.ticks \in TickType
        BY <3>3, <4>1 DEF CallFields
      <4>5. "unlock_tx" \in Calling
        BY DEF Calling
      <4>6. Waits(t)'
        BY <1>2, <1>5, <3>1, <4>3, <4>4, <4>5, AwakeWaits
      <4>7. QED BY <4>3, <4>6
    <3>5. CASE ~r.timedOut
      <4>1. PICK d : d = r.w OBVIOUS
      <4>2. w' = [w EXCEPT ![t] = d] /\ Goto(t, "place", 0)
        BY <2>3, <3>1, <3>2, <3>5, <4>1 DEF LockAndCheck
      <4>3. pc'[t][1] = "place" /\ w'[t] = d /\ \A u \in Task \ {t} : pc'[u] = pc[u] /\ w'[u] = w[u]
        BY <1>1, <4>2 DEF Goto
      <4>5. "place" \in Calling
        BY DEF Calling
      <4>6. Waits(t)'
        BY <1>2, <1>5, <3>1, <3>3, <3>5, <4>1, <4>3, <4>5, AwakeWaits
      <4>7. QED BY <4>3, <4>6
    <3>6. QED BY <3>4, <3>5
  <2>4. QED BY <2>1, <2>2, <2>3
<1>7. \A u \in Task \ {t} : Waits(u)'
  BY <1>1, <1>2, <1>6, KernelTime, LeavesOnly, OthersWait
<1>8. WaitInv'
  BY <1>6, <1>7 DEF WaitInv
<1>9. QED BY <1>2, <1>8

\* A task that stays in its call with its arguments.
LEMMA CallGoesOn ==
  ASSUME CallInv, NEW t \in Users, NEW p, NEW n, Goto(t, p, n), w' = w, pc[t][1] \in Calling
  PROVE  /\ t \in Task /\ pc'[t][1] = p /\ w'[t] = w[t] /\ DOMAIN w[t] = CallFields /\ w[t] # NoCall
         /\ \A u \in Task \ {t} : pc'[u] = pc[u] /\ w'[u] = w[u]
<1>1. t \in Task /\ DOMAIN pc = Task /\ DOMAIN w[t] = CallFields
  BY DEF CallInv, Users
<1>2. DOMAIN NoCall # CallFields
  BY DEF NoCall, CallFields
<1>3. QED BY <1>1, <1>2 DEF Goto

\* A task that suspends the scheduler to wait.
LEMMA QueueSuspendsKeeps ==
  ASSUME SchedInv, WaitInv, CallInv, app' = app, NEW t \in Users, QueueSuspendsAll(t)
  PROVE  SchedInv' /\ WaitInv'
<1>1. t = k.cur /\ pc[t][1] = "suspend_all" /\ Goto(t, "lock", 0) /\ w' = w
  BY DEF QueueSuspendsAll, At
<1>2. SchedInv' /\ Passes(k, k', 0) /\ k'.evt = k.evt /\ k'.where = k.where
  BY QueueSuspendsDoes
<1>3. pc[t][1] \in Calling /\ pc[t][1] \notin Leaving \cup Notifying \cup Asleep
      /\ "lock" \in Calling /\ "lock" \notin Notifying
  BY <1>1 DEF Calling, Leaving, Notifying, Asleep
<1>4. /\ t \in Task /\ pc'[t][1] = "lock" /\ w'[t] = w[t] /\ DOMAIN w[t] = CallFields /\ w[t] # NoCall
      /\ \A u \in Task \ {t} : pc'[u] = pc[u] /\ w'[u] = w[u]
  BY <1>1, <1>3, CallGoesOn
<1>5. Waits(t) /\ NoneJoins(k, k')
  BY <1>2, <1>4 DEF WaitInv, Passes
<1>6. k.evt[t] = None /\ k.state[t] # Waiting
  BY <1>3, <1>5 DEF Waits
<1>7. k'.evt[t] = None /\ k'.state[t] # Waiting
  BY <1>2, <1>3, <1>4, <1>5, <1>6 DEF NoneJoins
<1>8. Waits(t)'
  BY <1>3, <1>4, <1>5, <1>7, AwakeWaits DEF Waits
<1>9. \A u \in Task \ {t} : Waits(u)'
  BY <1>1, <1>4, <1>5, KernelTime, LeavesOnly, OthersWait
<1>10. WaitInv'
  BY <1>8, <1>9 DEF WaitInv
<1>11. QED BY <1>2, <1>10

\* A task that goes on a wait list, or finds the queue ready after all.
LEMMA PlaceKeeps ==
  ASSUME SchedInv, WaitInv, CallInv, app' = app, NEW t \in Users, Place(t)
  PROVE  SchedInv' /\ WaitInv'
<1>1. /\ t = k.cur /\ pc[t][1] = "place" /\ Goto(t, "unlock_tx", 0) /\ last' = last /\ ticks' = ticks
      /\ held' = held /\ t \in Task /\ DOMAIN w = Task /\ DOMAIN pc = Task
  BY DEF Place, At, Users, CallInv
<1>2. Waits(t)
  BY <1>1 DEF WaitInv
<1>3. /\ "place" \in Calling /\ "place" \notin Leaving \cup Notifying \cup Asleep
      /\ "unlock_tx" \in Calling /\ "unlock_tx" \in Asleep /\ "unlock_tx" \notin Notifying
  BY DEF Calling, Leaving, Notifying, Asleep
<1>4. PICK o \in {"wait", "retry"} : w' = [w EXCEPT ![t].out = o] /\ (NotReady(w[t]) <=> o = "wait")
  BY DEF Place
<1>5. DOMAIN w[t] = CallFields
  BY <1>1, <1>3 DEF CallInv
<1>6. PICK d : d = [w[t] EXCEPT !.out = o] OBVIOUS
<1>7. /\ DOMAIN d = CallFields /\ d.out = o /\ d.call = w[t].call /\ d.ticks = w[t].ticks
      /\ d.entry = w[t].entry
  BY <1>5, <1>6 DEF CallFields
<1>8. pc'[t][1] = "unlock_tx" /\ w'[t] = d /\ \A u \in Task \ {t} : pc'[u] = pc[u] /\ w'[u] = w[u]
  BY <1>1, <1>4, <1>6 DEF Goto
<1>9. /\ w[t].call # "overwrite" /\ w[t].ticks \in TickType /\ w[t].entry \in TickType
      /\ k.evt[t] = None /\ k.state[t] # Waiting
  BY <1>1, <1>2, <1>3 DEF Waits
<1>10. CASE o = "wait"
  <2>1. /\ SchedInv' /\ SameClock(k, k') /\ k'.prio = k.prio
        /\ k'.evt = [k.evt EXCEPT ![t] = WaitList(w[t])]
    BY <1>2, <1>4, <1>10, PlacesDoes
  <2>2. PICK l \in EventLists : l = WaitList(w[t])
    BY TwoLists DEF WaitList
  <2>3. l # None /\ l # Pending
    BY <2>2, ListNames
  <2>4. DOMAIN k.evt = Task
    BY DEF SchedInv, Data, Shape
  <2>5. k'.evt[t] = l /\ \A u \in Task \ {t} : k'.evt[u] = k.evt[u]
    BY <1>1, <2>1, <2>2, <2>4
  <2>6. k'.state = k.state
    BY <2>1 DEF SameClock
  <2>7. WaitList(w[t])' = l
    BY <1>7, <1>8, <2>2 DEF WaitList, Sends
  <2>8. d # NoCall
    BY <1>7 DEF NoCall, CallFields
  <2>9. Waits(t)'
    BY <1>3, <1>7, <1>8, <1>9, <1>10, <2>5, <2>6, <2>7, <2>8 DEF Waits, Users
  <2>10. ASSUME NEW u \in Task \ {t} PROVE Waits(u)'
    <3>1. pc[u][1] \notin Locking
      BY <1>1 DEF SchedInv, PlacesInv
    <3>2. Resting(u)
      BY <1>8, <2>5, <2>6, <3>1 DEF Resting
    <3>3. QED BY <3>2, RestingWaits DEF WaitInv
  <2>11. WaitInv'
    BY <2>9, <2>10 DEF WaitInv
  <2>12. QED BY <2>1, <2>11
<1>11. CASE o = "retry"
  <2>1. k' = k
    BY <1>4, <1>11 DEF Place
  <2>2. SchedInv'
    <3>1. pc[t][1] \in Inside /\ "unlock_tx" \in Inside
      BY <1>1 DEF Inside
    <3>2. DOMAIN pc' = Task /\ \A u \in Task : GoesOn(pc[u], pc'[u])
      BY <1>1, <1>3, <3>1, OneGoesOn
    <3>3. QED BY <1>1, <2>1, <3>2, QueueRests
  <2>3. k.where[t] = Ready(k.prio[t])
    BY <1>1, <1>3, RunnerIsFree
  <2>4. Waits(t)'
    BY <1>3, <1>7, <1>8, <1>9, <1>11, <2>1, <2>3, AwakeWaits
  <2>5. \A u \in Task \ {t} : Waits(u)'
    BY <1>1, <1>8, <2>1, KernelTime, LeavesOnly, OthersWait
  <2>6. WaitInv'
    BY <2>4, <2>5 DEF WaitInv
  <2>7. QED BY <2>2, <2>6
<1>12. QED BY <1>10, <1>11

\* A task that goes on in its call where it may be asleep: it is on its wait list
\* still, or was taken from it.
LEMMA AsleepWaits ==
  ASSUME SchedInv, WaitInv, CallInv, NEW t \in Users, t = k.cur, NEW p, NEW n, Goto(t, p, n), w' = w,
         OnlyLeave(k, k'), k'.state = k.state \/ NoneJoins(k, k'),
         pc[t][1] \in Asleep, p \in Calling, p \in Asleep \/ w[t].out # "wait",
         p = "give_way" => w[t].out # "timeout", p # "place",
         p \in {"unlock_tx", "unlock_rx", "resume_all"} =>
           pc[t][1] \in {"unlock_tx", "unlock_rx"} /\ k'.where = k.where /\ k'.prio = k.prio
  PROVE  WaitInv'
<1>1. pc[t][1] \in Calling /\ pc[t][1] \notin Notifying /\ p \notin Notifying
  BY DEF Asleep, Calling, Notifying
<1>2. /\ t \in Task /\ pc'[t][1] = p /\ w'[t] = w[t] /\ DOMAIN w[t] = CallFields /\ w[t] # NoCall
      /\ \A u \in Task \ {t} : pc'[u] = pc[u] /\ w'[u] = w[u]
  BY <1>1, CallGoesOn
<1>3. Waits(t)
  BY <1>2 DEF WaitInv
<1>4. None \notin EventLists /\ Pending \notin EventLists
  BY ListNames
<1>5. /\ k'.evt[t] \in EventLists => k'.evt[t] = k.evt[t]
      /\ k'.evt[t] # None => k.evt[t] # None
  BY <1>2, <1>4 DEF OnlyLeave
<1>6. k.state[t] # Waiting /\ k'.state[t] # Waiting
  BY <1>1, <1>2, <1>3 DEF Waits, NoneJoins
<1>7. WaitList(w[t])' = WaitList(w[t])
  BY <1>2 DEF WaitList, Sends
<1>8. /\ t # Idle /\ w[t].call # "overwrite" /\ w[t].ticks \in TickType /\ w[t].entry \in TickType
      /\ w[t].out \in {"wait", "retry", "timeout"}
      /\ k.evt[t] # None => w[t].out = "wait"
      /\ pc[t][1] \in {"unlock_tx", "unlock_rx"} /\ w[t].out # "wait" => k.where[t] = Ready(k.prio[t])
      /\ k.evt[t] \in EventLists => k.evt[t] = WaitList(w[t])
  BY <1>1, <1>3 DEF Waits
<1>9. Waits(t)'
  BY <1>1, <1>2, <1>5, <1>6, <1>7, <1>8 DEF Waits
<1>10. \A u \in Task \ {t} : Waits(u)'
  BY <1>2, OthersWait
<1>11. QED BY <1>9, <1>10 DEF WaitInv

\* Both halves of prvUnlockQueue.
LEMMA UnlockKeeps ==
  ASSUME SchedInv, WaitInv, CallInv, app' = app, NEW t \in Users, UnlockTx(t) \/ UnlockRx(t),
         q.tx \in Int, q.rx \in Int
  PROVE  SchedInv' /\ WaitInv'
<1>1. /\ t \in Task /\ t = k.cur /\ pc[t][1] \in {"unlock_tx", "unlock_rx"} /\ pc[t][1] \in Asleep
      /\ \E p \in {"unlock_rx", "resume_all"} : Goto(t, p, 0)
      /\ w' = w
  BY DEF UnlockTx, UnlockRx, At, Users, Asleep
<1>2. PICK p \in {"unlock_rx", "resume_all"} : Goto(t, p, 0)
  BY <1>1
<1>3. PICK l \in {Rx, Tx}, lock \in Int : SchedInv' /\ SameClock(k, k') /\ Called(k, k', l, lock) /\ k'.prio = k.prio
  BY <1>1, UnlockDoes
<1>4. l \in EventLists
  BY TwoLists
<1>5. OnlyLeave(k, k')
  BY <1>3, <1>4, KernelTime, LeavesOnly
<1>6. k'.where = k.where /\ k'.state = k.state
  BY <1>3 DEF Called, CalledAre, SameClock
<1>7. p \in Calling /\ p \in Asleep
  BY DEF Calling, Asleep
<1>8. WaitInv'
  BY <1>1, <1>2, <1>3, <1>5, <1>6, <1>7, AsleepWaits
<1>9. QED BY <1>3, <1>8

\* The end of a turn of a blocking call.
LEMMA EndsKeep ==
  ASSUME SchedInv, WaitInv, CallInv, app' = app, NEW t \in Users, QueueResumesAll(t) \/ GiveWay(t)
  PROVE  SchedInv' /\ WaitInv'
<1>1. /\ t \in Task /\ t = k.cur /\ pc[t][1] \in {"resume_all", "give_way"} /\ pc[t][1] \in Asleep
      /\ pc[t][1] \in Calling /\ w' = w
  BY DEF QueueResumesAll, GiveWay, At, Users, Asleep, Calling
<1>2. Waits(t)
  BY <1>1 DEF WaitInv
<1>3. SchedInv' /\ Passes(k, k', 0)
  BY <1>1, <1>2, QueueResumesDoes, GiveWayDoes
<1>4. NoneJoins(k, k')
  BY <1>3 DEF Passes
<1>5. OnlyLeave(k, k')
  BY <1>4, KernelTime, LeavesOnly
<1>6. w[t].out \in {"wait", "retry", "timeout"}
  BY <1>1, <1>2 DEF Waits
<1>7. PICK p \in {"again", "give_way", "failed", "look"} :
        /\ Goto(t, p, 0)
        /\ p \in {"failed", "look"} => w[t].out # "wait"
        /\ p = "give_way" => w[t].out # "timeout"
  BY <1>6 DEF QueueResumesAll, GiveWay
<1>8. /\ p \in Calling /\ (p \in Asleep \/ p \in {"failed", "look"})
      /\ p \notin {"unlock_tx", "unlock_rx", "resume_all", "place"}
  BY DEF Calling, Asleep
<1>9. WaitInv'
  BY <1>1, <1>4, <1>5, <1>7, <1>8, AsleepWaits
<1>10. QED BY <1>3, <1>9

\* A step that leaves every task at its place, and every call as it is but for
\* the ticks it has waited.
LEMMA AllRest ==
  ASSUME SchedInv, WaitInv, CallInv, pc' = pc,
         \A u \in Task : w'[u] = w[u] \/ (w[u] # NoCall /\ w'[u] = [w[u] EXCEPT !.waited = @ + 1]),
         OnlyLeave(k, k'), NoneJoins(k, k') \/ k'.state = k.state,
         k.susp = 1 => k'.where = k.where /\ k'.prio = k.prio
  PROVE  WaitInv'
<1>1. ASSUME NEW u \in Task PROVE Waits(u)'
  <2>1. Waits(u)
    BY DEF WaitInv
  <2>2. w[u] # NoCall => DOMAIN w[u] = CallFields
    BY <2>1 DEF Waits, CallInv
  <2>3. pc[u][1] \in Locking => k.susp = 1
    BY DEF SchedInv, PlacesInv
  <2>4. k'.state[u] = Waiting => k.state[u] = Waiting \/ pc[u][1] \in Notifying
    BY DEF NoneJoins
  <2>5. Resting(u)
    BY <2>2, <2>3, <2>4 DEF Resting, OnlyLeave
  <2>6. QED BY <2>1, <2>5, RestingWaits
<1>2. QED BY <1>1 DEF WaitInv

\* What a queue wakes while the scheduler is suspended stays in its state list.
LEMMA WokenStays ==
  ASSUME NEW x, NEW y, NEW l, WakesOne(x, y, l), x.susp = 1
  PROVE  y.where = x.where
BY DEF WakesOne

\* xQueueGenericReset.
LEMMA ClearKeeps ==
  ASSUME SchedInv, WaitInv, CallInv, app' = app, NEW t \in Users, xQueueGenericReset(t)
  PROVE  SchedInv' /\ WaitInv'
<1>1. t \in Task /\ pc' = pc /\ w' = w
  BY DEF xQueueGenericReset, Users
<1>2. SchedInv' /\ SameClock(k, k') /\ k'.prio = k.prio /\ WakesOne(k, k', Tx)
  BY <1>1, ClearDoes
<1>3. OnlyLeave(k, k')
  BY <1>2, TwoLists, KernelTime, LeavesOnly
<1>4. k.susp = 1 => k'.where = k.where
  BY <1>2, WokenStays
<1>5. WaitInv'
  BY <1>1, <1>2, <1>3, <1>4, AllRest DEF SameClock
<1>6. QED BY <1>2, <1>5

\* The interrupts.
LEMMA QueueInterruptKeeps ==
  ASSUME SchedInv, WaitInv, CallInv, app' = app, QueueInterrupt
  PROVE  SchedInv' /\ WaitInv'
<1>1. CASE QueueTick
  <2>1. TickInterrupt /\ pc' = pc
    BY <1>1 DEF QueueTick, TickInterrupt
  <2>2. SchedInv' /\ Passes(k, k', 1)
    BY <2>1, StepTick
  <2>3. NoneJoins(k, k')
    BY <2>2 DEF Passes
  <2>4. OnlyLeave(k, k')
    BY <2>3, KernelTime, LeavesOnly
  <2>5. k.susp = 1 => k'.where = k.where /\ k'.prio = k.prio
    BY <2>1, TickRemembered
  <2>6. \A u \in Task : w'[u] = w[u] \/ (w[u] # NoCall /\ w'[u] = [w[u] EXCEPT !.waited = @ + 1])
    BY <1>1 DEF QueueTick
  <2>7. WaitInv'
    BY <2>1, <2>3, <2>4, <2>5, <2>6, AllRest
  <2>8. QED BY <2>2, <2>7
<1>2. ASSUME SchedInv', SameClock(k, k'), k'.prio = k.prio, pc' = pc, w' = w, NEW l \in {Rx, Tx},
             k' = k \/ WakesOne(k, k', l)
      PROVE  WaitInv'
  <2>1. l \in EventLists
    BY TwoLists
  <2>2. OnlyLeave(k, k')
    BY <1>2, <2>1, KernelTime, LeavesOnly
  <2>3. k.susp = 1 => k'.where = k.where
    BY <1>2, WokenStays
  <2>4. QED BY <1>2, <2>2, <2>3, AllRest DEF SameClock
<1>3. CASE xQueueReceiveFromISR
  <2>1. PICK y : y = [prvCopyDataFromQueue EXCEPT !.n = @ - 1] OBVIOUS
  <2>2. /\ SchedInv' /\ SameClock(k, k') /\ k'.prio = k.prio /\ pc' = pc /\ w' = w
        /\ q.rx = queueUNLOCKED => q' = y /\ WakesOne(k, k', Tx)
        /\ q.rx # queueUNLOCKED => k' = k /\ q' = [y EXCEPT !.rx = IncrementLock(@)]
    BY <1>3, <2>1, IsrTakesDoes
  <2>3. k' = k \/ WakesOne(k, k', Tx)
    BY <2>2
  <2>4. QED BY <1>2, <2>2, <2>3
<1>4. ASSUME NEW filled, IsrFills(filled) PROVE SchedInv' /\ WaitInv'
  <2>1. /\ SchedInv' /\ SameClock(k, k') /\ k'.prio = k.prio /\ pc' = pc /\ w' = w
        /\ q.tx = queueUNLOCKED => q' = filled /\ WakesOne(k, k', Rx)
        /\ q.tx # queueUNLOCKED => k' = k /\ q' = [filled EXCEPT !.tx = IncrementLock(@)]
    BY <1>4, IsrFillsDoes
  <2>2. k' = k \/ WakesOne(k, k', Rx)
    BY <2>1
  <2>3. QED BY <1>2, <2>1, <2>2
<1>5. CASE xQueueGiveFromISR
  BY <1>4, <1>5 DEF xQueueGiveFromISR
<1>6. ASSUME NEW i, NEW p, xQueueGenericSendFromISR(i, p) PROVE SchedInv' /\ WaitInv'
  BY <1>4, <1>6 DEF xQueueGenericSendFromISR
<1>7. QED BY <1>1, <1>3, <1>5, <1>6 DEF QueueInterrupt

\* The functions of tasks.c.
LEMMA CallsKeepWaits ==
  ASSUME SchedInv, WaitInv, CallInv, app' = app, w' = w, NEW t \in Users, Call(t)
  PROVE  SchedInv' /\ WaitInv' /\ NoneJoins(k, k') /\ Elsewhere(t)
<1>1. SchedInv' /\ NoneJoins(k, k') /\ t \in Task
  BY CallKeeps DEF Users
<1>2. Elsewhere(t)
  BY <1>1, CallKeepsPlaces DEF CallInv
<1>3. /\ t = k.cur /\ pc[t][1] \notin Calling /\ pc'[t][1] \notin Calling
      /\ \A u \in Task \ {t} : pc'[u] = pc[u]
      /\ pc[t][1] \in Notifying => pc'[t][1] \in Notifying \/ TakeCollects(t) \/ WaitCollects(t)
  BY <1>2 DEF Elsewhere
<1>4. OnlyLeave(k, k')
  BY <1>1, KernelTime, LeavesOnly
<1>5. Waits(t)
  BY <1>1 DEF WaitInv
<1>6. k'.state[t] = Waiting => pc'[t][1] \in Notifying
  <2>1. ASSUME TakeCollects(t) \/ WaitCollects(t) PROVE k'.state[t] # Waiting
    <3>1. PICK v : k' = [k EXCEPT !.value[t] = v, !.state[t] = NotWaiting]
      BY <2>1 DEF TakeCollects, WaitCollects
    <3>2. DOMAIN k = Fields /\ DOMAIN k.state = Task
      BY DEF SchedInv, Data, Shape
    <3>3. k'.state[t] = NotWaiting
      BY <1>1, <3>1, <3>2 DEF Fields
    <3>4. QED BY <3>3 DEF NotWaiting, Waiting
  <2>2. k'.state[t] = Waiting => k.state[t] = Waiting \/ pc'[t][1] \in Notifying
    BY <1>1 DEF NoneJoins
  <2>3. k.state[t] = Waiting => pc[t][1] \in Notifying
    BY <1>5 DEF Waits
  <2>4. QED BY <1>3, <2>1, <2>2, <2>3
<1>7. Waits(t)'
  <2>1. None \notin EventLists /\ Pending \notin EventLists
    BY ListNames
  <2>2. k'.evt[t] \notin EventLists
    BY <1>1, <1>3, <1>4, <1>5, <2>1 DEF OnlyLeave, Waits
  <2>3. w[t] = NoCall
    BY <1>3, <1>5 DEF Waits
  <2>4. QED BY <1>3, <1>6, <2>2, <2>3 DEF Waits
<1>8. \A u \in Task \ {t} : Waits(u)'
  BY <1>1, <1>3, <1>4, OthersWait
<1>9. WaitInv'
  BY <1>7, <1>8 DEF WaitInv
<1>10. QED BY <1>1, <1>2, <1>9

\* The idle task that gives way.
LEMMA IdleKeepsWaits ==
  ASSUME SchedInv, WaitInv, CallInv, app' = app, w' = w, prvIdleTask
  PROVE  SchedInv' /\ WaitInv' /\ NoneJoins(k, k') /\ pc' = pc /\ k.susp = 0
<1>1. pc' = pc /\ Idle \in Task /\ Idle = k.cur /\ pc[k.cur][1] = "run"
  BY TasksAssumption DEF prvIdleTask, At
<1>2. SchedInv' /\ Passes(k, k', 0)
  BY <1>1, StepYield
<1>3. NoneJoins(k, k')
  BY <1>2 DEF Passes
<1>4. OnlyLeave(k, k')
  BY <1>3, KernelTime, LeavesOnly
<1>5. k.susp = 0
  BY <1>1, Locked DEF Locking
<1>6. WaitInv'
  BY <1>1, <1>3, <1>4, <1>5, AllRest
<1>7. QED BY <1>1, <1>2, <1>3, <1>5, <1>6

-----------------------------------------------------------------------------
(* The locks of the queue *)

(* y has the locks of the queue, and is as long and as often reset. *)
SameLocks(y) ==
  DOMAIN y = QueueFields /\ y.tx = q.tx /\ y.rx = q.rx /\ y.reset = q.reset /\ y.length = q.length

\* What copying an item in or out does to the counters.
LEMMA CopyCounts ==
  ASSUME Sound(q), NEW i, NEW p, NEW y
  PROVE  /\ y = prvCopyDataToQueue(i, p) =>
              SameLocks(y) /\ (y.n = q.n + 1 \/ (p = "overwrite" /\ q.n > 0 /\ y.n = q.n))
         /\ y = prvCopyDataFromQueue => SameLocks(y) /\ y.n = q.n /\ y.size = q.size
<1>1. DOMAIN q = QueueFields /\ q.n \in Nat /\ q.length \in Nat /\ q.size \in {0, 1}
  BY DEF Sound
<1>2. ASSUME y = prvCopyDataToQueue(i, p)
      PROVE  SameLocks(y) /\ (y.n = q.n + 1 \/ (p = "overwrite" /\ q.n > 0 /\ y.n = q.n))
  <2>1. PICK s : /\ \/ s = q
                    \/ s = [q EXCEPT !.buf[q.write] = i, !.write = (@ + 1) % q.length]
                    \/ s = [q EXCEPT !.buf[q.read] = i, !.read = (@ - 1) % q.length]
                 /\ y = [s EXCEPT !.n = IF q.size # 0 /\ p = "overwrite" /\ @ > 0 THEN @ ELSE @ + 1]
    BY <1>2 DEF prvCopyDataToQueue
  <2>2. SameLocks(s) /\ s.n = q.n
    BY <1>1, <2>1 DEF SameLocks, QueueFields
  <2>3. QED BY <1>1, <2>1, <2>2 DEF SameLocks, QueueFields
<1>3. ASSUME y = prvCopyDataFromQueue PROVE SameLocks(y) /\ y.n = q.n /\ y.size = q.size
  BY <1>1, <1>3 DEF prvCopyDataFromQueue, SameLocks, QueueFields
<1>4. QED BY <1>2, <1>3

\* What the first critical section does to a queue that is ready.
LEMMA DoneCounts ==
  ASSUME Sound(q), NEW c, c.call \in {"back", "front", "overwrite", "receive", "peek"}, NEW y, y = Done(c)
  PROVE  /\ SameLocks(y)
         /\ Sends(c) => y.n = q.n + 1 \/ (c.call = "overwrite" /\ q.n > 0 /\ y.n = q.n)
         /\ c.call = "receive" => y.n = q.n - 1
         /\ c.call = "peek" => y.n = q.n
<1>1. CASE Sends(c)
  <2>1. c.call # "receive" /\ c.call # "peek"
    BY <1>1 DEF Sends
  <2>2. y = prvCopyDataToQueue(c.item, c.call)
    BY <1>1, <2>1 DEF Done
  <2>3. PICK i, p : i = c.item /\ p = c.call OBVIOUS
  <2>4. SameLocks(y) /\ (y.n = q.n + 1 \/ (p = "overwrite" /\ q.n > 0 /\ y.n = q.n))
    BY <2>2, <2>3, CopyCounts
  <2>5. QED BY <2>1, <2>3, <2>4
<1>2. CASE ~Sends(c)
  <2>1. PICK z : z = prvCopyDataFromQueue OBVIOUS
  <2>2. SameLocks(z) /\ z.n = q.n
    BY <2>1, CopyCounts
  <2>3. CASE c.call = "receive"
    <3>1. y = [z EXCEPT !.n = @ - 1]
      BY <1>2, <2>1, <2>3 DEF Done
    <3>2. QED BY <1>2, <2>2, <2>3, <3>1 DEF SameLocks, QueueFields
  <2>4. CASE c.call = "peek"
    <3>1. y = [z EXCEPT !.read = q.read]
      BY <1>2, <2>1, <2>4 DEF Done
    <3>2. QED BY <1>2, <2>2, <2>4, <3>1 DEF SameLocks, QueueFields
  <2>5. QED BY <1>2, <2>3, <2>4 DEF Sends
<1>3. QED BY <1>1, <1>2

\* The running task alone may be at a place where the scheduler is suspended.
LEMMA OneHolder ==
  ASSUME SchedInv, NEW t \in Task, t = k.cur, \A u \in Task \ {t} : pc'[u] = pc[u], NEW S \in SUBSET Locking
  PROVE  /\ (\E u \in Task : pc[u][1] \in S) <=> pc[t][1] \in S
         /\ (\E u \in Task : pc'[u][1] \in S) <=> pc'[t][1] \in S
<1>1. \A u \in Task \ {t} : pc[u][1] \notin S
  BY DEF SchedInv, PlacesInv
<1>2. QED BY <1>1

\* A step of a queue's caller keeps the locks in the hands of the running task.
LEMMA LockMoves ==
  ASSUME SchedInv, LockInv, NEW t \in Task, t = k.cur, \A u \in Task \ {t} : pc'[u] = pc[u],
         q'.tx \in Int, q'.tx >= -1, q'.rx \in Int, q'.rx >= -1,
         q'.tx # queueUNLOCKED <=> pc'[t][1] \in {"place", "unlock_tx"},
         q'.rx # queueUNLOCKED <=> pc'[t][1] \in {"place", "unlock_tx", "unlock_rx"}
  PROVE  LockInv'
<1>1. {"place", "unlock_tx"} \in SUBSET Locking /\ {"place", "unlock_tx", "unlock_rx"} \in SUBSET Locking
  BY DEF Locking
<1>2. /\ (\E u \in Task : pc'[u][1] \in {"place", "unlock_tx"}) <=> pc'[t][1] \in {"place", "unlock_tx"}
      /\ (\E u \in Task : pc'[u][1] \in {"place", "unlock_tx", "unlock_rx"}) <=>
           pc'[t][1] \in {"place", "unlock_tx", "unlock_rx"}
  BY <1>1, OneHolder
<1>3. QED BY <1>2 DEF LockInv

\* Who has which lock now.
LEMMA LockNow ==
  ASSUME SchedInv, LockInv, NEW t \in Task, t = k.cur
  PROVE  /\ q.tx \in Int /\ q.tx >= -1 /\ q.rx \in Int /\ q.rx >= -1
         /\ q.tx # queueUNLOCKED <=> pc[t][1] \in {"place", "unlock_tx"}
         /\ q.rx # queueUNLOCKED <=> pc[t][1] \in {"place", "unlock_tx", "unlock_rx"}
<1>1. \A u \in Task \ {t} : pc[u][1] \notin {"place", "unlock_tx", "unlock_rx"}
  BY DEF SchedInv, PlacesInv, Locking
<1>2. QED BY <1>1 DEF LockInv

\* A step of a task in a call of queue.c takes and releases the locks as it must.
LEMMA QueueStepKeepsLocks ==
  ASSUME SchedInv, StorageInv, WaitInv, LockInv, NEW t \in Users, QueueStep(t)
  PROVE  LockInv'
<1>1. Sound(q) /\ CallInv /\ DOMAIN q = QueueFields /\ t \in Task
  BY DEF StorageInv, RingInv, Sound, Users
<1>2. ASSUME t = k.cur
      PROVE  /\ q.tx \in Int /\ q.tx >= -1 /\ q.rx \in Int /\ q.rx >= -1
             /\ q.tx # queueUNLOCKED <=> pc[t][1] \in {"place", "unlock_tx"}
             /\ q.rx # queueUNLOCKED <=> pc[t][1] \in {"place", "unlock_tx", "unlock_rx"}
  BY <1>1, <1>2, LockNow
<1>3. ASSUME t = k.cur, NEW p, NEW n, Goto(t, p, n), q'.tx = q.tx, q'.rx = q.rx,
             pc[t][1] \notin {"place", "unlock_tx", "unlock_rx"}, p \notin {"place", "unlock_tx", "unlock_rx"}
      PROVE  LockInv'
  <2>1. pc'[t][1] = p /\ \A u \in Task \ {t} : pc'[u] = pc[u]
    BY <1>1, <1>3, GotoDoes
  <2>2. QED BY <1>1, <1>2, <1>3, <2>1, LockMoves
<1>4. ASSUME t = k.cur, pc[t][1] \in {"run", "again"}, NEW c, Try(t, c),
             c.call \in {"back", "front", "overwrite", "receive", "peek"}
      PROVE  LockInv'
  <2>1. SameLocks(q')
    <3>1. CASE NotReady(c)
      BY <1>1, <1>4, <3>1 DEF Try, SameLocks
    <3>2. CASE ~NotReady(c)
      <4>1. q' = Done(c)
        BY <1>4, <3>2 DEF Try
      <4>2. QED BY <1>1, <1>4, <4>1, DoneCounts
    <3>3. QED BY <3>1, <3>2
  <2>2. \E p \in {"run", "failed", "suspend_all"} : Goto(t, p, 0)
    BY <1>4 DEF Try
  <2>3. QED BY <1>3, <1>4, <2>1, <2>2 DEF SameLocks
<1>5. CASE TryAgain(t)
  <2>1. t = k.cur /\ pc[t][1] = "again" /\ Try(t, w[t])
    BY <1>5 DEF TryAgain, At
  <2>2. Lawful(w[t])
    BY <1>1, <2>1, InCall DEF Calling
  <2>3. QED BY <1>4, <2>1, <2>2 DEF Lawful
<1>6. ASSUME NEW c \in QueueCalls(t), QueueCall(t, c) PROVE LockInv'
  <2>1. PICK d : /\ Try(t, d) /\ d.call = c.call /\ t = k.cur /\ pc[t][1] = "run"
    BY <1>6 DEF QueueCall, At
  <2>2. c.call \in {"back", "front", "overwrite", "receive", "peek"}
    BY DEF QueueCalls
  <2>3. QED BY <1>4, <2>1, <2>2
<1>7. CASE Fails(t) \/ QueueSuspendsAll(t) \/ GiveWay(t)
  <2>1. /\ t = k.cur /\ q' = q /\ pc[t][1] \in {"failed", "suspend_all", "give_way"}
        /\ \E p \in {"run", "lock", "again"} : Goto(t, p, 0)
    BY <1>7 DEF Fails, QueueSuspendsAll, GiveWay, At
  <2>2. QED BY <1>3, <2>1
<1>8. CASE LookOnceMore(t)
  <2>1. /\ t = k.cur /\ q' = q /\ pc[t][1] = "look"
        /\ \E p \in {"failed", "again"} : Goto(t, p, 0)
    BY <1>8 DEF LookOnceMore, At
  <2>2. QED BY <1>3, <2>1
<1>9. CASE QueueResumesAll(t)
  <2>1. t = k.cur /\ q' = q /\ pc[t][1] = "resume_all"
    BY <1>9 DEF QueueResumesAll, At
  <2>2. w[t].out \in {"wait", "retry", "timeout"}
    BY <1>1, <2>1 DEF WaitInv, Waits, Calling
  <2>3. PICK p \in {"again", "give_way", "failed", "look"} : Goto(t, p, 0)
    BY <1>9, <2>2 DEF QueueResumesAll
  <2>4. QED BY <1>3, <2>1, <2>3
<1>10. CASE LockAndCheck(t)
  <2>1. /\ t = k.cur /\ q' = prvLockQueue /\ pc[t][1] = "lock"
        /\ \E p \in {"unlock_tx", "place"} : Goto(t, p, 0)
    BY <1>10 DEF LockAndCheck, At
  <2>2. q'.tx = 0 /\ q'.rx = 0
    BY <1>1, <1>2, <2>1 DEF prvLockQueue, QueueFields
  <2>3. pc'[t][1] \in {"unlock_tx", "place"} /\ \A u \in Task \ {t} : pc'[u] = pc[u]
    BY <1>1, <2>1, GotoDoes
  <2>4. 0 # queueUNLOCKED
    BY DEF queueUNLOCKED
  <2>5. QED BY <1>1, <2>1, <2>2, <2>3, <2>4, LockMoves
<1>11. CASE Place(t)
  <2>1. t = k.cur /\ q' = q /\ pc[t][1] = "place" /\ Goto(t, "unlock_tx", 0)
    BY <1>11 DEF Place, At
  <2>2. pc'[t][1] = "unlock_tx" /\ \A u \in Task \ {t} : pc'[u] = pc[u]
    BY <1>1, <2>1, GotoDoes
  <2>3. QED BY <1>1, <1>2, <2>1, <2>2, LockMoves
<1>12. CASE UnlockTx(t)
  <2>1. /\ t = k.cur /\ q' = [q EXCEPT !.tx = queueUNLOCKED] /\ pc[t][1] = "unlock_tx"
        /\ Goto(t, "unlock_rx", 0)
    BY <1>12 DEF UnlockTx, At
  <2>2. q'.tx = -1 /\ q'.rx = q.rx
    BY <1>1, <2>1 DEF queueUNLOCKED, QueueFields
  <2>3. pc'[t][1] = "unlock_rx" /\ \A u \in Task \ {t} : pc'[u] = pc[u]
    BY <1>1, <2>1, GotoDoes
  <2>4. QED BY <1>1, <1>2, <2>1, <2>2, <2>3, LockMoves DEF queueUNLOCKED
<1>13. CASE UnlockRx(t)
  <2>1. /\ t = k.cur /\ q' = [q EXCEPT !.rx = queueUNLOCKED] /\ pc[t][1] = "unlock_rx"
        /\ Goto(t, "resume_all", 0)
    BY <1>13 DEF UnlockRx, At
  <2>2. q'.tx = q.tx /\ q'.rx = -1
    BY <1>1, <2>1 DEF queueUNLOCKED, QueueFields
  <2>3. pc'[t][1] = "resume_all" /\ \A u \in Task \ {t} : pc'[u] = pc[u]
    BY <1>1, <2>1, GotoDoes
  <2>4. QED BY <1>1, <1>2, <2>1, <2>2, <2>3, LockMoves DEF queueUNLOCKED
<1>14. CASE xQueueGenericReset(t)
  <2>1. t = k.cur /\ pc' = pc /\ pc[t][1] = "run"
    BY <1>14 DEF xQueueGenericReset, At
  <2>2. q'.tx = -1 /\ q'.rx = -1
    BY <1>1, <1>14 DEF xQueueGenericReset, queueUNLOCKED, QueueFields
  <2>3. QED BY <1>1, <2>1, <2>2, LockMoves DEF queueUNLOCKED
<1>15. QED
  BY <1>5, <1>6, <1>7, <1>8, <1>9, <1>10, <1>11, <1>12, <1>13, <1>14 DEF QueueStep

\* An interrupt leaves the task that has the queue at its place.
LEMMA LocksStay ==
  ASSUME LockInv, pc' = pc, q'.tx = q.tx \/ (q.tx # -1 /\ q'.tx = IncrementLock(q.tx)),
         q'.rx = q.rx \/ (q.rx # -1 /\ q'.rx = IncrementLock(q.rx))
  PROVE  LockInv'
<1>1. \A lock \in Int : IncrementLock(lock) = lock \/ IncrementLock(lock) = lock + 1
  BY DEF IncrementLock
<1>2. /\ q.tx \in Int /\ q.tx >= -1 /\ q.rx \in Int /\ q.rx >= -1
      /\ q.tx # -1 <=> \E t \in Task : pc[t][1] \in {"place", "unlock_tx"}
      /\ q.rx # -1 <=> \E t \in Task : pc[t][1] \in {"place", "unlock_tx", "unlock_rx"}
  BY DEF LockInv, queueUNLOCKED
<1>3. q'.tx \in Int /\ q'.tx >= -1 /\ (q'.tx # -1 <=> q.tx # -1)
  BY <1>1, <1>2
<1>4. q'.rx \in Int /\ q'.rx >= -1 /\ (q'.rx # -1 <=> q.rx # -1)
  BY <1>1, <1>2
<1>5. QED BY <1>2, <1>3, <1>4 DEF LockInv, queueUNLOCKED

\* What the two sends and the receive from an interrupt do to the counters.
LEMMA IsrCounts ==
  ASSUME Sound(q), NEW y
  PROVE  /\ y = [prvCopyDataFromQueue EXCEPT !.n = @ - 1] => SameLocks(y) /\ y.n = q.n - 1
         /\ y = [q EXCEPT !.n = @ + 1] => SameLocks(y) /\ y.n = q.n + 1
         /\ \A i, p : y = prvCopyDataToQueue(i, p) =>
              SameLocks(y) /\ (y.n = q.n + 1 \/ (p = "overwrite" /\ q.n > 0 /\ y.n = q.n))
<1>1. DOMAIN q = QueueFields
  BY DEF Sound
<1>2. ASSUME y = [prvCopyDataFromQueue EXCEPT !.n = @ - 1] PROVE SameLocks(y) /\ y.n = q.n - 1
  <2>1. PICK z : z = prvCopyDataFromQueue OBVIOUS
  <2>2. SameLocks(z) /\ z.n = q.n
    BY <2>1, CopyCounts
  <2>3. y = [z EXCEPT !.n = @ - 1]
    BY <1>2, <2>1
  <2>4. QED BY <2>2, <2>3 DEF SameLocks, QueueFields
<1>3. ASSUME y = [q EXCEPT !.n = @ + 1] PROVE SameLocks(y) /\ y.n = q.n + 1
  BY <1>1, <1>3 DEF SameLocks, QueueFields
<1>4. \A i, p : y = prvCopyDataToQueue(i, p) =>
        SameLocks(y) /\ (y.n = q.n + 1 \/ (p = "overwrite" /\ q.n > 0 /\ y.n = q.n))
  BY CopyCounts
<1>5. QED BY <1>2, <1>3, <1>4

(* y is filled, or emptied, by an interrupt: d is 1 or -1, or 0 if an item    *)
(* was overwritten.  lock and same are the locks of the list to wake and of   *)
(* the other one.                                                             *)
IsrGave(l, d) ==
  /\ DOMAIN q' = QueueFields /\ q'.n = q.n + d /\ q'.reset = q.reset /\ q'.length = q.length
  /\ pc' = pc /\ w' = w /\ SameClock(k, k') /\ k'.prio = k.prio
  /\ l = Rx => /\ q'.rx = q.rx
               /\ q.tx = -1 => q'.tx = q.tx /\ WakesOne(k, k', Rx)
               /\ q.tx # -1 => q'.tx = IncrementLock(q.tx) /\ k' = k
  /\ l = Tx => /\ q'.tx = q.tx
               /\ q.rx = -1 => q'.rx = q.rx /\ WakesOne(k, k', Tx)
               /\ q.rx # -1 => q'.rx = IncrementLock(q.rx) /\ k' = k

\* What an interrupt does to the queue: a send wakes a receiver or counts for
\* prvUnlockQueue, a receive wakes a sender.
LEMMA InterruptGives ==
  ASSUME SchedInv, StorageInv, app' = app, QueueInterrupt, ~QueueTick
  PROVE  \/ IsrGave(Rx, 1) \/ IsrGave(Tx, -1)
         \/ (IsrGave(Rx, 0) /\ q.n > 0 /\ q.length = 1)
<1>1. Sound(q) /\ q.n \in Nat
  BY DEF StorageInv, RingInv, Sound
<1>2. Rx # Tx
  BY TwoLists
<1>3. CASE xQueueReceiveFromISR
  <2>1. PICK y : y = [prvCopyDataFromQueue EXCEPT !.n = @ - 1] OBVIOUS
  <2>2. /\ SchedInv' /\ SameClock(k, k') /\ k'.prio = k.prio /\ pc' = pc /\ w' = w
        /\ q.rx = queueUNLOCKED => q' = y /\ WakesOne(k, k', Tx)
        /\ q.rx # queueUNLOCKED => k' = k /\ q' = [y EXCEPT !.rx = IncrementLock(@)]
    BY <1>3, <2>1, IsrTakesDoes
  <2>3. SameLocks(y) /\ y.n = q.n - 1
    BY <1>1, <2>1, IsrCounts
  <2>4. q.n - 1 = q.n + (-1)
    BY <1>1
  <2>5. CASE q.rx = -1
    BY <1>2, <2>2, <2>3, <2>4, <2>5 DEF SameLocks, IsrGave, queueUNLOCKED
  <2>6. CASE q.rx # -1
    <3>1. k' = k /\ q' = [y EXCEPT !.rx = IncrementLock(@)]
      BY <2>2, <2>6 DEF queueUNLOCKED
    <3>2. /\ DOMAIN q' = QueueFields /\ q'.rx = IncrementLock(q.rx) /\ q'.tx = q.tx /\ q'.n = y.n
          /\ q'.reset = q.reset /\ q'.length = q.length
      BY <2>3, <3>1 DEF SameLocks, QueueFields
    <3>3. QED BY <1>2, <2>2, <2>3, <2>4, <2>6, <3>1, <3>2 DEF IsrGave
  <2>7. QED BY <2>5, <2>6
<1>4. ASSUME NEW y, IsrFills(y), SameLocks(y), NEW d \in {0, 1}, y.n = q.n + d PROVE IsrGave(Rx, d)
  <2>1. /\ SchedInv' /\ SameClock(k, k') /\ k'.prio = k.prio /\ pc' = pc /\ w' = w
        /\ q.tx = queueUNLOCKED => q' = y /\ WakesOne(k, k', Rx)
        /\ q.tx # queueUNLOCKED => k' = k /\ q' = [y EXCEPT !.tx = IncrementLock(@)]
    BY <1>4, IsrFillsDoes
  <2>2. CASE q.tx = -1
    BY <1>2, <1>4, <2>1, <2>2 DEF SameLocks, IsrGave, queueUNLOCKED
  <2>3. CASE q.tx # -1
    <3>1. k' = k /\ q' = [y EXCEPT !.tx = IncrementLock(@)]
      BY <2>1, <2>3 DEF queueUNLOCKED
    <3>2. /\ DOMAIN q' = QueueFields /\ q'.tx = IncrementLock(q.tx) /\ q'.rx = q.rx /\ q'.n = y.n
          /\ q'.reset = q.reset /\ q'.length = q.length
      BY <1>4, <3>1 DEF SameLocks, QueueFields
    <3>3. QED BY <1>2, <1>4, <2>1, <2>3, <3>1, <3>2 DEF IsrGave
  <2>4. QED BY <2>2, <2>3
<1>5. CASE xQueueGiveFromISR
  <2>1. PICK y : y = [q EXCEPT !.n = @ + 1] OBVIOUS
  <2>2. IsrFills(y)
    BY <1>5, <2>1 DEF xQueueGiveFromISR
  <2>3. SameLocks(y) /\ y.n = q.n + 1
    BY <1>1, <2>1, IsrCounts
  <2>4. QED BY <1>4, <2>2, <2>3
<1>6. ASSUME NEW i, NEW p, xQueueGenericSendFromISR(i, p)
      PROVE  IsrGave(Rx, 1) \/ (IsrGave(Rx, 0) /\ q.n > 0 /\ q.length = 1)
  <2>1. PICK y : y = prvCopyDataToQueue(i, p) OBVIOUS
  <2>2. IsrFills(y) /\ (p = "overwrite" => q.length = 1)
    BY <1>6, <2>1 DEF xQueueGenericSendFromISR
  <2>3. SameLocks(y) /\ (y.n = q.n + 1 \/ (p = "overwrite" /\ q.n > 0 /\ y.n = q.n))
    BY <1>1, <2>1, IsrCounts
  <2>4. CASE y.n = q.n + 1
    BY <1>4, <2>2, <2>3, <2>4
  <2>5. CASE p = "overwrite" /\ q.n > 0 /\ y.n = q.n
    <3>1. y.n = q.n + 0
      BY <1>1, <2>5
    <3>2. IsrGave(Rx, 0)
      BY <1>4, <2>2, <2>3, <3>1
    <3>3. QED BY <2>2, <2>5, <3>2
  <2>6. QED BY <2>3, <2>4, <2>5
<1>7. QED BY <1>3, <1>5, <1>6 DEF QueueInterrupt

-----------------------------------------------------------------------------
(* The scheduler, the calls and the locks, together *)

\* When the scheduler starts, nobody is in a call and the queue is not locked.
LEMMA QueueInitRests ==
  ASSUME QueueInit
  PROVE  SchedInv /\ WaitInv /\ LockInv
<1>1. Init /\ w = [t \in Task |-> NoCall]
  BY DEF QueueInit
<1>2. SchedInv
  BY <1>1, SchedInit
<1>3. \A u \in Task : k.evt[u] = None /\ k.state[u] = NotWaiting
  BY <1>1, InitStarts
<1>4. \A u \in Task : pc[u][1] = "run"
  BY <1>1 DEF Init
<1>5. "run" \notin Calling /\ None \notin EventLists /\ NotWaiting # Waiting
  BY ListNames DEF Calling, NotWaiting, Waiting
<1>6. WaitInv
  BY <1>1, <1>3, <1>4, <1>5 DEF WaitInv, Waits
<1>7. q.tx = -1 /\ q.rx = -1
  BY DEF QueueInit, queueUNLOCKED
<1>8. LockInv
  BY <1>4, <1>7 DEF LockInv, queueUNLOCKED
<1>9. QED BY <1>2, <1>6, <1>8

\* A step of a task in a call of queue.c.
LEMMA QueueStepKeeps ==
  ASSUME SchedInv, StorageInv, WaitInv, LockInv, app' = app, NEW t \in Users, QueueStep(t)
  PROVE  SchedInv' /\ WaitInv'
<1>1. CallInv /\ q.tx \in Int /\ q.rx \in Int
  BY DEF StorageInv, LockInv
<1>2. CASE TryAgain(t)
  BY <1>1, <1>2, TryAgainKeeps
<1>3. CASE Fails(t) \/ LockAndCheck(t) \/ LookOnceMore(t)
  BY <1>1, <1>3, MovesOnKeeps
<1>4. CASE QueueSuspendsAll(t)
  BY <1>1, <1>4, QueueSuspendsKeeps
<1>5. CASE Place(t)
  BY <1>1, <1>5, PlaceKeeps
<1>6. CASE UnlockTx(t) \/ UnlockRx(t)
  BY <1>1, <1>6, UnlockKeeps
<1>7. CASE QueueResumesAll(t) \/ GiveWay(t)
  BY <1>1, <1>7, EndsKeep
<1>8. CASE xQueueGenericReset(t)
  BY <1>1, <1>8, ClearKeeps
<1>9. ASSUME NEW c \in QueueCalls(t), QueueCall(t, c) PROVE SchedInv' /\ WaitInv'
  BY <1>1, <1>9, QueueCallKeeps
<1>10. QED
  BY <1>2, <1>3, <1>4, <1>5, <1>6, <1>7, <1>8, <1>9 DEF QueueStep

\* A step of a task that is not in a call leaves the locks to the task that has them.
LEMMA OthersKeepLocks ==
  ASSUME SchedInv, LockInv, NEW t \in Task, t = k.cur, q' = q, pc[t][1] \notin Calling, pc'[t][1] \notin Calling,
         \A u \in Task \ {t} : pc'[u] = pc[u]
  PROVE  LockInv'
<1>1. {"place", "unlock_tx", "unlock_rx"} \subseteq Calling
  BY DEF Calling
<1>2. /\ q.tx \in Int /\ q.tx >= -1 /\ q.rx \in Int /\ q.rx >= -1
      /\ q.tx # queueUNLOCKED <=> pc[t][1] \in {"place", "unlock_tx"}
      /\ q.rx # queueUNLOCKED <=> pc[t][1] \in {"place", "unlock_tx", "unlock_rx"}
  BY LockNow
<1>3. QED BY <1>1, <1>2, LockMoves

\* Every step keeps the scheduler, the calls and the locks in order.
LEMMA QueueNextKeeps ==
  ASSUME SchedInv, StorageInv, WaitInv, LockInv, [QueueNext]_qvars
  PROVE  SchedInv' /\ WaitInv' /\ LockInv'
<1>1. CallInv
  BY DEF StorageInv
<1>2. CASE UNCHANGED qvars
  BY <1>2 DEF qvars, vars, SchedInv, PlacesInv, ItemsInv, TimeInv, HeldInv, RunsInv, NotesInv,
              WaitInv, Waits, WaitList, Sends, LockInv
<1>3. CASE QueueNext
  <2>1. app' = app
    BY <1>3 DEF QueueNext
  <2>2. CASE QueueInterrupt
    <3>1. SchedInv' /\ WaitInv'
      BY <1>1, <2>1, <2>2, QueueInterruptKeeps
    <3>2. CASE QueueTick
      <4>1. q' = q /\ pc' = pc
        BY <3>2 DEF QueueTick, TickInterrupt
      <4>2. QED BY <3>1, <4>1, LocksStay
    <3>3. CASE ~QueueTick
      <4>1. \E l \in {Rx, Tx}, d \in {1, 0, -1} : IsrGave(l, d)
        BY <2>1, <2>2, <3>3, InterruptGives
      <4>2. /\ pc' = pc /\ (q'.tx = q.tx \/ (q.tx # -1 /\ q'.tx = IncrementLock(q.tx)))
            /\ q'.rx = q.rx \/ (q.rx # -1 /\ q'.rx = IncrementLock(q.rx))
        BY <4>1 DEF IsrGave
      <4>3. QED BY <3>1, <4>2, LocksStay
    <3>4. QED BY <3>2, <3>3
  <2>3. CASE \E t \in Users : QueueStep(t)
    <3>1. PICK t \in Users : QueueStep(t) BY <2>3
    <3>2. QED BY <2>1, <3>1, QueueStepKeeps, QueueStepKeepsLocks
  <2>4. CASE (\E t \in Users : Call(t)) /\ UNCHANGED <<q, w>>
    <3>1. PICK t \in Users : Call(t) BY <2>4
    <3>2. t \in Task /\ q' = q /\ w' = w
      BY <2>4 DEF Users
    <3>3. SchedInv' /\ WaitInv' /\ Elsewhere(t)
      BY <1>1, <2>1, <3>1, <3>2, CallsKeepWaits
    <3>4. LockInv'
      BY <3>2, <3>3, OthersKeepLocks DEF Elsewhere
    <3>5. QED BY <3>3, <3>4
  <2>5. CASE prvIdleTask /\ UNCHANGED <<q, w>>
    <3>1. q' = q /\ w' = w
      BY <2>5
    <3>2. SchedInv' /\ WaitInv' /\ pc' = pc
      BY <1>1, <2>1, <2>5, <3>1, IdleKeepsWaits
    <3>3. QED BY <3>1, <3>2, LocksStay
  <2>6. QED BY <1>3, <2>2, <2>3, <2>4, <2>5 DEF QueueNext
<1>4. QED BY <1>2, <1>3

\* The queue is locked only by the running task, with the scheduler suspended.
LEMMA HolderRuns ==
  ASSUME SchedInv, LockInv
  PROVE  LockIsHeldAlone
<1>1. \A u \in Task : pc[u][1] \in Locking => u = k.cur
  BY DEF SchedInv, PlacesInv
<1>2. {"place", "unlock_tx", "unlock_rx"} \subseteq Locking
  BY DEF Locking
<1>3. q.tx # queueUNLOCKED \/ q.rx # queueUNLOCKED => pc[k.cur][1] \in {"place", "unlock_tx", "unlock_rx"}
  BY <1>1, <1>2 DEF LockInv
<1>4. pc[k.cur][1] \in {"place", "unlock_tx", "unlock_rx"} => k.susp = 1
  BY <1>2, Locked
<1>5. QED BY <1>3, <1>4 DEF LockIsHeldAlone

\* With queue.c on top of tasks.c the scheduler keeps its own invariant, and the
\* queue is locked only between vTaskSuspendAll and xTaskResumeAll of the task
\* that runs.
THEOREM QueueAndScheduler == QueueSpec => [](SchedInv /\ ListsAgree /\ LockIsHeldAlone)
<1>1. QueueInit => SchedInv /\ WaitInv /\ LockInv
  BY QueueInitRests
<1>2. StorageInv /\ SchedInv /\ WaitInv /\ LockInv /\ [QueueNext]_qvars => SchedInv' /\ WaitInv' /\ LockInv'
  BY QueueNextKeeps
<1>3. SchedInv /\ LockInv => SchedInv /\ ListsAgree /\ LockIsHeldAlone
  BY ListsDoAgree, HolderRuns
<1>4. QED BY <1>1, <1>2, <1>3, StorageSound, PTL DEF QueueSpec

-----------------------------------------------------------------------------
(* Those who wait are served *)

(* How the queue is counted before and after a step. *)
Counting ==
  q.length \in Nat /\ q.n \in 0 .. q.length /\ q'.n \in 0 .. q.length /\ q'.length = q.length

\* One set holds what another one holds, with some more or one less.
LEMMA Trade ==
  ASSUME NEW S \in SUBSET Task, NEW T \in SUBSET Task
  PROVE  /\ Cardinality(S) \in Nat /\ Cardinality(T) \in Nat
         /\ S \subseteq T => Cardinality(S) <= Cardinality(T)
         /\ \A t : S \ {t} \subseteq T => Cardinality(S) - 1 <= Cardinality(T)
         /\ \A y \in T \ S : S \subseteq T => Cardinality(S) + 1 <= Cardinality(T)
         /\ \A y \in T \ S : \A t : S \ {t} \subseteq T => Cardinality(S) <= Cardinality(T)
         /\ \A U \in SUBSET T : U \cap S = {} /\ S \subseteq T => Cardinality(S) + Cardinality(U) <= Cardinality(T)
<1>1. IsFiniteSet(S) /\ IsFiniteSet(T)
  BY TasksAssumption, FS_Subset
<1>2. Cardinality(S) \in Nat /\ Cardinality(T) \in Nat
  BY <1>1, FS_CardinalityType
<1>3. ASSUME NEW R \in SUBSET T
      PROVE  IsFiniteSet(R) /\ Cardinality(R) \in Nat /\ Cardinality(R) <= Cardinality(T)
  BY <1>1, <1>3, FS_Subset, FS_CardinalityType
<1>4. ASSUME NEW t
      PROVE  Cardinality(S \ {t}) = IF t \in S THEN Cardinality(S) - 1 ELSE Cardinality(S)
  BY <1>1, FS_RemoveElement
<1>5. ASSUME NEW R, IsFiniteSet(R), NEW y, y \notin R
      PROVE  Cardinality(R \cup {y}) = Cardinality(R) + 1
  BY <1>5, FS_AddElement
<1>6. ASSUME NEW t, S \ {t} \subseteq T PROVE Cardinality(S) - 1 <= Cardinality(T)
  <2>1. PICK R : R = S \ {t} OBVIOUS
  <2>2. Cardinality(R) = IF t \in S THEN Cardinality(S) - 1 ELSE Cardinality(S)
    BY <1>4, <2>1
  <2>3. R \in SUBSET T
    BY <1>6, <2>1
  <2>4. Cardinality(R) <= Cardinality(T)
    BY <1>3, <2>3
  <2>5. QED BY <1>2, <2>2, <2>4
<1>7. ASSUME NEW y \in T \ S, S \subseteq T PROVE Cardinality(S) + 1 <= Cardinality(T)
  <2>1. S \cup {y} \in SUBSET T
    BY <1>7
  <2>2. Cardinality(S \cup {y}) = Cardinality(S) + 1
    BY <1>1, <1>5
  <2>3. QED BY <1>3, <2>1, <2>2
<1>8. ASSUME NEW y \in T \ S, NEW t, S \ {t} \subseteq T PROVE Cardinality(S) <= Cardinality(T)
  <2>1. CASE t \notin S
    <3>1. S \in SUBSET T BY <1>8, <2>1
    <3>2. QED BY <1>3, <3>1
  <2>2. CASE t \in S
    <3>1. PICK R : R = S \ {t} OBVIOUS
    <3>2. R \in SUBSET T /\ y \notin R /\ R \cup {y} \in SUBSET T
      BY <1>8, <3>1
    <3>3. Cardinality(R \cup {y}) = Cardinality(R) + 1
      BY <1>3, <1>5, <3>2
    <3>4. Cardinality(R) = Cardinality(S) - 1
      BY <1>4, <2>2, <3>1
    <3>5. Cardinality(R \cup {y}) <= Cardinality(T)
      BY <1>3, <3>2
    <3>6. QED BY <1>2, <3>3, <3>4, <3>5
  <2>3. QED BY <2>1, <2>2
<1>9. ASSUME NEW U \in SUBSET T, U \cap S = {}, S \subseteq T
      PROVE  Cardinality(S) + Cardinality(U) <= Cardinality(T)
  <2>1. IsFiniteSet(U) /\ Cardinality(U) \in Nat
    BY <1>3
  <2>2. Cardinality(S \cup U) = Cardinality(S) + Cardinality(U) - Cardinality(S \cap U)
    BY <1>1, <2>1, FS_Union
  <2>3. Cardinality(S \cap U) = 0
    <3>1. S \cap U = {}
      BY <1>9
    <3>2. QED BY <3>1, FS_EmptySet, Zenon
  <2>4. S \cup U \in SUBSET T
    BY <1>9
  <2>5. Cardinality(S \cup U) <= Cardinality(T)
    BY <1>3, <2>4
  <2>6. QED BY <1>2, <2>1, <2>2, <2>3, <2>5
<1>10. S \subseteq T => Cardinality(S) <= Cardinality(T)
  BY <1>3
<1>11. \A t : S \ {t} \subseteq T => Cardinality(S) - 1 <= Cardinality(T)
  BY <1>6
<1>12. \A y \in T \ S : S \subseteq T => Cardinality(S) + 1 <= Cardinality(T)
  BY <1>7
<1>13. \A y \in T \ S : \A t : S \ {t} \subseteq T => Cardinality(S) <= Cardinality(T)
  BY <1>8
<1>14. \A U \in SUBSET T : U \cap S = {} /\ S \subseteq T => Cardinality(S) + Cardinality(U) <= Cardinality(T)
  BY <1>9
<1>15. QED BY <1>2, <1>10, <1>11, <1>12, <1>13, <1>14, Zenon

\* The counters are numbers.
LEMMA CountersAre ==
  ASSUME Counting, NEW l \in {Rx, Tx}
  PROVE  /\ There(l) \in Nat /\ There(l)' \in Nat /\ Rx # Tx
         /\ l = Rx => There(l) = q.n /\ There(l)' = q'.n /\ LockOf(l) = q.tx /\ LockOf(l)' = q'.tx
         /\ l = Tx => /\ There(l) = q.length - q.n /\ There(l)' = q.length - q'.n
                      /\ LockOf(l) = q.rx /\ LockOf(l)' = q'.rx
         /\ Will(l) \subseteq Task /\ Will(l)' \subseteq Task
         /\ Cardinality(Will(l)) \in Nat /\ Cardinality(Will(l)') \in Nat
         /\ Created(k) \subseteq Task /\ Created(k)' \subseteq Task
         /\ Cardinality(Created(k)) \in Nat /\ Cardinality(Created(k)') \in Nat
<1>1. Rx # Tx
  BY TwoLists
<1>2. Will(l) \subseteq Task /\ Will(l)' \subseteq Task
  BY DEF Will, Users
<1>3. Created(k) \subseteq Task /\ Created(k)' \subseteq Task
  BY DEF Created
<1>4. /\ Cardinality(Will(l)) \in Nat /\ Cardinality(Will(l)') \in Nat
      /\ Cardinality(Created(k)) \in Nat /\ Cardinality(Created(k)') \in Nat
  BY <1>2, <1>3, Trade
<1>5. /\ l = Rx => There(l) = q.n /\ There(l)' = q'.n /\ LockOf(l) = q.tx /\ LockOf(l)' = q'.tx
      /\ l = Tx => /\ There(l) = q.length - q.n /\ There(l)' = q.length - q'.n
                   /\ LockOf(l) = q.rx /\ LockOf(l)' = q'.rx
  BY <1>1 DEF There, LockOf, Counting
<1>6. There(l) \in Nat /\ There(l)' \in Nat
  BY <1>5 DEF Counting
<1>7. QED BY <1>1, <1>2, <1>3, <1>4, <1>5, <1>6

\* Where nothing is there, nobody has to be woken.
LEMMA EmptyServed ==
  ASSUME Counting, NEW l \in {Rx, Tx}, There(l)' = 0, LockOf(l)' \in Int
  PROVE  Served(l)'
<1>1. Cardinality(Will(l)') \in Nat
  BY CountersAre
<1>2. PICK lock \in Int : lock = LockOf(l)'
  OBVIOUS
<1>3. LeftOut(lock) \in Nat
  BY DEF LeftOut
<1>4. 0 <= LeftOut(lock) + Cardinality(Will(l)')
  BY <1>1, <1>3
<1>5. QED BY <1>2, <1>4 DEF Served, MadeUpFor

\* As many more come to look again as there is more to find.
LEMMA StaysServed ==
  ASSUME Counting, NEW l \in {Rx, Tx}, Served(l), LockOf(l) \in Int, LockOf(l) >= -1,
         (\E u \in Task : k'.evt[u] = l) => \E u \in Task : k.evt[u] = l,
         NEW d \in Int, There(l)' <= There(l) + d,
         (\E u \in Task : k'.evt[u] = l) => Cardinality(Will(l)) + d <= Cardinality(Will(l)'),
         LockOf(l)' = LockOf(l) \/ (LockOf(l) = -1 /\ LockOf(l)' = 0),
         LockOf(l) = -1 \/ Created(k)' \subseteq Created(k)
  PROVE  Served(l)'
<1>1. /\ There(l) \in Nat /\ There(l)' \in Nat
      /\ Cardinality(Will(l)) \in Nat /\ Cardinality(Will(l)') \in Nat
      /\ Created(k) \subseteq Task /\ Created(k)' \subseteq Task
      /\ Cardinality(Created(k)) \in Nat /\ Cardinality(Created(k)') \in Nat
  BY CountersAre
<1>2. PICK lock \in Int : lock = LockOf(l) /\ lock >= -1
  OBVIOUS
<1>3. PICK new \in Int : new = LockOf(l)' /\ (new = lock \/ (lock = -1 /\ new = 0))
  BY <1>2
<1>4. LeftOut(new) = LeftOut(lock) /\ LeftOut(lock) \in Nat
  BY <1>2, <1>3 DEF LeftOut
<1>5. lock = -1 \/ Cardinality(Created(k)') <= Cardinality(Created(k))
  BY <1>1, <1>2, Trade
<1>6. SUFFICES ASSUME \E u \in Task : k'.evt[u] = l
               PROVE  \/ There(l)' <= LeftOut(new) + Cardinality(Will(l)')
                      \/ new >= Cardinality(Created(k)')
  BY <1>3 DEF Served, MadeUpFor
<1>7. There(l) <= LeftOut(lock) + Cardinality(Will(l)) \/ lock >= Cardinality(Created(k))
  BY <1>2, <1>6 DEF Served, MadeUpFor
<1>8. CASE There(l) <= LeftOut(lock) + Cardinality(Will(l))
  BY <1>1, <1>4, <1>6, <1>8
<1>9. CASE lock >= Cardinality(Created(k))
  BY <1>1, <1>2, <1>3, <1>5, <1>9
<1>10. QED BY <1>7, <1>8, <1>9

\* What comes while the queue is locked is counted.
LEMMA CountedServed ==
  ASSUME Counting, NEW l \in {Rx, Tx}, Served(l), LockOf(l) \in Int, LockOf(l) >= 0, k' = k,
         There(l)' <= There(l) + 1, Will(l)' = Will(l), LockOf(l)' = IncrementLock(LockOf(l))
  PROVE  Served(l)'
<1>1. /\ There(l) \in Nat /\ There(l)' \in Nat /\ Cardinality(Will(l)) \in Nat
      /\ Cardinality(Created(k)) \in Nat
  BY CountersAre
<1>2. PICK lock \in Int : lock = LockOf(l) /\ lock >= 0
  OBVIOUS
<1>3. LockOf(l)' = IF lock < Cardinality(Created(k)) THEN lock + 1 ELSE lock
  BY <1>2 DEF IncrementLock
<1>4. PICK new \in Int : new = LockOf(l)'
  BY <1>1, <1>3
<1>5. Created(k)' = Created(k)
  BY DEF Created
<1>6. SUFFICES ASSUME \E u \in Task : k.evt[u] = l
               PROVE  There(l)' <= LeftOut(new) + Cardinality(Will(l)) \/ new >= Cardinality(Created(k))
  BY <1>4, <1>5 DEF Served, MadeUpFor
<1>7. There(l) <= LeftOut(lock) + Cardinality(Will(l)) \/ lock >= Cardinality(Created(k))
  BY <1>2, <1>6 DEF Served, MadeUpFor
<1>8. CASE lock < Cardinality(Created(k))
  <2>1. new = lock + 1
    BY <1>3, <1>4, <1>8
  <2>2. LeftOut(new) = LeftOut(lock) + 1 /\ LeftOut(lock) \in Nat
    BY <1>2, <2>1 DEF LeftOut
  <2>3. There(l) <= LeftOut(lock) + Cardinality(Will(l))
    BY <1>1, <1>7, <1>8
  <2>4. QED BY <1>1, <2>2, <2>3
<1>9. CASE ~(lock < Cardinality(Created(k)))
  BY <1>1, <1>3, <1>4, <1>9
<1>10. QED BY <1>8, <1>9

\* prvUnlockQueue calls as many tasks as were counted, or all who wait: a count
\* that reached the number of tasks is enough for them all.
LEMMA CalledServed ==
  ASSUME SchedInv, Counting, NEW l \in {Rx, Tx}, Served(l), NEW lock \in Int, lock = LockOf(l), lock >= 0,
         LockOf(l)' \in Int, There(l)' = There(l),
         NEW U, CalledAre(k, k', l, LeftOut(lock), U), Will(l) \cup U \subseteq Will(l)'
  PROVE  Served(l)'
<1>1. /\ There(l) \in Nat /\ Cardinality(Will(l)) \in Nat /\ Cardinality(Will(l)') \in Nat
      /\ Created(k) \subseteq Task /\ Cardinality(Created(k)) \in Nat
      /\ Will(l) \subseteq Task /\ Will(l)' \subseteq Task
  BY CountersAre
<1>2. l \in EventLists /\ l # Pending
  BY TwoLists
<1>3. LeftOut(lock) = lock
  BY DEF LeftOut
<1>4. SUFFICES ASSUME NEW y \in Task, k'.evt[y] = l
               PROVE  There(l) <= LeftOut(LockOf(l)') + Cardinality(Will(l)')
  BY DEF Served, MadeUpFor
<1>5. /\ U \subseteq Task /\ Cardinality(U) = lock /\ y \notin U /\ k.evt[y] = l
      /\ \A u \in U : k.evt[u] = l
  BY <1>2, <1>3, <1>4 DEF CalledAre
<1>6. LeftOut(LockOf(l)') \in Nat
  BY DEF LeftOut
<1>7. U \cap Will(l) = {}
  BY <1>5 DEF Will, Eager
<1>8. Cardinality(Will(l)) + lock <= Cardinality(Will(l)')
  BY <1>1, <1>5, <1>7, Trade
<1>9. ~(lock >= Cardinality(Created(k)))
  <2>1. U \cup {y} \subseteq Created(k)
    BY <1>2, <1>5, ListNames DEF SchedInv, ItemsInv, Parked, Created
  <2>2. y \in Created(k) \ U /\ U \subseteq Created(k)
    BY <1>5, <2>1
  <2>3. Cardinality(U) + 1 <= Cardinality(Created(k))
    BY <1>1, <1>5, <2>2, Trade
  <2>4. QED BY <1>1, <1>5, <2>3
<1>10. There(l) <= lock + Cardinality(Will(l))
  BY <1>3, <1>5, <1>9 DEF Served, MadeUpFor
<1>11. QED BY <1>1, <1>6, <1>8, <1>10

(* Task u stays where it is in its call. *)
Still(u) ==
  /\ pc'[u] = pc[u]
  /\ w'[u] = w[u] \/ (DOMAIN w[u] = CallFields /\ w'[u] = [w[u] EXCEPT !.waited = @ + 1])

(* Task u waits for l, and is to look at the queue again when it is woken. *)
Due(u, l) ==
  /\ pc[u][1] \in Asleep /\ WaitList(w[u]) = l
  /\ pc[u][1] \in {"unlock_tx", "unlock_rx", "resume_all"} => w[u].out # "timeout"

\* Those who will look again are those who are due and not on a list.
LEMMA WillIs ==
  ASSUME NEW l \in {Rx, Tx}, NEW u \in Task
  PROVE  /\ u \in Will(l) <=> u \in Users /\ Due(u, l) /\ k.evt[u] \notin {Rx, Tx}
         /\ u \in Will(l)' <=> u \in Users /\ Due(u, l)' /\ k'.evt[u] \notin {Rx, Tx}
         /\ Still(u) => (Due(u, l)' <=> Due(u, l))
         /\ Waits(u) /\ k.evt[u] = l => u \in Users /\ Due(u, l) /\ u \notin Will(l)
<1>1. u \in Will(l) <=> u \in Users /\ Due(u, l) /\ k.evt[u] \notin {Rx, Tx}
  BY DEF Will, Eager, Due
<1>2. u \in Will(l)' <=> u \in Users /\ Due(u, l)' /\ k'.evt[u] \notin {Rx, Tx}
  BY DEF Will, Eager, Due
<1>3. ASSUME Still(u) PROVE Due(u, l)' <=> Due(u, l)
  <2>1. w'[u].call = w[u].call /\ w'[u].out = w[u].out
    BY <1>3 DEF Still, CallFields
  <2>2. WaitList(w[u])' = WaitList(w[u])
    BY <2>1 DEF WaitList, Sends
  <2>3. QED BY <1>3, <2>1, <2>2 DEF Still, Due
<1>4. ASSUME Waits(u), k.evt[u] = l PROVE u \in Users /\ Due(u, l) /\ u \notin Will(l)
  <2>1. l \in EventLists /\ l # None
    BY TwoLists
  <2>2. /\ pc[u][1] \in Calling /\ u # Idle /\ pc[u][1] \in Asleep /\ w[u].out = "wait"
        /\ WaitList(w[u]) = l
    BY <1>4, <2>1 DEF Waits
  <2>3. QED BY <1>1, <1>4, <2>2 DEF Due, Users
<1>5. QED BY <1>1, <1>2, <1>3, <1>4

\* The tasks that stay where they are will look again as they would have, and
\* nobody goes on a list.
LEMMA OthersWill ==
  ASSUME NEW l \in {Rx, Tx}, NEW X, \A u \in Task \ X : Still(u), OnlyLeave(k, k')
  PROVE  /\ \A u \in Will(l) \ X : u \in Will(l)'
         /\ (\E u \in Task : k'.evt[u] = l) => \E u \in Task : k.evt[u] = l
<1>1. Rx \in EventLists /\ Tx \in EventLists /\ None \notin EventLists /\ Pending \notin EventLists
  BY TwoLists, ListNames
<1>2. \A u \in Task : k'.evt[u] \in {k.evt[u], None, Pending}
  BY DEF OnlyLeave
<1>3. ASSUME NEW u \in Will(l) \ X PROVE u \in Will(l)'
  <2>1. u \in Task
    BY DEF Will, Users
  <2>2. Due(u, l) /\ k.evt[u] \notin {Rx, Tx} /\ u \in Users
    BY <2>1, WillIs
  <2>3. Due(u, l)'
    BY <1>3, <2>1, <2>2, WillIs
  <2>4. k'.evt[u] \notin {Rx, Tx}
    BY <1>1, <1>2, <2>1, <2>2
  <2>5. QED BY <2>1, <2>2, <2>3, <2>4, WillIs
<1>4. (\E u \in Task : k'.evt[u] = l) => \E u \in Task : k.evt[u] = l
  BY <1>1, <1>2
<1>5. QED BY <1>3, <1>4

\* One who is woken will look again.
LEMMA WokenWill ==
  ASSUME NEW l \in {Rx, Tx}, NEW y \in Task, Waits(y), Still(y), k.evt[y] = l, k'.evt[y] \in {None, Pending}
  PROVE  y \in Will(l)' /\ y \notin Will(l)
<1>1. y \in Users /\ Due(y, l) /\ y \notin Will(l)
  BY WillIs
<1>2. k'.evt[y] \notin {Rx, Tx}
  BY TwoLists
<1>3. QED BY <1>1, <1>2, WillIs

\* Nothing comes that a task on the list would have to be woken for.
LEMMA RestServed ==
  ASSUME Counting, NEW l \in {Rx, Tx}, Served(l), NEW X, \A u \in Task \ X : Still(u), OnlyLeave(k, k'),
         \A u \in X : u \in Will(l) => u \in Will(l)', There(l)' <= There(l),
         LockOf(l) \in Int, LockOf(l) >= -1, LockOf(l)' = LockOf(l) \/ (LockOf(l) = -1 /\ LockOf(l)' = 0),
         LockOf(l) = -1 \/ Created(k)' \subseteq Created(k)
  PROVE  Served(l)'
<1>1. /\ \A u \in Will(l) \ X : u \in Will(l)'
      /\ (\E u \in Task : k'.evt[u] = l) => \E u \in Task : k.evt[u] = l
  BY OthersWill
<1>2. Will(l) \subseteq Will(l)'
  BY <1>1
<1>3. /\ There(l) \in Nat /\ There(l)' \in Nat /\ Will(l) \subseteq Task /\ Will(l)' \subseteq Task
      /\ Cardinality(Will(l)) \in Nat /\ Cardinality(Will(l)') \in Nat
  BY CountersAre
<1>4. Cardinality(Will(l)) <= Cardinality(Will(l)')
  BY <1>2, <1>3, Trade
<1>5. There(l)' <= There(l) + 0 /\ Cardinality(Will(l)) + 0 <= Cardinality(Will(l)')
  BY <1>3, <1>4
<1>6. QED BY <1>1, <1>5, StaysServed

\* Something comes, and one is woken, while the queue is not locked: task t is
\* the one that moves.
LEMMA WakeServed ==
  ASSUME WaitInv, Counting, NEW l \in {Rx, Tx}, Served(l), NEW t, \A u \in Task \ {t} : Still(u),
         OnlyLeave(k, k'), WakesOne(k, k', l), t \in Task => k.evt[t] # l,
         LockOf(l) = -1, LockOf(l)' = -1,
         \/ t \notin Will(l) /\ There(l)' <= There(l) + 1
         \/ There(l)' <= There(l)
  PROVE  Served(l)'
<1>1. /\ \A u \in Will(l) \ {t} : u \in Will(l)'
      /\ (\E u \in Task : k'.evt[u] = l) => \E u \in Task : k.evt[u] = l
  BY OthersWill
<1>2. /\ There(l) \in Nat /\ There(l)' \in Nat /\ Will(l) \subseteq Task /\ Will(l)' \subseteq Task
      /\ Cardinality(Will(l)) \in Nat /\ Cardinality(Will(l)') \in Nat
  BY CountersAre
<1>3. ASSUME \E u \in Task : k'.evt[u] = l
      PROVE  \E y \in Will(l)' : y \notin Will(l)
  <2>1. PICK y \in Task : k.evt[y] = l /\ k'.evt[y] \in {None, Pending}
    BY <1>1, <1>3 DEF WakesOne
  <2>2. Waits(y) /\ Still(y)
    BY <2>1 DEF WaitInv
  <2>3. QED BY <2>1, <2>2, WokenWill
<1>4. PICK d \in {0, 1} : /\ There(l)' <= There(l) + d
                          /\ d = 1 => t \notin Will(l)
  BY <1>2
<1>5. (\E u \in Task : k'.evt[u] = l) => Cardinality(Will(l)) + d <= Cardinality(Will(l)')
  <2>1. SUFFICES ASSUME \E u \in Task : k'.evt[u] = l
                 PROVE  Cardinality(Will(l)) + d <= Cardinality(Will(l)')
    OBVIOUS
  <2>2. PICK y \in Will(l)' \ Will(l) : TRUE
    BY <1>3, <2>1
  <2>3. CASE d = 0
    <3>1. Will(l) \ {t} \subseteq Will(l)'
      BY <1>1
    <3>2. Cardinality(Will(l)) <= Cardinality(Will(l)')
      BY <1>2, <2>2, <3>1, Trade
    <3>3. QED BY <1>2, <2>3, <3>2
  <2>4. CASE d = 1
    <3>1. Will(l) \subseteq Will(l)'
      BY <1>1, <1>4, <2>4
    <3>2. Cardinality(Will(l)) + 1 <= Cardinality(Will(l)')
      BY <1>2, <2>2, <3>1, Trade
    <3>3. QED BY <2>4, <3>2
  <2>5. QED BY <2>3, <2>4
<1>6. LockOf(l) \in Int /\ LockOf(l) >= -1 /\ d \in Int
  OBVIOUS
<1>7. QED BY <1>1, <1>4, <1>5, <1>6, StaysServed

\* Task t takes what is there, and will not look again.
LEMMA TakeServed ==
  ASSUME Counting, NEW l \in {Rx, Tx}, Served(l), NEW t, \A u \in Task \ {t} : Still(u), OnlyLeave(k, k'),
         There(l)' <= There(l) - 1, LockOf(l) = -1, LockOf(l)' = -1
  PROVE  Served(l)'
<1>1. /\ \A u \in Will(l) \ {t} : u \in Will(l)'
      /\ (\E u \in Task : k'.evt[u] = l) => \E u \in Task : k.evt[u] = l
  BY OthersWill
<1>2. /\ There(l) \in Nat /\ There(l)' \in Nat /\ Will(l) \subseteq Task /\ Will(l)' \subseteq Task
      /\ Cardinality(Will(l)) \in Nat /\ Cardinality(Will(l)') \in Nat
  BY CountersAre
<1>3. Will(l) \ {t} \subseteq Will(l)'
  BY <1>1
<1>4. Cardinality(Will(l)) - 1 <= Cardinality(Will(l)')
  BY <1>2, <1>3, Trade
<1>5. PICK d \in Int : d = -1
  OBVIOUS
<1>6. There(l)' <= There(l) + d /\ Cardinality(Will(l)) + d <= Cardinality(Will(l)')
  BY <1>2, <1>4, <1>5
<1>7. LockOf(l) \in Int /\ LockOf(l) >= -1
  OBVIOUS
<1>8. QED BY <1>1, <1>6, <1>7, StaysServed

\* Both lists after a step.
LEMMA BothServed ==
  ASSUME ServeInv, q'.reset = q.reset, Served(Rx) => Served(Rx)', Served(Tx) => Served(Tx)'
  PROVE  ServeInv'
BY DEF ServeInv

\* The first critical section of a call, of a queue that is not ready: the task
\* goes to sleep beside nothing.
LEMMA InVainServed ==
  ASSUME SchedInv, LockInv, ServeInv, Counting, NEW t \in Task, t = k.cur, NEW c, NotReady(c),
         pc[t][1] = "run" \/ (pc[t][1] = "again" /\ WaitList(w[t]) = WaitList(c)),
         \A u \in Task \ {t} : Still(u), k' = k, q' = q
  PROVE  ServeInv'
<1>1. OnlyLeave(k, k') /\ Created(k)' \subseteq Created(k)
  BY DEF OnlyLeave, Created
<1>2. q.tx \in Int /\ q.tx >= -1 /\ q.rx \in Int /\ q.rx >= -1
  BY DEF LockInv
<1>3. ASSUME NEW l \in {Rx, Tx}, Served(l) PROVE Served(l)'
  <2>1. /\ LockOf(l) \in Int /\ LockOf(l) >= -1 /\ LockOf(l)' = LockOf(l) /\ There(l)' = There(l)
        /\ There(l) \in Nat
    BY <1>2, CountersAre
  <2>2. CASE l = WaitList(c)
    <3>1. There(l) = 0
      BY <2>2, TwoLists DEF NotReady, prvIsQueueFull, prvIsQueueEmpty, WaitList, There, Counting
    <3>2. QED BY <2>1, <3>1, EmptyServed
  <2>3. CASE l # WaitList(c)
    <3>1. t \notin Will(l)
      <4>1. ~Due(t, l)
        BY <2>3 DEF Due, Asleep
      <4>2. QED BY <4>1, WillIs
    <3>2. \A u \in {t} : u \in Will(l) => u \in Will(l)'
      BY <3>1
    <3>3. There(l)' <= There(l)
      BY <2>1
    <3>4. QED BY <1>1, <1>3, <2>1, <3>2, <3>3, RestServed
  <2>4. QED BY <2>2, <2>3
<1>4. QED BY <1>3, BothServed

\* The first critical section of a call, of a queue that is ready: the task takes
\* what it waited for, and wakes whom that may interest.
LEMMA ReadyServed ==
  ASSUME SchedInv, WaitInv, LockInv, ServeInv, Counting, NEW t \in Task, t = k.cur, NEW c,
         pc[t][1] = "run" \/ (pc[t][1] = "again" /\ WaitList(w[t]) = WaitList(c) /\ c.call # "overwrite"),
         \A u \in Task \ {t} : Still(u), WakesOne(k, k', Wakes(c)), SameLocks(q'),
         c.call \in {"back", "front", "overwrite", "receive", "peek"},
         Sends(c) => q'.n = q.n + 1 \/ (c.call = "overwrite" /\ q.n > 0 /\ q'.n = q.n),
         c.call = "receive" => q'.n = q.n - 1, c.call = "peek" => q'.n = q.n
  PROVE  ServeInv'
<1>1. q.tx = -1 /\ q.rx = -1 /\ q'.tx = -1 /\ q'.rx = -1 /\ q'.reset = q.reset
  <2>1. pc[t][1] \notin {"place", "unlock_tx", "unlock_rx"}
    OBVIOUS
  <2>2. QED BY <2>1, LockNow DEF SameLocks, queueUNLOCKED
<1>2. Rx # Tx /\ Rx \in EventLists /\ Tx \in EventLists
  BY TwoLists
<1>3. OnlyLeave(k, k')
  <2>1. Wakes(c) \in EventLists
    BY <1>2 DEF Wakes
  <2>2. QED BY <2>1, KernelTime, LeavesOnly
<1>4. k.evt[t] \notin {Rx, Tx}
  <2>1. pc[t][1] \notin Leaving
    BY DEF Leaving
  <2>2. QED BY <1>2, <2>1, RunnerIsFree
<1>5. \A l \in {Rx, Tx} : l # WaitList(c) => t \notin Will(l)
  BY WillIs DEF Due, Asleep
<1>6. pc[t][1] = "run" => t \notin Will(Rx) /\ t \notin Will(Tx)
  BY WillIs DEF Due, Asleep
<1>7. /\ There(Rx) = q.n /\ There(Rx)' = q'.n /\ There(Tx) = q.length - q.n /\ There(Tx)' = q.length - q'.n
      /\ LockOf(Rx) = -1 /\ LockOf(Rx)' = -1 /\ LockOf(Tx) = -1 /\ LockOf(Tx)' = -1
      /\ q.n \in Int /\ q'.n \in Int /\ q.length \in Int
  BY <1>1, CountersAre DEF Counting
<1>8. CASE Sends(c)
  <2>1. WaitList(c) = Tx /\ Wakes(c) = Rx
    BY <1>8 DEF WaitList, Wakes, Sends
  <2>2. Served(Rx) => Served(Rx)'
    <3>1. There(Rx)' <= There(Rx) + 1 /\ t \notin Will(Rx)
      BY <1>2, <1>5, <1>7, <1>8, <2>1
    <3>2. WakesOne(k, k', Rx)
      BY <2>1
    <3>3. QED BY <1>3, <1>4, <1>7, <3>1, <3>2, WakeServed
  <2>3. CASE q'.n = q.n + 1
    <3>1. There(Tx)' <= There(Tx) - 1
      BY <1>7, <2>3
    <3>2. Served(Tx) => Served(Tx)'
      BY <1>3, <1>7, <3>1, TakeServed
    <3>3. QED BY <1>1, <2>2, <3>2, BothServed
  <2>4. CASE c.call = "overwrite" /\ q'.n = q.n
    <3>1. \A u \in {t} : u \in Will(Tx) => u \in Will(Tx)'
      BY <1>6, <2>4
    <3>2. There(Tx)' <= There(Tx)
      BY <1>7, <2>4
    <3>3. LockOf(Tx) \in Int /\ LockOf(Tx) >= -1 /\ LockOf(Tx)' = LockOf(Tx)
      BY <1>7
    <3>4. Served(Tx) => Served(Tx)'
      BY <1>3, <1>7, <3>1, <3>2, <3>3, RestServed
    <3>5. QED BY <1>1, <2>2, <3>4, BothServed
  <2>5. QED BY <1>8, <2>3, <2>4
<1>9. CASE c.call = "receive"
  <2>1. WaitList(c) = Rx /\ Wakes(c) = Tx
    BY <1>9 DEF WaitList, Wakes, Sends
  <2>2. Served(Rx) => Served(Rx)'
    <3>1. There(Rx)' <= There(Rx) - 1
      BY <1>7, <1>9
    <3>2. QED BY <1>3, <1>7, <3>1, TakeServed
  <2>3. Served(Tx) => Served(Tx)'
    <3>1. There(Tx)' <= There(Tx) + 1 /\ t \notin Will(Tx)
      BY <1>2, <1>5, <1>7, <1>9, <2>1
    <3>2. WakesOne(k, k', Tx)
      BY <2>1
    <3>3. QED BY <1>3, <1>4, <1>7, <3>1, <3>2, WakeServed
  <2>4. QED BY <1>1, <2>2, <2>3, BothServed
<1>10. CASE c.call = "peek"
  <2>1. WaitList(c) = Rx /\ Wakes(c) = Rx
    BY <1>10 DEF WaitList, Wakes, Sends
  <2>2. There(Rx)' <= There(Rx) /\ There(Tx)' <= There(Tx)
    BY <1>7, <1>10
  <2>3. Served(Rx) => Served(Rx)'
    <3>1. WakesOne(k, k', Rx)
      BY <2>1
    <3>2. QED BY <1>3, <1>4, <1>7, <2>2, <3>1, WakeServed
  <2>4. Served(Tx) => Served(Tx)'
    <3>1. \A u \in {t} : u \in Will(Tx) => u \in Will(Tx)'
      BY <1>2, <1>5, <2>1
    <3>2. LockOf(Tx) \in Int /\ LockOf(Tx) >= -1 /\ LockOf(Tx)' = LockOf(Tx)
      BY <1>7
    <3>3. QED BY <1>3, <1>7, <2>2, <3>1, <3>2, RestServed
  <2>5. QED BY <1>1, <2>3, <2>4, BothServed
<1>11. QED BY <1>8, <1>9, <1>10 DEF Sends

\* A call that looks at the queue, for the first time or again.
LEMMA TryServed ==
  ASSUME SchedInv, StorageInv, WaitInv, LockInv, ServeInv, Counting, app' = app, last' = last,
         ticks' = ticks, held' = held, NEW t \in Users, t = k.cur, NEW c, Try(t, c),
         pc[t][1] = "run" \/ (pc[t][1] = "again" /\ WaitList(w[t]) = WaitList(c) /\ c.call # "overwrite"),
         c.call \in {"back", "front", "overwrite", "receive", "peek"}
  PROVE  ServeInv'
<1>1. t \in Task /\ DOMAIN w = Task /\ DOMAIN pc = Task /\ Sound(q)
  BY DEF Users, StorageInv, CallInv, RingInv, Sound
<1>2. \A u \in Task \ {t} : Still(u)
  <2>1. \E p \in {"run", "failed", "suspend_all"} : Goto(t, p, 0)
    BY DEF Try
  <2>2. \A u \in Task \ {t} : pc'[u] = pc[u]
    BY <1>1, <2>1, GotoDoes
  <2>3. \E d : w' = [w EXCEPT ![t] = d]
    BY DEF Try
  <2>4. QED BY <1>1, <2>2, <2>3 DEF Still
<1>3. CASE NotReady(c)
  <2>1. k' = k /\ q' = q
    BY <1>3 DEF Try
  <2>2. QED BY <1>1, <1>2, <1>3, <2>1, InVainServed
<1>4. CASE ~NotReady(c)
  <2>1. WakesOne(k, k', Wakes(c))
    BY <1>1, <1>4, TryDoes
  <2>2. PICK y : y = q' /\ y = Done(c)
    BY <1>4 DEF Try
  <2>3. /\ SameLocks(y)
        /\ Sends(c) => y.n = q.n + 1 \/ (c.call = "overwrite" /\ q.n > 0 /\ y.n = q.n)
        /\ c.call = "receive" => y.n = q.n - 1
        /\ c.call = "peek" => y.n = q.n
    BY <1>1, <2>2, DoneCounts
  <2>4. QED BY <1>1, <1>2, <2>1, <2>2, <2>3, ReadyServed
<1>5. QED BY <1>3, <1>4

\* A step that changes neither the items nor, while the queue is locked, which
\* tasks there are.
LEMMA QuietServed ==
  ASSUME SchedInv, LockInv, ServeInv, Counting, NEW t, \A u \in Task \ {t} : Still(u), OnlyLeave(k, k'),
         t \in Will(Rx) => t \in Will(Rx)', t \in Will(Tx) => t \in Will(Tx)',
         q'.n = q.n, q'.reset = q.reset,
         \/ q'.tx = q.tx /\ q'.rx = q.rx
         \/ q.tx = -1 /\ q.rx = -1 /\ q'.tx = 0 /\ q'.rx = 0,
         (q.tx = -1 /\ q.rx = -1) \/ k'.where = k.where
  PROVE  ServeInv'
<1>1. ASSUME NEW l \in {Rx, Tx}, Served(l) PROVE Served(l)'
  <2>1. q.tx \in Int /\ q.tx >= -1 /\ q.rx \in Int /\ q.rx >= -1
    BY DEF LockInv
  <2>2. /\ LockOf(l) \in Int /\ LockOf(l) >= -1
        /\ LockOf(l)' = LockOf(l) \/ (LockOf(l) = -1 /\ LockOf(l)' = 0)
        /\ There(l)' <= There(l)
    BY <2>1, CountersAre DEF Counting
  <2>3. LockOf(l) = -1 \/ Created(k)' \subseteq Created(k)
    BY CountersAre DEF Created
  <2>4. \A u \in {t} : u \in Will(l) => u \in Will(l)'
    OBVIOUS
  <2>5. QED BY <1>1, <2>2, <2>3, <2>4, RestServed
<1>2. QED BY <1>1, BothServed

\* One step of a blocking call that leaves the scheduler's data alone, or only
\* suspends it.
LEMMA MovesServed ==
  ASSUME SchedInv, StorageInv, LockInv, ServeInv, Counting, app' = app, NEW t \in Users,
         Fails(t) \/ QueueSuspendsAll(t) \/ LockAndCheck(t) \/ LookOnceMore(t)
  PROVE  ServeInv'
<1>1. /\ t \in Task /\ t = k.cur /\ pc[t][1] \in {"failed", "suspend_all", "lock", "look"}
      /\ DOMAIN w = Task /\ DOMAIN pc = Task
      /\ DOMAIN q = QueueFields
  BY DEF Fails, QueueSuspendsAll, LockAndCheck, LookOnceMore, At, Users, StorageInv, CallInv, RingInv
<1>2. \A u \in Task \ {t} : Still(u)
  <2>1. \E p : Goto(t, p, 0)
    BY DEF Fails, QueueSuspendsAll, LockAndCheck, LookOnceMore
  <2>2. \A u \in Task \ {t} : pc'[u] = pc[u]
    BY <1>1, <2>1, GotoDoes
  <2>3. w' = w \/ \E d : w' = [w EXCEPT ![t] = d]
    BY DEF Fails, QueueSuspendsAll, LockAndCheck, LookOnceMore
  <2>4. QED BY <1>1, <2>2, <2>3 DEF Still
<1>3. k'.evt = k.evt /\ k'.where = k.where
  BY QueueSuspendsDoes DEF Fails, LockAndCheck, LookOnceMore
<1>4. OnlyLeave(k, k')
  BY <1>3 DEF OnlyLeave
<1>5. q.tx = -1 /\ q.rx = -1
  BY <1>1, LockNow DEF queueUNLOCKED
<1>6. q' = q \/ q' = prvLockQueue
  BY DEF Fails, QueueSuspendsAll, LockAndCheck, LookOnceMore
<1>7. /\ q'.n = q.n /\ q'.reset = q.reset
      /\ \/ q'.tx = q.tx /\ q'.rx = q.rx
         \/ q.tx = -1 /\ q.rx = -1 /\ q'.tx = 0 /\ q'.rx = 0
  BY <1>1, <1>5, <1>6 DEF prvLockQueue, queueUNLOCKED, QueueFields
<1>8. \A l \in {Rx, Tx} : t \notin Will(l)
  BY <1>1, WillIs DEF Due, Asleep
<1>9. t \notin Will(Rx) /\ t \notin Will(Tx)
  BY <1>8
<1>10. QED BY <1>2, <1>3, <1>4, <1>5, <1>7, <1>9, QuietServed

\* vTaskPlaceOnEventList: the task goes on the list while nothing is there, or
\* looks again if something is.
LEMMA PlaceServed ==
  ASSUME SchedInv, StorageInv, WaitInv, LockInv, ServeInv, Counting, app' = app, NEW t \in Users, Place(t)
  PROVE  ServeInv'
<1>1. /\ t \in Task /\ t = k.cur /\ pc[t][1] = "place" /\ DOMAIN w = Task /\ DOMAIN pc = Task
      /\ q' = q /\ Goto(t, "unlock_tx", 0)
  BY DEF Place, At, Users, StorageInv, CallInv
<1>2. \A u \in Task \ {t} : Still(u)
  <2>1. \A u \in Task \ {t} : pc'[u] = pc[u]
    BY <1>1, GotoDoes
  <2>2. \E out : w' = [w EXCEPT ![t].out = out]
    BY DEF Place
  <2>3. QED BY <1>1, <2>1, <2>2 DEF Still
<1>3. \A l \in {Rx, Tx} : t \notin Will(l)
  BY <1>1, WillIs DEF Due, Asleep
<1>4. CASE ~NotReady(w[t])
  <2>1. k' = k
    BY <1>4 DEF Place
  <2>2. OnlyLeave(k, k')
    BY <2>1 DEF OnlyLeave
  <2>3. t \notin Will(Rx) /\ t \notin Will(Tx)
    BY <1>3
  <2>4. QED BY <1>1, <1>2, <2>1, <2>2, <2>3, QuietServed
<1>5. CASE NotReady(w[t])
  <2>1. Waits(t)
    BY <1>1 DEF WaitInv
  <2>2. k'.evt = [k.evt EXCEPT ![t] = WaitList(w[t])] /\ \A u \in Task \ {t} : k'.where[u] = k.where[u]
    BY <1>5, <2>1, PlacesDoes
  <2>3. DOMAIN k.evt = Task
    BY DEF SchedInv, Data, Shape
  <2>4. k'.evt[t] = WaitList(w[t]) /\ \A u \in Task \ {t} : k'.evt[u] = k.evt[u]
    BY <1>1, <2>2, <2>3
  <2>5. ASSUME NEW l \in {Rx, Tx}, Served(l) PROVE Served(l)'
    <3>1. /\ There(l) \in Nat /\ There(l)' = There(l) /\ LockOf(l)' = LockOf(l)
          /\ LockOf(l) \in Int /\ LockOf(l) >= -1
      BY <1>1, CountersAre DEF LockInv
    <3>2. CASE l = WaitList(w[t])
      <4>1. There(l) = 0
        BY <1>5, <3>2, TwoLists DEF NotReady, prvIsQueueFull, prvIsQueueEmpty, WaitList, There, Counting
      <4>2. QED BY <3>1, <4>1, EmptyServed
    <3>3. CASE l # WaitList(w[t])
      <4>1. (\E u \in Task : k'.evt[u] = l) => \E u \in Task : k.evt[u] = l
        BY <2>4, <3>3
      <4>2. ASSUME NEW u \in Will(l) PROVE u \in Will(l)'
        <5>1. u \in Task /\ u # t
          BY <1>3 DEF Will, Users
        <5>2. Still(u) /\ k'.evt[u] = k.evt[u]
          BY <1>2, <2>4, <5>1
        <5>3. QED BY <5>1, <5>2, WillIs
      <4>3. /\ Cardinality(Will(l)) \in Nat /\ Cardinality(Will(l)') \in Nat
            /\ Will(l) \subseteq Task /\ Will(l)' \subseteq Task
        BY CountersAre
      <4>4. Cardinality(Will(l)) <= Cardinality(Will(l)')
        BY <4>2, <4>3, Trade
      <4>5. Created(k)' \subseteq Created(k)
        BY <1>1, <2>2, KernelTime DEF Created
      <4>6. There(l)' <= There(l) + 0 /\ Cardinality(Will(l)) + 0 <= Cardinality(Will(l)')
        BY <3>1, <4>3, <4>4
      <4>7. QED BY <2>5, <3>1, <4>1, <4>5, <4>6, StaysServed
    <3>4. QED BY <3>2, <3>3
  <2>6. q'.reset = q.reset
    BY <1>1
  <2>7. QED BY <2>5, <2>6, BothServed
<1>6. QED BY <1>4, <1>5

\* The end of a turn of a blocking call.
LEMMA EndsServed ==
  ASSUME SchedInv, StorageInv, WaitInv, LockInv, ServeInv, Counting, app' = app, NEW t \in Users,
         QueueResumesAll(t) \/ GiveWay(t)
  PROVE  ServeInv'
<1>1. /\ t \in Task /\ t = k.cur /\ pc[t][1] \in {"resume_all", "give_way"} /\ w' = w /\ q' = q
      /\ DOMAIN pc = Task
  BY DEF QueueResumesAll, GiveWay, At, Users, StorageInv, CallInv
<1>2. Waits(t) /\ w[t].out \in {"wait", "retry", "timeout"}
  BY <1>1 DEF WaitInv, Waits, Calling
<1>3. Passes(k, k', 0)
  BY <1>1, <1>2, QueueResumesDoes, GiveWayDoes
<1>4. OnlyLeave(k, k')
  BY <1>3, KernelTime, LeavesOnly DEF Passes
<1>5. PICK p \in {"again", "give_way", "failed", "look"} :
        /\ Goto(t, p, 0)
        /\ p \in {"failed", "look"} => pc[t][1] = "resume_all" /\ w[t].out = "timeout"
  <2>1. CASE QueueResumesAll(t)
    <3>1. pc[t][1] = "resume_all"
      BY <2>1 DEF QueueResumesAll, At
    <3>2. PICK r : r = xTaskResumeAll(k) OBVIOUS
    <3>3. Goto(t, CASE w[t].out = "wait" -> IF r.yielded THEN "again" ELSE "give_way"
                    [] w[t].out = "retry" -> "again"
                    [] w[t].out = "timeout" -> IF Sends(w[t]) THEN "failed" ELSE "look", 0)
      BY <2>1, <3>2 DEF QueueResumesAll
    <3>4. CASE w[t].out = "timeout"
      <4>1. Goto(t, IF Sends(w[t]) THEN "failed" ELSE "look", 0)
        BY <3>3, <3>4
      <4>2. QED BY <3>1, <3>4, <4>1
    <3>5. CASE w[t].out # "timeout"
      <4>1. Goto(t, "again", 0) \/ Goto(t, "give_way", 0)
        BY <1>2, <3>3, <3>5
      <4>2. QED BY <4>1
    <3>6. QED BY <3>4, <3>5
  <2>2. CASE GiveWay(t)
    <3>1. Goto(t, "again", 0)
      BY <2>2 DEF GiveWay
    <3>2. QED BY <3>1
  <2>3. QED BY <2>1, <2>2
<1>6. pc'[t][1] = p /\ \A u \in Task \ {t} : pc'[u] = pc[u]
  BY <1>1, <1>5, GotoDoes
<1>7. \A u \in Task \ {t} : Still(u)
  BY <1>1, <1>6 DEF Still
<1>8. ASSUME NEW l \in {Rx, Tx}, t \in Will(l) PROVE t \in Will(l)'
  <2>1. Due(t, l) /\ k.evt[t] \notin {Rx, Tx}
    BY <1>1, <1>8, WillIs
  <2>2. p \in {"again", "give_way"}
    BY <1>5, <2>1 DEF Due
  <2>3. WaitList(w[t])' = WaitList(w[t])
    BY <1>1 DEF WaitList, Sends
  <2>4. Due(t, l)'
    BY <1>6, <2>1, <2>2, <2>3 DEF Due, Asleep
  <2>5. k'.evt[t] \notin {Rx, Tx}
    BY <1>1, <1>4, <2>1, TwoLists DEF OnlyLeave
  <2>6. QED BY <1>1, <2>4, <2>5, WillIs
<1>9. q.tx = -1 /\ q.rx = -1
  BY <1>1, LockNow DEF queueUNLOCKED
<1>10. (t \in Will(Rx) => t \in Will(Rx)') /\ (t \in Will(Tx) => t \in Will(Tx)')
  BY <1>8
<1>11. QED BY <1>1, <1>4, <1>7, <1>9, <1>10, QuietServed

\* Half of prvUnlockQueue: list l has its left out wake-ups, and list m is not
\* concerned.
LEMMA HalfServed ==
  ASSUME SchedInv, StorageInv, WaitInv, Counting, NEW l \in {Rx, Tx}, NEW m \in {Rx, Tx}, l # m,
         NEW t \in Task, Waits(t), pc[t][1] \in {"unlock_tx", "unlock_rx"}, NEW p \in {"unlock_rx", "resume_all"},
         Goto(t, p, 0), w' = w, NEW lock \in Int, lock = LockOf(l), lock >= 0, LockOf(l)' \in Int,
         Called(k, k', l, lock), There(l)' = There(l), There(m)' = There(m), LockOf(m)' = LockOf(m),
         LockOf(m) \in Int, LockOf(m) >= -1
  PROVE  (Served(l) => Served(l)') /\ (Served(m) => Served(m)')
<1>1. PICK U : CalledAre(k, k', l, LeftOut(lock), U)
  BY DEF Called
<1>2. DOMAIN pc = Task /\ l \in EventLists
  BY TwoLists DEF StorageInv, CallInv
<1>3. pc'[t][1] = p /\ \A u \in Task \ {t} : pc'[u] = pc[u]
  BY <1>2, GotoDoes
<1>4. \A u \in Task \ {t} : Still(u)
  BY <1>3 DEF Still
<1>5. OnlyLeave(k, k')
  BY <1>2, KernelTime, LeavesOnly
<1>6. ASSUME NEW n \in {Rx, Tx} PROVE Due(t, n) => Due(t, n)'
  <2>1. WaitList(w[t])' = WaitList(w[t])
    BY DEF WaitList, Sends
  <2>2. QED BY <1>3, <2>1 DEF Due, Asleep
<1>7. ASSUME NEW n \in {Rx, Tx}, t \in Will(n) PROVE t \in Will(n)'
  <2>1. Due(t, n) /\ k.evt[t] \notin {Rx, Tx} /\ t \in Users
    BY <1>7, WillIs
  <2>2. k'.evt[t] \notin {Rx, Tx}
    BY <1>5, <2>1, TwoLists DEF OnlyLeave
  <2>3. QED BY <1>6, <2>1, <2>2, WillIs
<1>8. k'.where = k.where
  BY <1>1 DEF CalledAre
<1>9. Served(m) => Served(m)'
  <2>1. There(m)' <= There(m)
    BY CountersAre
  <2>2. Created(k)' \subseteq Created(k)
    BY <1>8 DEF Created
  <2>3. \A u \in {t} : u \in Will(m) => u \in Will(m)'
    BY <1>7
  <2>4. QED BY <1>4, <1>5, <2>1, <2>2, <2>3, RestServed
<1>10. Served(l) => Served(l)'
  <2>1. \A u \in Will(l) \ {t} : u \in Will(l)'
    BY <1>4, <1>5, OthersWill
  <2>2. Will(l) \subseteq Will(l)'
    BY <1>7, <2>1
  <2>3. ASSUME NEW u \in U PROVE u \in Will(l)'
    <3>1. u \in Task /\ k.evt[u] = l /\ k'.evt[u] = Pending
      BY <1>1 DEF CalledAre
    <3>2. CASE u = t
      <4>1. Due(t, l) /\ t \in Users
        BY <3>1, <3>2, WillIs
      <4>2. k'.evt[t] \notin {Rx, Tx}
        BY <3>1, <3>2, TwoLists
      <4>3. QED BY <1>6, <3>2, <4>1, <4>2, WillIs
    <3>3. CASE u # t
      <4>1. Waits(u) /\ Still(u)
        BY <1>4, <3>1, <3>3 DEF WaitInv
      <4>2. QED BY <3>1, <4>1, WokenWill
    <3>4. QED BY <3>2, <3>3
  <2>4. Will(l) \cup U \subseteq Will(l)'
    BY <2>2, <2>3
  <2>5. QED BY <1>1, <2>4, CalledServed
<1>11. QED BY <1>9, <1>10

\* Both halves of prvUnlockQueue.
LEMMA UnlockServed ==
  ASSUME SchedInv, StorageInv, WaitInv, LockInv, ServeInv, Counting, app' = app, NEW t \in Users,
         UnlockTx(t) \/ UnlockRx(t)
  PROVE  ServeInv'
<1>1. /\ t \in Task /\ t = k.cur /\ w' = w /\ Waits(t) /\ DOMAIN q = QueueFields /\ Rx # Tx
      /\ q.tx \in Int /\ q.tx >= -1 /\ q.rx \in Int /\ q.rx >= -1
  BY TwoLists DEF UnlockTx, UnlockRx, At, Users, WaitInv, StorageInv, RingInv, LockInv
<1>2. CASE UnlockTx(t)
  <2>1. pc[t][1] = "unlock_tx" /\ Goto(t, "unlock_rx", 0) /\ q' = [q EXCEPT !.tx = queueUNLOCKED]
    BY <1>2 DEF UnlockTx, At
  <2>2. q'.tx = -1 /\ q'.rx = q.rx /\ q'.n = q.n /\ q'.reset = q.reset
    BY <1>1, <2>1 DEF queueUNLOCKED, QueueFields
  <2>3. q.tx >= 0
    BY <1>1, <2>1, LockNow DEF queueUNLOCKED
  <2>4. Called(k, k', Rx, q.tx)
    BY <1>1, <1>2, UnlockDoes
  <2>5. /\ LockOf(Rx) = q.tx /\ LockOf(Rx)' = -1 /\ LockOf(Tx) = q.rx /\ LockOf(Tx)' = q.rx
        /\ There(Rx)' = There(Rx) /\ There(Tx)' = There(Tx)
    BY <2>2, CountersAre
  <2>6. (Served(Rx) => Served(Rx)') /\ (Served(Tx) => Served(Tx)')
    BY <1>1, <2>1, <2>3, <2>4, <2>5, HalfServed
  <2>7. QED BY <2>2, <2>6, BothServed
<1>3. CASE UnlockRx(t)
  <2>1. pc[t][1] = "unlock_rx" /\ Goto(t, "resume_all", 0) /\ q' = [q EXCEPT !.rx = queueUNLOCKED]
    BY <1>3 DEF UnlockRx, At
  <2>2. q'.rx = -1 /\ q'.tx = q.tx /\ q'.n = q.n /\ q'.reset = q.reset
    BY <1>1, <2>1 DEF queueUNLOCKED, QueueFields
  <2>3. q.rx >= 0
    BY <1>1, <2>1, LockNow DEF queueUNLOCKED
  <2>4. Called(k, k', Tx, q.rx)
    BY <1>1, <1>3, UnlockDoes
  <2>5. /\ LockOf(Tx) = q.rx /\ LockOf(Tx)' = -1 /\ LockOf(Rx) = q.tx /\ LockOf(Rx)' = q.tx
        /\ There(Rx)' = There(Rx) /\ There(Tx)' = There(Tx)
    BY <2>2, CountersAre
  <2>6. (Served(Tx) => Served(Tx)') /\ (Served(Rx) => Served(Rx)')
    BY <1>1, <2>1, <2>3, <2>4, <2>5, HalfServed
  <2>7. QED BY <2>2, <2>6, BothServed
<1>4. QED BY <1>2, <1>3

\* xQueueGenericReset leaves nothing there for a receiver, and says that it has
\* made room for more senders than it woke.
LEMMA ClearServed ==
  ASSUME StorageInv, Counting, NEW t \in Users, xQueueGenericReset(t)
  PROVE  ServeInv'
<1>1. DOMAIN q = QueueFields
  BY DEF StorageInv, RingInv
<1>2. q'.n = 0 /\ q'.reset = 1 /\ q'.tx = -1
  BY <1>1 DEF xQueueGenericReset, queueUNLOCKED, QueueFields
<1>3. There(Rx)' = 0 /\ LockOf(Rx)' \in Int
  BY <1>2, CountersAre
<1>4. Served(Rx)'
  BY <1>3, EmptyServed
<1>5. QED BY <1>2, <1>4 DEF ServeInv

\* The idle task is never in a call of queue.c.
LEMMA IdleNeverWaits ==
  ASSUME WaitInv
  PROVE  Idle \in Task /\ k.evt[Idle] \notin {Rx, Tx} /\ \A l \in {Rx, Tx} : Idle \notin Will(l)
<1>1. Idle \in Task /\ Waits(Idle)
  BY TasksAssumption DEF WaitInv
<1>2. Rx \in EventLists /\ Tx \in EventLists
  BY TwoLists
<1>3. QED BY <1>1, <1>2 DEF Waits, Will, Users

\* An interrupt that sends or receives: the list l that it may wake.
LEMMA GaveServed ==
  ASSUME SchedInv, WaitInv, LockInv, Counting, NEW l \in {Rx, Tx}, Served(l), pc' = pc, w' = w,
         There(l)' <= There(l) + 1,
         LockOf(l) = -1 => LockOf(l)' = -1 /\ WakesOne(k, k', l),
         LockOf(l) # -1 => LockOf(l)' = IncrementLock(LockOf(l)) /\ k' = k
  PROVE  Served(l)'
<1>1. Idle \in Task /\ k.evt[Idle] # l /\ Idle \notin Will(l)
  BY IdleNeverWaits
<1>2. \A u \in Task : Still(u)
  BY DEF Still
<1>3. l \in EventLists
  BY TwoLists
<1>4. CASE LockOf(l) = -1
  <2>1. OnlyLeave(k, k')
    BY <1>3, <1>4, KernelTime, LeavesOnly
  <2>2. QED BY <1>1, <1>2, <1>4, <2>1, WakeServed
<1>5. CASE LockOf(l) # -1
  <2>1. LockOf(l) \in Int /\ LockOf(l) >= 0
    BY <1>5, CountersAre DEF LockInv
  <2>2. \A u \in Task : u \in Will(l)' <=> u \in Will(l)
    BY <1>2, <1>5, WillIs
  <2>3. Will(l)' = Will(l)
    BY <2>2, CountersAre
  <2>4. QED BY <1>5, <2>1, <2>3, CountedServed
<1>6. QED BY <1>4, <1>5

\* And the other list, which loses what it had.
LEMMA LeftServed ==
  ASSUME SchedInv, WaitInv, LockInv, Counting, NEW l \in {Rx, Tx}, Served(l), pc' = pc, w' = w,
         There(l)' <= There(l), LockOf(l)' = LockOf(l), OnlyLeave(k, k'), k.susp = 1 => k'.where = k.where
  PROVE  Served(l)'
<1>1. \A u \in Task \ {} : Still(u)
  BY DEF Still
<1>2. LockOf(l) \in Int /\ LockOf(l) >= -1
  BY CountersAre DEF LockInv
<1>3. LockOf(l) # -1 => k.susp = 1
  BY HolderRuns, CountersAre DEF LockIsHeldAlone, queueUNLOCKED
<1>4. LockOf(l) = -1 \/ Created(k)' \subseteq Created(k)
  BY <1>3 DEF Created
<1>5. \A u \in {} : u \in Will(l) => u \in Will(l)'
  OBVIOUS
<1>6. QED BY <1>1, <1>2, <1>4, <1>5, RestServed

\* What both do.
LEMMA IsrServed ==
  ASSUME SchedInv, WaitInv, LockInv, ServeInv, Counting, NEW l \in {Rx, Tx}, NEW d \in {1, 0, -1},
         IsrGave(l, d), d = 0 => l = Rx, d = 1 => l = Rx, d = -1 => l = Tx
  PROVE  ServeInv'
<1>1. /\ q'.n = q.n + d /\ q'.reset = q.reset /\ pc' = pc /\ w' = w
      /\ l = Rx => /\ q'.rx = q.rx
                   /\ q.tx = -1 => q'.tx = q.tx /\ WakesOne(k, k', Rx)
                   /\ q.tx # -1 => q'.tx = IncrementLock(q.tx) /\ k' = k
      /\ l = Tx => /\ q'.tx = q.tx
                   /\ q.rx = -1 => q'.rx = q.rx /\ WakesOne(k, k', Tx)
                   /\ q.rx # -1 => q'.rx = IncrementLock(q.rx) /\ k' = k
  BY DEF IsrGave
<1>2. Rx \in EventLists /\ Tx \in EventLists /\ Rx # Tx
  BY TwoLists
<1>3. k' = k \/ WakesOne(k, k', l)
  BY <1>1, <1>2
<1>4. OnlyLeave(k, k')
  BY <1>2, <1>3, KernelTime, LeavesOnly
<1>5. k.susp = 1 => k'.where = k.where
  BY <1>3, WokenStays
<1>6. /\ There(Rx) = q.n /\ There(Rx)' = q'.n /\ There(Tx) = q.length - q.n /\ There(Tx)' = q.length - q'.n
      /\ LockOf(Rx) = q.tx /\ LockOf(Rx)' = q'.tx /\ LockOf(Tx) = q.rx /\ LockOf(Tx)' = q'.rx
      /\ q.n \in Int /\ q'.n \in Int /\ q.length \in Int
  BY CountersAre DEF Counting
<1>7. CASE l = Rx
  <2>1. d \in {0, 1}
    BY <1>2, <1>7
  <2>2. There(Rx)' <= There(Rx) + 1 /\ There(Tx)' <= There(Tx)
    BY <1>1, <1>6, <2>1
  <2>3. /\ LockOf(Rx) = -1 => LockOf(Rx)' = -1 /\ WakesOne(k, k', Rx)
        /\ LockOf(Rx) # -1 => LockOf(Rx)' = IncrementLock(LockOf(Rx)) /\ k' = k
        /\ LockOf(Tx)' = LockOf(Tx)
    BY <1>1, <1>6, <1>7
  <2>4. Served(Rx) => Served(Rx)'
    BY <1>1, <2>2, <2>3, GaveServed
  <2>5. Served(Tx) => Served(Tx)'
    BY <1>1, <1>4, <1>5, <2>2, <2>3, LeftServed
  <2>6. QED BY <1>1, <2>4, <2>5, BothServed
<1>8. CASE l = Tx
  <2>1. d = -1
    BY <1>2, <1>8
  <2>2. There(Tx)' <= There(Tx) + 1 /\ There(Rx)' <= There(Rx)
    BY <1>1, <1>6, <2>1
  <2>3. /\ LockOf(Tx) = -1 => LockOf(Tx)' = -1 /\ WakesOne(k, k', Tx)
        /\ LockOf(Tx) # -1 => LockOf(Tx)' = IncrementLock(LockOf(Tx)) /\ k' = k
        /\ LockOf(Rx)' = LockOf(Rx)
    BY <1>1, <1>2, <1>6, <1>8
  <2>4. Served(Tx) => Served(Tx)'
    BY <1>1, <2>2, <2>3, GaveServed
  <2>5. Served(Rx) => Served(Rx)'
    BY <1>1, <1>4, <1>5, <2>2, <2>3, LeftServed
  <2>6. QED BY <1>1, <2>4, <2>5, BothServed
<1>9. QED BY <1>7, <1>8

\* A step outside queue.c: nobody goes on a list, and while the queue is locked
\* no task is created.
LEMMA OutsideServed ==
  ASSUME SchedInv, LockInv, ServeInv, Counting, NEW t, \A u \in Task \ {t} : Still(u), OnlyLeave(k, k'),
         t \in Task => pc[t][1] \notin Calling \/ Still(t), q' = q, k.susp = 1 => k'.where = k.where
  PROVE  ServeInv'
<1>1. (q.tx = -1 /\ q.rx = -1) \/ k'.where = k.where
  BY HolderRuns DEF LockIsHeldAlone, queueUNLOCKED
<1>2. CASE t \in Task /\ Still(t)
  <2>1. \A u \in Task : Still(u)
    BY <1>2
  <2>2. \A l \in {Rx, Tx} : \A u \in Will(l) \ {} : u \in Will(l)'
    BY <2>1, OthersWill
  <2>3. (t \in Will(Rx) => t \in Will(Rx)') /\ (t \in Will(Tx) => t \in Will(Tx)')
    BY <2>2
  <2>4. QED BY <1>1, <2>3, QuietServed
<1>3. CASE t \in Task => pc[t][1] \notin Calling
  <2>1. t \notin Will(Rx) /\ t \notin Will(Tx)
    BY <1>3 DEF Will, Eager, Users, Asleep, Calling
  <2>2. QED BY <1>1, <2>1, QuietServed
<1>4. QED BY <1>2, <1>3

\* A step of a task in a call of queue.c.
LEMMA QueueStepServes ==
  ASSUME SchedInv, StorageInv, WaitInv, LockInv, ServeInv, Counting, app' = app, NEW t \in Users, QueueStep(t)
  PROVE  ServeInv'
<1>1. CallInv /\ t \in Task
  BY DEF StorageInv, Users
<1>2. CASE TryAgain(t)
  <2>1. /\ t = k.cur /\ pc[t][1] = "again" /\ last' = last /\ ticks' = ticks /\ held' = held
        /\ Try(t, w[t]) /\ pc[t][1] \in Calling
    BY <1>2 DEF TryAgain, At, Calling
  <2>2. /\ w[t].call \in {"back", "front", "overwrite", "receive", "peek"}
        /\ w[t].call # "overwrite"
    BY <1>1, <2>1, InCall DEF Lawful, WaitInv, Waits
  <2>3. QED BY <2>1, <2>2, TryServed
<1>3. ASSUME NEW c \in QueueCalls(t), QueueCall(t, c) PROVE ServeInv'
  <2>1. PICK d : Try(t, d) /\ d.call = c.call
    BY <1>3 DEF QueueCall
  <2>2. t = k.cur /\ pc[t][1] = "run" /\ last' = last /\ ticks' = ticks /\ held' = held
    BY <1>3 DEF QueueCall, At
  <2>3. c.call \in {"back", "front", "overwrite", "receive", "peek"}
    BY DEF QueueCalls
  <2>4. QED BY <2>1, <2>2, <2>3, TryServed
<1>4. CASE Fails(t) \/ QueueSuspendsAll(t) \/ LockAndCheck(t) \/ LookOnceMore(t)
  BY <1>4, MovesServed
<1>5. CASE Place(t)
  BY <1>5, PlaceServed
<1>6. CASE UnlockTx(t) \/ UnlockRx(t)
  BY <1>6, UnlockServed
<1>7. CASE QueueResumesAll(t) \/ GiveWay(t)
  BY <1>7, EndsServed
<1>8. CASE xQueueGenericReset(t)
  BY <1>8, ClearServed
<1>9. QED
  BY <1>2, <1>3, <1>4, <1>5, <1>6, <1>7, <1>8 DEF QueueStep

\* The tick interrupt.
LEMMA TickServed ==
  ASSUME SchedInv, StorageInv, WaitInv, LockInv, ServeInv, Counting, app' = app, QueueTick
  PROVE  ServeInv'
<1>1. TickInterrupt /\ pc' = pc /\ q' = q
  BY DEF QueueTick, TickInterrupt
<1>2. NoneJoins(k, k')
  BY <1>1, StepTick DEF Passes
<1>3. OnlyLeave(k, k')
  BY <1>2, KernelTime, LeavesOnly
<1>4. k.susp = 1 => k'.where = k.where
  BY <1>1, TickRemembered
<1>5. ASSUME NEW u \in Task PROVE Still(u)
  <2>1. w'[u] = w[u] \/ (w[u] # NoCall /\ w'[u] = [w[u] EXCEPT !.waited = @ + 1])
    BY DEF QueueTick
  <2>2. w[u] # NoCall => DOMAIN w[u] = CallFields
    BY DEF WaitInv, Waits, StorageInv, CallInv
  <2>3. QED BY <1>1, <2>1, <2>2 DEF Still
<1>6. Idle \in Task /\ Still(Idle)
  BY <1>5, TasksAssumption
<1>7. QED BY <1>1, <1>3, <1>4, <1>5, <1>6, OutsideServed

\* Every step keeps those who wait served.
LEMMA QueueNextServes ==
  ASSUME SchedInv, StorageInv, WaitInv, LockInv, ServeInv, [QueueNext]_qvars
  PROVE  ServeInv'
<1>1. CallInv /\ Idle \in Task
  BY TasksAssumption DEF StorageInv
<1>2. Counting /\ app' = app
  <2>1. Good(q, q') /\ app' = app
    BY QueueNextIsGood
  <2>2. Sound(q') /\ q'.length = q.length
    BY <2>1 DEF Good
  <2>3. QED BY <2>1, <2>2 DEF StorageInv, RingInv, Sound, Counting
<1>3. CASE UNCHANGED qvars
  <2>1. pc' = pc /\ w' = w /\ q' = q /\ k' = k
    BY <1>3 DEF qvars, vars
  <2>2. (\A u \in Task : Still(u)) /\ OnlyLeave(k, k') /\ k'.where = k.where
    BY <2>1 DEF Still, OnlyLeave
  <2>3. QED BY <1>1, <1>2, <2>1, <2>2, OutsideServed
<1>4. CASE QueueNext
  <2>1. CASE QueueInterrupt
    <3>1. CASE QueueTick
      BY <1>2, <3>1, TickServed
    <3>2. CASE ~QueueTick
      <4>1. IsrGave(Rx, 1) \/ IsrGave(Tx, -1) \/ IsrGave(Rx, 0)
        BY <1>2, <2>1, <3>2, InterruptGives
      <4>2. QED BY <1>2, <4>1, IsrServed
    <3>3. QED BY <3>1, <3>2
  <2>2. CASE \E t \in Users : QueueStep(t)
    BY <1>2, <2>2, QueueStepServes
  <2>3. CASE (\E t \in Users : Call(t)) /\ UNCHANGED <<q, w>>
    <3>1. PICK t \in Users : Call(t) BY <2>3
    <3>2. t \in Task /\ q' = q /\ w' = w
      BY <2>3 DEF Users
    <3>3. NoneJoins(k, k') /\ Elsewhere(t)
      BY <1>1, <1>2, <3>1, <3>2, CallsKeepWaits
    <3>4. /\ t = k.cur /\ pc[t][1] \notin Calling
          /\ \A u \in Task \ {t} : pc'[u] = pc[u]
      BY <3>3 DEF Elsewhere
    <3>5. OnlyLeave(k, k')
      BY <3>3, KernelTime, LeavesOnly
    <3>6. \A u \in Task \ {t} : Still(u)
      BY <3>2, <3>4 DEF Still
    <3>7. q.tx = -1 /\ q.rx = -1
      BY <3>2, <3>4, LockNow DEF queueUNLOCKED, Calling
    <3>8. t \notin Will(Rx) /\ t \notin Will(Tx)
      BY <3>2, <3>4, WillIs DEF Due, Asleep, Calling
    <3>9. QED BY <1>2, <3>2, <3>5, <3>6, <3>7, <3>8, QuietServed
  <2>4. CASE prvIdleTask /\ UNCHANGED <<q, w>>
    <3>1. q' = q /\ w' = w
      BY <2>4
    <3>2. NoneJoins(k, k') /\ pc' = pc /\ k.susp = 0
      BY <1>1, <1>2, <2>4, <3>1, IdleKeepsWaits
    <3>3. OnlyLeave(k, k')
      BY <3>2, KernelTime, LeavesOnly
    <3>4. \A u \in Task : Still(u)
      BY <3>1, <3>2 DEF Still
    <3>5. QED BY <1>1, <1>2, <3>1, <3>2, <3>3, <3>4, OutsideServed
  <2>5. QED BY <1>4, <2>1, <2>2, <2>3, <2>4 DEF QueueNext
<1>5. QED BY <1>3, <1>4

\* A new queue has nobody on its lists.
LEMMA QueueInitServes ==
  ASSUME QueueInit
  PROVE  ServeInv
<1>1. \A u \in Task : k.evt[u] = None
  BY InitStarts DEF QueueInit
<1>2. QED BY <1>1, TwoLists DEF ServeInv, Served

\* What the invariant says of the two wait lists themselves.
LEMMA ServedLists ==
  ASSUME SchedInv, StorageInv, WaitInv, LockInv, NEW l \in {Rx, Tx}, Served(l), k.list[l] # <<>>,
         NEW L, L \subseteq Task, Will(l) \subseteq L
  PROVE  MadeUpFor(LockOf(l), L, There(l))
<1>1. l \in EventLists
  BY TwoLists
<1>2. \E u \in Task : k.evt[u] = l
  BY <1>1, KernelTime, WaitersListed
<1>3. There(l) <= LeftOut(LockOf(l)) + Cardinality(Will(l)) \/ LockOf(l) >= Cardinality(Created(k))
  BY <1>2 DEF Served, MadeUpFor
<1>4. Cardinality(Will(l)) \in Nat /\ Cardinality(L) \in Nat /\ Cardinality(Will(l)) <= Cardinality(L)
  BY Trade DEF Will, Users
<1>5. There(l) \in Int /\ LeftOut(LockOf(l)) \in Int
  BY DEF There, LockOf, LeftOut, LockInv, StorageInv, RingInv
<1>6. QED BY <1>3, <1>4, <1>5 DEF MadeUpFor

\* No receiver sleeps beside an item, and no sender beside a place, that nobody
\* else is coming for.
LEMMA NobodyForgotten ==
  ASSUME SchedInv, StorageInv, WaitInv, LockInv, ServeInv
  PROVE  NoReceiverForgotten /\ NoSenderForgotten
<1>1. Rx # Tx
  BY TwoLists
<1>2. ASSUME NEW l \in {Rx, Tx}, NEW t \in Will(l)
      PROVE  t \in Users /\ Looking(t) /\ (Sends(w[t]) <=> l = Tx)
  <2>1. t \in Users /\ t \in Task /\ Eager(t) /\ WaitList(w[t]) = l
    BY DEF Will, Users
  <2>2. w[t] # NoCall /\ pc[t][1] \notin {"failed", "run"}
    BY <2>1 DEF WaitInv, Waits, Eager, Asleep, Calling
  <2>3. QED BY <1>1, <2>1, <2>2 DEF Looking, Eager, WaitList
<1>3. NoReceiverForgotten
  <2>1. PICK L : L = {t \in Users : Looking(t) /\ ~Sends(w[t])} OBVIOUS
  <2>2. L \subseteq Task /\ Will(Rx) \subseteq L
    BY <1>1, <1>2, <2>1 DEF Users
  <2>3. k.list[Rx] # <<>> => MadeUpFor(LockOf(Rx), L, There(Rx))
    BY <2>2, ServedLists DEF ServeInv
  <2>4. LockOf(Rx) = q.tx /\ There(Rx) = q.n
    BY DEF LockOf, There
  <2>5. QED BY <2>1, <2>3, <2>4 DEF NoReceiverForgotten
<1>4. NoSenderForgotten
  <2>1. PICK L : L = {t \in Users : Looking(t) /\ Sends(w[t])} OBVIOUS
  <2>2. L \subseteq Task /\ Will(Tx) \subseteq L
    BY <1>2, <2>1 DEF Users
  <2>3. k.list[Tx] # <<>> /\ q.reset = 0 => MadeUpFor(LockOf(Tx), L, There(Tx))
    BY <2>2, ServedLists DEF ServeInv
  <2>4. LockOf(Tx) = q.rx /\ There(Tx) = q.length - q.n
    BY <1>1 DEF LockOf, There
  <2>5. QED BY <2>1, <2>3, <2>4 DEF NoSenderForgotten
<1>5. QED BY <1>3, <1>4

\* No wake-up is lost between the interrupts, the lock of the queue, the suspended
\* scheduler and the tasks that are about to wait: for every application, number
\* of tasks, priorities, length of the queue and width of the tick count.
THEOREM NobodySleepsBesideAnItem == QueueSpec => []WaitersAreServed
<1>1. QueueInit => SchedInv /\ WaitInv /\ LockInv /\ ServeInv
  BY QueueInitRests, QueueInitServes
<1>2. StorageInv /\ SchedInv /\ WaitInv /\ LockInv /\ ServeInv /\ [QueueNext]_qvars
        => SchedInv' /\ WaitInv' /\ LockInv' /\ ServeInv'
  BY QueueNextKeeps, QueueNextServes
<1>3. SchedInv /\ StorageInv /\ WaitInv /\ LockInv /\ ServeInv => WaitersAreServed
  BY ListsDoAgree, HolderRuns, NobodyForgotten DEF WaitersAreServed
<1>4. QED BY <1>1, <1>2, <1>3, StorageSound, PTL DEF QueueSpec

-----------------------------------------------------------------------------
(* The time of a call *)

(* No task calls xTaskCatchUpTicks, which lets the count jump where no tick    *)
(* interrupt came; nothing in this program does.                              *)
NoCatchUp == \A p \in Apps : \A t \in Users : "xTaskCatchUpTicks" \notin p.calls[t]

(* From x to y the clock goes on by the ticks that were remembered and are so *)
(* no longer, d of them new.                                                  *)
Flows(x, y, d) == \E n \in Nat : y.pended + n = x.pended + d /\ Later(x, y, n)

(* The numbers of the clock. *)
Clock(x) ==
  /\ x.pended \in Nat /\ x.tick \in Nat /\ x.tick < TickMod
  /\ x.overflows \in Nat /\ x.overflows < OverflowMod

\* They are that in every state.
LEMMA DataRuns ==
  ASSUME NEW x, Data(x)
  PROVE  Clock(x)
BY TasksAssumption DEF Data, Shape, TickType, Clock

\* The clock of a state of the program.
LEMMA ClockRuns ==
  ASSUME SchedInv
  PROVE  Clock(k)
BY DataRuns DEF SchedInv

\* The clock in a step that leaves it alone, and in one of the scheduler.
LEMMA ClockFlows ==
  ASSUME NEW x, NEW y, Data(x)
  PROVE  /\ SameClock(x, y) => Flows(x, y, 0)
         /\ \A d : Passes(x, y, d) => Flows(x, y, d)
         /\ y = x => Flows(x, y, 0)
<1>1. Shape(x) /\ x.pended \in Nat
  BY DEF Data, Shape
<1>2. ASSUME y.tick = x.tick, y.overflows = x.overflows, y.pended = x.pended PROVE Flows(x, y, 0)
  <2>1. Later(x, y, 0)
    BY <1>1, <1>2, LaterNow
  <2>2. y.pended + 0 = x.pended + 0 /\ 0 \in Nat
    BY <1>1, <1>2
  <2>3. QED BY <2>1, <2>2 DEF Flows
<1>3. QED BY <1>2 DEF SameClock, Passes, Flows

\* The count of the wraps: at most one of two is counted.
LEMMA WrapsOnce ==
  ASSUME NEW o \in 0 .. OverflowMod - 1, NEW e \in {0, 1}, NEW f \in {0, 1}, e + f <= 1
  PROVE  (((o + e) % OverflowMod) + f) % OverflowMod = (o + (e + f)) % OverflowMod
<1>1. OverflowMod \in Nat \ {0}
  BY TasksAssumption
<1>2. o + e \in Int /\ f \in Int
  OBVIOUS
<1>3. (((o + e) % OverflowMod) + f) % OverflowMod = ((o + e) + f) % OverflowMod
  BY <1>1, <1>2, ModAdd
<1>4. (o + e) + f = o + (e + f)
  OBVIOUS
<1>5. QED BY <1>3, <1>4

\* A call that has not waited all its ticks stays punctual while the time goes on:
\* before the count can pass its entry time again, the call is over.
LEMMA StaysPunctual ==
  ASSUME NEW x, NEW y, Clock(x), Clock(y), NEW c, NEW z, NEW d \in {0, 1}, Flows(x, y, d),
         c.asked \in TickType, c.asked # portMAX_DELAY, c.ticks \in 0 .. c.asked, c.waited \in 0 .. c.asked,
         c.entry \in TickType, c.overflows \in 0 .. OverflowMod - 1, Punctual(x, c),
         z.asked = c.asked, z.ticks = c.ticks, z.waited = c.waited + d, z.entry = c.entry,
         z.overflows = c.overflows, z.waited < z.asked
  PROVE  Punctual(y, z)
<1>1. PICK n \in Nat : y.pended + n = x.pended + d /\ Later(x, y, n)
  BY DEF Flows
<1>2. PICK f \in Nat : y.tick = x.tick + n - TickMod * f /\ y.overflows = (x.overflows + f) % OverflowMod
  BY <1>1 DEF Later
<1>3. PICK E : E = Elapsed(x, c) OBVIOUS
<1>4. E \in Nat /\ E = c.waited - (c.asked - c.ticks) - x.pended
  BY <1>3 DEF Punctual, Elapsed, Clock
<1>5. PICK e \in {0, 1} : x.tick = c.entry + E - e * TickMod /\ x.overflows = (c.overflows + e) % OverflowMod
  BY <1>3 DEF Punctual
<1>6. PICK G : G = Elapsed(y, z) OBVIOUS
<1>7. G = E + n
  <2>1. c.asked \in Nat /\ c.ticks \in Nat /\ c.waited \in Nat
    BY TasksAssumption DEF TickType
  <2>2. x.pended \in Nat /\ y.pended \in Nat
    BY DEF Clock
  <2>3. G = (c.waited + d) - (c.asked - c.ticks) - y.pended
    BY <1>6 DEF Elapsed
  <2>4. QED BY <1>1, <1>4, <2>1, <2>2, <2>3
<1>8. TickMod \in Nat /\ TickMod > 2 /\ portMAX_DELAY = TickMod - 1
  BY TasksAssumption DEF portMAX_DELAY
<1>9. G < TickMod - 1 /\ c.entry \in Nat /\ c.entry < TickMod
  BY <1>1, <1>4, <1>6, <1>7, <1>8 DEF Elapsed, Clock, TickType
<1>10. PICK b \in Nat : b = TickMod * f /\ (f = 0 => b = 0) /\ (f = 1 => b = TickMod) /\ (f > 1 => b >= 2 * TickMod)
  <2>1. TickMod * f \in Nat
    BY <1>8
  <2>2. f = 0 => TickMod * f = 0
    BY <1>8
  <2>3. f = 1 => TickMod * f = TickMod
    BY <1>8
  <2>4. f > 1 => TickMod * f >= 2 * TickMod
    <3>1. CASE f > 1
      <4>1. PICK g \in Nat : f = g + 2
        BY <3>1
      <4>2. TickMod * (g + 2) = TickMod * g + 2 * TickMod /\ TickMod * g \in Nat
        BY <1>8
      <4>3. QED BY <1>8, <4>1, <4>2
    <3>2. QED BY <3>1
  <2>5. QED BY <2>1, <2>2, <2>3, <2>4
<1>11. y.tick \in Nat /\ y.tick = x.tick + n - b
  BY <1>2, <1>10 DEF Clock
<1>12. PICK a \in {0, TickMod} : a = e * TickMod /\ (e = 0 <=> a = 0)
  BY <1>8
<1>13. y.tick = c.entry + G - a - b
  BY <1>4, <1>5, <1>7, <1>8, <1>9, <1>11, <1>12
<1>14. e + f <= 1 /\ f \in {0, 1}
  <2>1. G \in Nat /\ c.entry + G < 2 * TickMod - 1
    BY <1>4, <1>7, <1>8, <1>9
  <2>2. a + b <= c.entry + G /\ a + b < 2 * TickMod
    BY <1>8, <1>9, <1>10, <1>11, <1>12, <1>13, <2>1
  <2>3. ~(f > 1)
    BY <1>8, <1>10, <1>12, <2>2
  <2>4. f \in {0, 1}
    BY <2>3
  <2>5. ~(e = 1 /\ f = 1)
    BY <1>8, <1>10, <1>12, <2>2
  <2>6. QED BY <2>4, <2>5
<1>15. e + f \in {0, 1} /\ y.tick = c.entry + G - (e + f) * TickMod
  <2>1. CASE e = 0 /\ f = 0
    BY <1>4, <1>7, <1>8, <1>9, <1>10, <1>12, <1>13, <2>1
  <2>2. CASE e = 1 /\ f = 0
    BY <1>4, <1>7, <1>8, <1>9, <1>10, <1>12, <1>13, <2>2
  <2>3. CASE e = 0 /\ f = 1
    BY <1>4, <1>7, <1>8, <1>9, <1>10, <1>12, <1>13, <2>3
  <2>4. QED BY <1>14, <2>1, <2>2, <2>3
<1>16. y.overflows = (c.overflows + (e + f)) % OverflowMod
  <2>1. y.overflows = (((c.overflows + e) % OverflowMod) + f) % OverflowMod
    BY <1>2, <1>5
  <2>2. (((c.overflows + e) % OverflowMod) + f) % OverflowMod = (c.overflows + (e + f)) % OverflowMod
    BY <1>14, WrapsOnce
  <2>3. QED BY <2>1, <2>2
<1>17. G >= 0
  BY <1>4, <1>7
<1>18. QED
  <2>1. PICK h \in {0, 1} : h = e + f
    BY <1>15
  <2>2. y.tick = z.entry + G - h * TickMod /\ y.overflows = (z.overflows + h) % OverflowMod
    BY <1>15, <1>16, <2>1
  <2>3. QED BY <1>6, <1>17, <2>1, <2>2 DEF Punctual

\* The time that goes on leaves a call timely.
LEMMA TimePasses ==
  ASSUME NEW x, NEW y, Clock(x), Clock(y), NEW c, DOMAIN c = CallFields, Timely(x, c), NEW d \in {0, 1},
         Flows(x, y, d),
         NEW z, z = IF d = 1 /\ c.set = 1 /\ c.asked # portMAX_DELAY /\ c.waited < c.asked
                    THEN [c EXCEPT !.waited = @ + 1] ELSE c
  PROVE  Timely(y, z) /\ DOMAIN z = CallFields /\ z.set = c.set /\ z.ticks = c.ticks
<1>1. /\ c.asked \in TickType /\ c.ticks \in 0 .. c.asked /\ c.waited \in 0 .. c.asked
      /\ c.asked = portMAX_DELAY => c.ticks = portMAX_DELAY
      /\ c.ticks = 0 => c.waited = c.asked /\ c.asked # portMAX_DELAY
      /\ c.out = "timeout" => c.ticks = 0
  BY DEF Timely
<1>2. /\ c.set = 1 /\ c.asked # portMAX_DELAY =>
           c.entry \in TickType /\ c.overflows \in 0 .. OverflowMod - 1
      /\ c.set = 1 /\ c.asked # portMAX_DELAY /\ c.waited < c.asked => Punctual(x, c)
  BY DEF Timely
<1>3. CASE d = 1 /\ c.set = 1 /\ c.asked # portMAX_DELAY /\ c.waited < c.asked
  <2>1. z = [c EXCEPT !.waited = @ + 1]
    BY <1>3
  <2>2. /\ DOMAIN z = CallFields /\ z.asked = c.asked /\ z.ticks = c.ticks /\ z.waited = c.waited + 1
        /\ z.set = c.set /\ z.out = c.out /\ z.entry = c.entry /\ z.overflows = c.overflows
    BY <2>1 DEF CallFields
  <2>3. z.waited < z.asked => Punctual(y, z)
    BY <1>1, <1>2, <1>3, <2>2, StaysPunctual
  <2>4. z.waited \in 0 .. z.asked /\ z.ticks # 0
    BY <1>1, <1>3, <2>2 DEF TickType
  <2>5. QED BY <1>1, <1>2, <1>3, <2>2, <2>3, <2>4 DEF Timely
<1>4. CASE ~(d = 1 /\ c.set = 1 /\ c.asked # portMAX_DELAY /\ c.waited < c.asked)
  <2>1. z = c
    BY <1>4
  <2>2. c.set = 1 /\ c.asked # portMAX_DELAY /\ c.waited < c.asked => Punctual(y, c)
    <3>1. SUFFICES ASSUME c.set = 1, c.asked # portMAX_DELAY, c.waited < c.asked PROVE Punctual(y, c)
      OBVIOUS
    <3>2. d = 0 /\ c.waited = c.waited + d
      BY <1>1, <1>4, <3>1 DEF TickType
    <3>3. QED BY <1>1, <1>2, <3>1, <3>2, StaysPunctual
  <2>3. QED BY <1>1, <1>2, <2>1, <2>2 DEF Timely
<1>5. QED BY <1>3, <1>4

\* What xTaskCheckForTimeOut leaves of a timely call is timely: it gives up only
\* when all the ticks are waited, and what is left of them counts from now.
LEMMA CheckHonest ==
  ASSUME Clock(k), NEW c, DOMAIN c = CallFields, Timely(k, c), c.set = 1, NEW r, r = xTaskCheckForTimeOut(k, c)
  PROVE  /\ DOMAIN r.w = CallFields /\ Timely(k, r.w) /\ r.w.set = 1
         /\ r.timedOut => r.w.ticks = 0
<1>1. /\ c.asked \in TickType /\ c.ticks \in 0 .. c.asked /\ c.waited \in 0 .. c.asked
      /\ c.asked = portMAX_DELAY => c.ticks = portMAX_DELAY
      /\ c.ticks = 0 => c.waited = c.asked /\ c.asked # portMAX_DELAY
      /\ c.out = "timeout" => c.ticks = 0
      /\ c.asked # portMAX_DELAY => c.entry \in TickType /\ c.overflows \in 0 .. OverflowMod - 1
      /\ c.asked # portMAX_DELAY /\ c.waited < c.asked => Punctual(k, c)
  BY DEF Timely
<1>2. TickMod \in Nat /\ TickMod > 2 /\ portMAX_DELAY = TickMod - 1 /\ TickType = 0 .. TickMod - 1
  BY TasksAssumption DEF portMAX_DELAY, TickType
<1>3. CASE c.ticks = portMAX_DELAY
  <2>1. r = [w |-> c, timedOut |-> FALSE]
    BY <1>3 DEF xTaskCheckForTimeOut
  <2>2. QED BY <2>1
<1>4. CASE c.ticks # portMAX_DELAY
  <2>0. c.asked # portMAX_DELAY
    BY <1>1, <1>4
  <2>1. PICK g : g = (k.tick - c.entry) % TickMod OBVIOUS
  <2>2. /\ c.entry \in Nat /\ c.entry < TickMod /\ k.tick \in Nat /\ k.tick < TickMod
        /\ g \in 0 .. TickMod - 1
    BY <1>1, <1>2, <2>0, <2>1, SMTT(30) DEF Clock
  <2>3. c.waited < c.asked =>
          /\ g = Elapsed(k, c) /\ ~(k.overflows # c.overflows /\ k.tick >= c.entry) /\ g < c.ticks
    <3>1. SUFFICES ASSUME c.waited < c.asked
                   PROVE /\ g = Elapsed(k, c) /\ ~(k.overflows # c.overflows /\ k.tick >= c.entry) /\ g < c.ticks
      OBVIOUS
    <3>2. PICK E : E = Elapsed(k, c) OBVIOUS
    <3>3. E \in Nat /\ E = c.waited - (c.asked - c.ticks) - k.pended
      BY <1>1, <2>0, <3>1, <3>2 DEF Punctual, Elapsed, Clock
    <3>4. PICK e \in {0, 1} : k.tick = c.entry + E - e * TickMod /\ k.overflows = (c.overflows + e) % OverflowMod
      BY <1>1, <2>0, <3>1, <3>2 DEF Punctual
    <3>5. E < c.ticks /\ E < TickMod
      BY <1>1, <1>2, <3>1, <3>3 DEF Clock
    <3>6. CASE e = 0
      <4>1. k.tick - c.entry = E /\ k.overflows = c.overflows % OverflowMod
        BY <1>1, <1>2, <2>0, <2>2, <3>3, <3>4, <3>6
      <4>2. E % TickMod = E
        BY <1>2, <3>3, <3>5, ModWithin
      <4>3. c.overflows % OverflowMod = c.overflows
        BY <1>1, <2>0, TasksAssumption, ModWithin
      <4>4. QED BY <2>1, <3>2, <3>5, <4>1, <4>2, <4>3
    <3>7. CASE e = 1
      <4>1. k.tick = c.entry + E - TickMod
        BY <1>2, <2>2, <3>3, <3>4, <3>7
      <4>2. k.tick - c.entry = E - TickMod /\ ~(k.tick >= c.entry)
        BY <1>2, <2>2, <3>3, <3>5, <4>1
      <4>3. (E - TickMod) % TickMod = E
        BY <1>2, <3>3, <3>5
      <4>4. QED BY <2>1, <3>2, <3>5, <4>2, <4>3
    <3>8. QED BY <3>4, <3>6, <3>7
  <2>4. CASE r = [w |-> [c EXCEPT !.ticks = 0], timedOut |-> TRUE] /\ c.waited = c.asked
    <3>1. PICK z : z = [c EXCEPT !.ticks = 0] OBVIOUS
    <3>2. /\ DOMAIN z = CallFields /\ z.asked = c.asked /\ z.ticks = 0 /\ z.waited = c.waited
          /\ z.set = c.set /\ z.out = c.out /\ z.entry = c.entry /\ z.overflows = c.overflows
      BY <3>1 DEF CallFields
    <3>3. Timely(k, z)
      BY <1>1, <1>2, <2>0, <2>4, <3>2 DEF Timely
    <3>4. r.w = z /\ r.timedOut = TRUE
      BY <2>4, <3>1
    <3>5. QED BY <3>2, <3>3, <3>4
  <2>5. CASE /\ r = [w |-> [c EXCEPT !.ticks = @ - g, !.entry = k.tick, !.overflows = k.overflows],
                     timedOut |-> FALSE]
             /\ g < c.ticks
    <3>1. PICK z : z = [c EXCEPT !.ticks = @ - g, !.entry = k.tick, !.overflows = k.overflows] OBVIOUS
    <3>2. /\ DOMAIN z = CallFields /\ z.asked = c.asked /\ z.ticks = c.ticks - g /\ z.waited = c.waited
          /\ z.set = c.set /\ z.out = c.out /\ z.entry = k.tick /\ z.overflows = k.overflows
      BY <3>1 DEF CallFields
    <3>3. z.waited < z.asked => Punctual(k, z)
      <4>1. SUFFICES ASSUME z.waited < z.asked PROVE Punctual(k, z)
        OBVIOUS
      <4>2. Elapsed(k, z) = 0
        <5>1. c.asked \in Nat /\ c.ticks \in Nat /\ c.waited \in Nat /\ k.pended \in Nat /\ g \in Nat
          BY <1>1, <1>2, <2>2 DEF Clock
        <5>2. g = c.waited - (c.asked - c.ticks) - k.pended
          BY <2>3, <3>2, <4>1 DEF Elapsed
        <5>3. Elapsed(k, z) = c.waited - (c.asked - (c.ticks - g)) - k.pended
          BY <3>2 DEF Elapsed
        <5>4. QED BY <5>1, <5>2, <5>3
      <4>3. k.tick = z.entry + 0 - 0 * TickMod
        BY <1>2, <2>2, <3>2
      <4>4. k.overflows = (z.overflows + 0) % OverflowMod
        <5>1. k.overflows \in 0 .. OverflowMod - 1 /\ OverflowMod \in Nat \ {0}
          BY TasksAssumption DEF Clock
        <5>2. k.overflows % OverflowMod = k.overflows /\ z.overflows + 0 = k.overflows
          BY <3>2, <5>1, ModWithin
        <5>3. QED BY <5>2
      <4>5. QED BY <4>2, <4>3, <4>4 DEF Punctual
    <3>4. z.ticks \in 0 .. z.asked /\ z.ticks # 0 /\ z.out # "timeout"
      BY <1>1, <1>2, <2>2, <2>5, <3>2, SMTT(30)
    <3>5. k.tick \in TickType /\ k.overflows \in 0 .. OverflowMod - 1
      BY <1>2, TasksAssumption DEF Clock
    <3>6. Timely(k, z)
      BY <1>1, <2>0, <3>2, <3>3, <3>4, <3>5 DEF Timely
    <3>7. r.w = z /\ r.timedOut = FALSE
      BY <2>5, <3>1
    <3>8. QED BY <3>2, <3>6, <3>7
  <2>6. r = IF k.overflows # c.overflows /\ k.tick >= c.entry
            THEN [w |-> [c EXCEPT !.ticks = 0], timedOut |-> TRUE]
            ELSE IF g < c.ticks
            THEN [w |-> [c EXCEPT !.ticks = @ - g, !.entry = k.tick, !.overflows = k.overflows],
                  timedOut |-> FALSE]
            ELSE [w |-> [c EXCEPT !.ticks = 0], timedOut |-> TRUE]
    BY <1>4, <2>1 DEF xTaskCheckForTimeOut
  <2>7. c.waited < c.asked \/ c.waited = c.asked
    BY <1>1, <1>2
  <2>8. CASE ~(k.overflows # c.overflows /\ k.tick >= c.entry) /\ g < c.ticks
    BY <2>5, <2>6, <2>8
  <2>9. CASE (k.overflows # c.overflows /\ k.tick >= c.entry) \/ ~(g < c.ticks)
    <3>1. r = [w |-> [c EXCEPT !.ticks = 0], timedOut |-> TRUE]
      BY <2>6, <2>9
    <3>2. QED BY <2>3, <2>4, <2>7, <2>9, <3>1
  <2>10. QED BY <2>8, <2>9
<1>5. QED BY <1>3, <1>4

\* A task whose call is as it was, and not about to fail unless its time is up.
LEMMA SameCallHonest ==
  ASSUME Clock(k), Clock(k'), CallInv, HonestInv, Flows(k, k', 0), NEW u \in Task, w'[u] = w[u],
         pc'[u][1] \in Calling => pc[u][1] \in Calling /\ w[u].set = 1,
         pc'[u][1] \in {"failed", "look"} => w[u].ticks = 0
  PROVE  Honest(u)'
<1>1. PICK c : c = w[u] OBVIOUS
<1>2. CASE pc'[u][1] \in Calling
  <2>1. Timely(k, c) /\ DOMAIN c = CallFields
    BY <1>1, <1>2 DEF HonestInv, Honest, CallInv
  <2>2. Timely(k', c)
    <3>1. c = IF 0 = 1 /\ c.set = 1 /\ c.asked # portMAX_DELAY /\ c.waited < c.asked
              THEN [c EXCEPT !.waited = @ + 1] ELSE c
      OBVIOUS
    <3>2. QED BY <2>1, <3>1, TimePasses
  <2>3. w'[u] = c /\ c.set = 1
    BY <1>1, <1>2
  <2>4. QED BY <1>1, <2>2, <2>3 DEF Honest
<1>3. CASE pc'[u][1] \notin Calling
  BY <1>3 DEF Honest
<1>4. QED BY <1>2, <1>3

\* A task that stays where it is in its call while the clock goes on.
LEMMA RestingHonest ==
  ASSUME Clock(k), Clock(k'), CallInv, HonestInv, NEW d \in {0, 1}, Flows(k, k', d), NEW u \in Task,
         pc'[u] = pc[u],
         w'[u] = IF d = 1 /\ w[u] # NoCall /\ w[u].set = 1 /\ w[u].asked # portMAX_DELAY
                    /\ w[u].waited < w[u].asked
                 THEN [w[u] EXCEPT !.waited = @ + 1] ELSE w[u]
  PROVE  Honest(u)'
<1>1. PICK c : c = w[u] OBVIOUS
<1>2. PICK z : z = w'[u] OBVIOUS
<1>3. CASE pc[u][1] \in Calling
  <2>1. /\ Timely(k, c) /\ DOMAIN c = CallFields /\ (pc[u][1] # "failed" => c.set = 1)
        /\ pc[u][1] \in {"failed", "look"} => c.ticks = 0
    BY <1>1, <1>3 DEF HonestInv, Honest, CallInv
  <2>2. DOMAIN NoCall # CallFields
    BY DEF NoCall, CallFields
  <2>3. z = IF d = 1 /\ c.set = 1 /\ c.asked # portMAX_DELAY /\ c.waited < c.asked
            THEN [c EXCEPT !.waited = @ + 1] ELSE c
    BY <1>1, <1>2, <2>1, <2>2
  <2>4. Timely(k', z) /\ z.set = c.set /\ z.ticks = c.ticks
    BY <2>1, <2>3, TimePasses
  <2>5. QED BY <1>2, <1>3, <2>1, <2>4 DEF Honest
<1>4. CASE pc[u][1] \notin Calling
  BY <1>4 DEF Honest
<1>5. QED BY <1>3, <1>4

\* The first critical section of a call: one with no ticks to wait fails at once,
\* and one that is to wait starts counting them.
LEMMA TryHonest ==
  ASSUME SchedInv, Clock(k), CallInv, NEW t \in Task, t = k.cur, pc[t][1] \in {"run", "again"},
         NEW c, DOMAIN c = CallFields, Timely(k, c), c.set # 1 => c.waited = 0 /\ c.ticks = c.asked, Try(t, c)
  PROVE  NotReady(c) /\ k' = k => Honest(t)'
<1>1. SUFFICES ASSUME NotReady(c), k' = k PROVE Honest(t)'
  OBVIOUS
<1>2. CASE c.ticks = 0
  <2>1. pc' = [pc EXCEPT ![t] = <<"failed", 0>>] /\ w' = [w EXCEPT ![t] = c]
    BY <1>1, <1>2 DEF Try, Goto
  <2>2. pc'[t][1] = "failed" /\ w'[t] = c
    BY <2>1 DEF CallInv
  <2>3. QED BY <1>1, <1>2, <2>2 DEF Honest
<1>3. CASE c.ticks # 0
  <2>1. PICK d : d = IF c.set = 1 THEN c ELSE [vTaskInternalSetTimeOutState(c) EXCEPT !.set = 1]
    OBVIOUS
  <2>2. pc' = [pc EXCEPT ![t] = <<"suspend_all", 0>>] /\ w' = [w EXCEPT ![t] = d]
    BY <1>1, <1>3, <2>1 DEF Try, Goto
  <2>3. pc'[t][1] = "suspend_all" /\ w'[t] = d
    BY <2>2 DEF CallInv
  <2>4. Timely(k, d) /\ d.set = 1
    <3>1. CASE c.set = 1
      BY <2>1, <3>1
    <3>2. CASE c.set # 1 /\ c.ticks = portMAX_DELAY
      <4>1. d = [c EXCEPT !.set = 1]
        BY <2>1, <3>2 DEF vTaskInternalSetTimeOutState
      <4>2. /\ d.set = 1 /\ d.asked = c.asked /\ d.ticks = c.ticks /\ d.waited = c.waited /\ d.out = c.out
        BY <4>1 DEF CallFields
      <4>3. QED BY <3>2, <4>2 DEF Timely
    <3>3. CASE c.set # 1 /\ c.ticks # portMAX_DELAY
      <4>1. d = [c EXCEPT !.set = 1, !.entry = k.tick, !.overflows = k.overflows]
        BY <2>1, <3>3 DEF vTaskInternalSetTimeOutState, CallFields
      <4>2. /\ d.set = 1 /\ d.asked = c.asked /\ d.ticks = c.ticks /\ d.waited = c.waited /\ d.out = c.out
            /\ d.entry = k.tick /\ d.overflows = k.overflows
        BY <4>1 DEF CallFields
      <4>3. k.pended = 0
        <5>1. k.susp = 0
          BY Locked DEF Locking
        <5>2. QED BY <5>1, KernelTime
      <4>4. d.asked \in Nat /\ d.waited = 0 /\ d.ticks = d.asked
        BY <3>3, <4>2 DEF Timely, TickType
      <4>5. Elapsed(k, d) = 0
        BY <4>3, <4>4 DEF Elapsed
      <4>6. k.tick = d.entry + 0 - 0 * TickMod
        BY <4>2, TasksAssumption DEF Clock
      <4>7. k.overflows = (d.overflows + 0) % OverflowMod
        <5>1. k.overflows \in 0 .. OverflowMod - 1 /\ OverflowMod \in Nat \ {0}
          BY TasksAssumption DEF Clock
        <5>2. k.overflows % OverflowMod = k.overflows /\ d.overflows + 0 = k.overflows
          BY <4>2, <5>1, ModWithin
        <5>3. QED BY <5>2
      <4>8. Punctual(k, d)
        BY <4>5, <4>6, <4>7 DEF Punctual
      <4>9. d.entry \in TickType /\ d.overflows \in 0 .. OverflowMod - 1
        BY <4>2, TasksAssumption DEF Clock, TickType
      <4>10. QED BY <4>2, <4>8, <4>9 DEF Timely
    <3>4. QED BY <3>1, <3>2, <3>3
  <2>5. QED BY <1>1, <2>3, <2>4 DEF Honest
<1>4. QED BY <1>2, <1>3

\* What a call leaves of its task when it looks at the queue.
LEMMA TryMoves ==
  ASSUME SchedInv, CallInv, app' = app, last' = last, ticks' = ticks, held' = held, NEW t \in Task, t = k.cur,
         pc[t][1] \in {"run", "again"},
         NEW c, DOMAIN c = CallFields, Timely(k, c), c.set # 1 => c.waited = 0 /\ c.ticks = c.asked, Try(t, c)
  PROVE  Flows(k, k', 0) /\ Honest(t)' /\ \A u \in Task \ {t} : pc'[u] = pc[u] /\ w'[u] = w[u]
<1>1. SameClock(k, k') /\ (NotReady(c) => k' = k)
  BY TryDoes
<1>2. Flows(k, k', 0)
  BY <1>1, KernelTime, ClockFlows
<1>3. CASE NotReady(c)
  <2>1. Honest(t)'
    BY <1>1, <1>3, ClockRuns, TryHonest
  <2>2. PICK p, d : pc' = [pc EXCEPT ![t] = p] /\ w' = [w EXCEPT ![t] = d]
    BY <1>3 DEF Try, Goto
  <2>3. QED BY <1>2, <2>1, <2>2 DEF CallInv
<1>4. CASE ~NotReady(c)
  <2>1. pc' = [pc EXCEPT ![t] = <<"run", 0>>] /\ w' = [w EXCEPT ![t] = NoCall]
    BY <1>4 DEF Try, Goto
  <2>2. pc'[t][1] = "run" /\ "run" \notin Calling /\ \A u \in Task \ {t} : pc'[u] = pc[u] /\ w'[u] = w[u]
    BY <2>1 DEF CallInv, Calling
  <2>3. QED BY <1>2, <2>2 DEF Honest
<1>5. QED BY <1>3, <1>4

\* The two ways into the first critical section.
LEMMA LooksMove ==
  ASSUME SchedInv, StorageInv, HonestInv, app' = app, NEW t \in Users,
         TryAgain(t) \/ \E c \in QueueCalls(t) : QueueCall(t, c)
  PROVE  Flows(k, k', 0) /\ Honest(t)' /\ \A u \in Task \ {t} : pc'[u] = pc[u] /\ w'[u] = w[u]
<1>1. t \in Task /\ CallInv /\ app \in Apps
  BY DEF Users, StorageInv
<1>2. CASE TryAgain(t)
  <2>1. t = k.cur /\ pc[t][1] = "again" /\ last' = last /\ ticks' = ticks /\ held' = held /\ pc[t][1] \in Calling
    BY <1>2 DEF TryAgain, At, Calling
  <2>2. PICK c : c = w[t] OBVIOUS
  <2>3. DOMAIN c = CallFields /\ Timely(k, c) /\ c.set = 1
    BY <1>1, <2>1, <2>2 DEF CallInv, HonestInv, Honest
  <2>4. Try(t, c)
    BY <1>2, <2>2 DEF TryAgain
  <2>5. QED BY <1>1, <2>1, <2>3, <2>4, TryMoves
<1>3. ASSUME NEW c \in QueueCalls(t), QueueCall(t, c)
      PROVE  Flows(k, k', 0) /\ Honest(t)' /\ \A u \in Task \ {t} : pc'[u] = pc[u] /\ w'[u] = w[u]
  <2>1. t = k.cur /\ pc[t][1] = "run" /\ last' = last /\ ticks' = ticks /\ held' = held
    BY <1>3 DEF QueueCall, At
  <2>2. PICK d : d = [call |-> c.call, item |-> c.item, ticks |-> c.ticks, set |-> 0, entry |-> 0,
                      overflows |-> 0, asked |-> c.ticks, waited |-> 0, out |-> "retry"]
    OBVIOUS
  <2>3. c.ticks \in TickType
    <3>1. app.delays[t] \subseteq TickType
      BY <1>1, KernelAssumption
    <3>2. c.ticks \in app.delays[t]
      BY DEF QueueCalls
    <3>3. QED BY <3>1, <3>2
  <2>4. DOMAIN d = CallFields /\ d.set = 0 /\ d.asked = c.ticks /\ d.ticks = c.ticks /\ d.waited = 0 /\ d.out = "retry"
    BY <2>2 DEF CallFields
  <2>5. Timely(k, d)
    BY <2>3, <2>4, TasksAssumption DEF Timely, TickType, portMAX_DELAY
  <2>6. Try(t, d)
    BY <1>3, <2>2 DEF QueueCall
  <2>7. QED BY <1>1, <2>1, <2>4, <2>5, <2>6, TryMoves
<1>4. QED BY <1>2, <1>3

\* The steps of a call that change its variables at most.
LEMMA WaitsMove ==
  ASSUME SchedInv, StorageInv, WaitInv, HonestInv, app' = app, NEW t \in Users,
         Fails(t) \/ LockAndCheck(t) \/ LookOnceMore(t) \/ Place(t)
  PROVE  Flows(k, k', 0) /\ Honest(t)' /\ \A u \in Task \ {t} : pc'[u] = pc[u] /\ w'[u] = w[u]
<1>1. t \in Task /\ CallInv /\ DOMAIN w = Task /\ DOMAIN pc = Task
  BY DEF Users, StorageInv, CallInv
<1>2. k' = k => Flows(k, k', 0)
  BY KernelTime, ClockFlows
<1>3. PICK c : c = w[t] OBVIOUS
<1>4. pc[t][1] \in Calling => DOMAIN c = CallFields /\ Timely(k, c) /\ (pc[t][1] # "failed" => c.set = 1)
  BY <1>1, <1>3 DEF CallInv, HonestInv, Honest
<1>5. CASE Fails(t)
  <2>1. k' = k /\ pc' = [pc EXCEPT ![t] = <<"run", 0>>] /\ w' = [w EXCEPT ![t] = NoCall]
    BY <1>5 DEF Fails, Goto
  <2>2. pc'[t][1] = "run" /\ "run" \notin Calling /\ \A u \in Task \ {t} : pc'[u] = pc[u] /\ w'[u] = w[u]
    BY <1>1, <2>1 DEF Calling
  <2>3. QED BY <1>2, <2>1, <2>2 DEF Honest
<1>6. CASE LookOnceMore(t)
  <2>1. k' = k /\ w' = w /\ pc[t][1] = "look" /\ "look" \in Calling
    BY <1>6 DEF LookOnceMore, At, Calling
  <2>2. PICK p \in {"failed", "again"} : Goto(t, p, 0)
    BY <1>6 DEF LookOnceMore
  <2>3. \A u \in Task \ {t} : pc'[u] = pc[u] /\ w'[u] = w[u]
    BY <1>1, <2>1, <2>2 DEF Goto
  <2>4. c.ticks = 0 /\ Timely(k, c) /\ c.set = 1
    BY <1>1, <1>3, <1>4, <2>1 DEF HonestInv, Honest
  <2>5. w'[t] = c
    BY <1>3, <2>1
  <2>6. Honest(t)'
    BY <2>1, <2>4, <2>5 DEF Honest
  <2>7. QED BY <1>2, <2>1, <2>3, <2>6
<1>7. CASE LockAndCheck(t)
  <2>1. k' = k /\ pc[t][1] = "lock" /\ "lock" \in Calling
    BY <1>7 DEF LockAndCheck, At, Calling
  <2>2. PICK r : r = xTaskCheckForTimeOut(k, c) OBVIOUS
  <2>3. c.set = 1 /\ DOMAIN c = CallFields /\ Timely(k, c)
    BY <1>4, <2>1
  <2>4. DOMAIN r.w = CallFields /\ Timely(k, r.w) /\ r.w.set = 1 /\ (r.timedOut => r.w.ticks = 0)
    BY <2>2, <2>3, ClockRuns, CheckHonest
  <2>5. PICK v : v = r.w OBVIOUS
  <2>6. PICK d : d = [v EXCEPT !.out = "timeout"] OBVIOUS
  <2>7. r.timedOut => Timely(k, d)
    <3>1. SUFFICES ASSUME r.timedOut PROVE Timely(k, d)
      OBVIOUS
    <3>2. /\ d.set = v.set /\ d.asked = v.asked /\ d.ticks = v.ticks /\ d.waited = v.waited
          /\ d.entry = v.entry /\ d.overflows = v.overflows
      BY <2>4, <2>5, <2>6 DEF CallFields
    <3>3. v.ticks = 0 /\ Timely(k, v)
      BY <2>4, <2>5, <3>1
    <3>4. QED BY <3>2, <3>3 DEF Timely, Punctual, Elapsed
  <2>8. d.set = 1
    BY <2>4, <2>5, <2>6 DEF CallFields
  <2>9. PICK p, z : p \in {"unlock_tx", "place"} /\
          Goto(t, p, 0) /\ w' = [w EXCEPT ![t] = z] /\ (z = v \/ (z = d /\ r.timedOut))
    BY <1>3, <1>7, <2>2, <2>5, <2>6 DEF LockAndCheck
  <2>10. /\ pc'[t][1] \notin {"failed", "look"} /\ w'[t] = z
         /\ \A u \in Task \ {t} : pc'[u] = pc[u] /\ w'[u] = w[u]
    BY <1>1, <2>9 DEF Goto
  <2>11. Timely(k, z) /\ z.set = 1
    BY <2>4, <2>5, <2>7, <2>8, <2>9
  <2>12. Honest(t)'
    BY <2>1, <2>10, <2>11 DEF Honest
  <2>13. QED BY <1>2, <2>1, <2>10, <2>12
<1>8. CASE Place(t)
  <2>1. pc[t][1] = "place" /\ "place" \in Calling /\ Goto(t, "unlock_tx", 0)
    BY <1>8 DEF Place, At, Calling
  <2>2. PICK o \in {"wait", "retry"} : w' = [w EXCEPT ![t].out = o] /\ (NotReady(w[t]) \/ k' = k)
    BY <1>8 DEF Place
  <2>3. SameClock(k, k') \/ k' = k
    <3>1. CASE NotReady(w[t])
      BY <1>1, <1>8, <3>1, PlacesDoes DEF WaitInv
    <3>2. QED BY <2>2, <3>1
  <2>4. Flows(k, k', 0)
    BY <2>3, KernelTime, ClockFlows
  <2>5. PICK z : z = [c EXCEPT !.out = o] OBVIOUS
  <2>6. /\ pc'[t][1] = "unlock_tx" /\ w'[t] = z
        /\ \A u \in Task \ {t} : pc'[u] = pc[u] /\ w'[u] = w[u]
    BY <1>1, <1>3, <2>1, <2>2, <2>5 DEF Goto
  <2>7. /\ DOMAIN z = CallFields /\ z.set = c.set /\ z.asked = c.asked /\ z.ticks = c.ticks
        /\ z.waited = c.waited /\ z.entry = c.entry /\ z.overflows = c.overflows /\ z.out = o
    BY <1>4, <2>1, <2>5 DEF CallFields
  <2>8. k'.tick = k.tick /\ k'.overflows = k.overflows /\ k'.pended = k.pended
    BY <2>3 DEF SameClock
  <2>9. Timely(k', z) /\ z.set = 1
    BY <1>4, <2>1, <2>7, <2>8 DEF Timely, Punctual, Elapsed
  <2>10. Honest(t)'
    BY <2>6, <2>9 DEF Honest
  <2>11. QED BY <2>4, <2>6, <2>10
<1>9. QED BY <1>5, <1>6, <1>7, <1>8

\* The steps of a call that leave its variables alone.
LEMMA EndsMove ==
  ASSUME SchedInv, StorageInv, WaitInv, LockInv, HonestInv, app' = app, NEW t \in Users, Clock(k'),
         QueueSuspendsAll(t) \/ UnlockTx(t) \/ UnlockRx(t) \/ QueueResumesAll(t) \/ GiveWay(t)
  PROVE  Flows(k, k', 0) /\ Honest(t)' /\ \A u \in Task \ {t} : pc'[u] = pc[u] /\ w'[u] = w[u]
<1>1. t \in Task /\ CallInv /\ Waits(t) /\ Clock(k) /\ q.tx \in Int /\ q.rx \in Int
  BY ClockRuns DEF Users, StorageInv, WaitInv, LockInv
<1>2. /\ w' = w /\ pc[t][1] \in {"suspend_all", "unlock_tx", "unlock_rx", "resume_all", "give_way"}
      /\ pc[t][1] \in Calling /\ pc[t][1] # "failed"
  BY DEF QueueSuspendsAll, UnlockTx, UnlockRx, QueueResumesAll, GiveWay, At, Calling
<1>3. Flows(k, k', 0)
  <2>1. SameClock(k, k') \/ Passes(k, k', 0)
    BY <1>1, QueueSuspendsDoes, UnlockDoes, QueueResumesDoes, GiveWayDoes
  <2>2. QED BY <2>1, KernelTime, ClockFlows
<1>4. Timely(k, w[t]) /\ w[t].set = 1
  BY <1>1, <1>2 DEF HonestInv, Honest
<1>5. w[t].out \in {"wait", "retry", "timeout"} /\ (w[t].out = "timeout" => w[t].ticks = 0)
  BY <1>1, <1>2, <1>4 DEF Waits, Timely
<1>6. PICK p : Goto(t, p, 0) /\ (p \in {"failed", "look"} => w[t].ticks = 0)
  <2>1. CASE QueueResumesAll(t)
    <3>1. PICK p \in {"again", "give_way", "failed", "look"} :
            Goto(t, p, 0) /\ (p \in {"failed", "look"} => w[t].out = "timeout")
      BY <1>5, <2>1 DEF QueueResumesAll
    <3>2. QED BY <1>5, <3>1
  <2>2. CASE QueueSuspendsAll(t) \/ UnlockTx(t) \/ UnlockRx(t) \/ GiveWay(t)
    <3>1. \E p \in {"lock", "unlock_rx", "resume_all", "again"} : Goto(t, p, 0)
      BY <2>2 DEF QueueSuspendsAll, UnlockTx, UnlockRx, GiveWay
    <3>2. QED BY <3>1
  <2>3. QED BY <2>1, <2>2
<1>7. pc'[t][1] = p /\ w'[t] = w[t] /\ \A u \in Task \ {t} : pc'[u] = pc[u] /\ w'[u] = w[u]
  BY <1>1, <1>2, <1>6, CallGoesOn
<1>8. Honest(t)'
  BY <1>1, <1>2, <1>3, <1>4, <1>6, <1>7, SameCallHonest
<1>9. QED BY <1>3, <1>7, <1>8

\* A step of one task leaves the calls of the others as they were.
LEMMA OthersHonest ==
  ASSUME Clock(k), Clock(k'), CallInv, HonestInv, Flows(k, k', 0), NEW t \in Task, Honest(t)',
         \A u \in Task \ {t} : pc'[u] = pc[u] /\ w'[u] = w[u]
  PROVE  HonestInv'
<1>1. ASSUME NEW u \in Task \ {t} PROVE Honest(u)'
  <2>1. pc'[u] = pc[u] /\ w'[u] = w[u]
    OBVIOUS
  <2>2. QED BY <2>1, RestingHonest
<1>2. QED BY <1>1 DEF HonestInv

\* Nobody moves on in a call.
LEMMA AllHonest ==
  ASSUME Clock(k), Clock(k'), CallInv, HonestInv, Flows(k, k', 0), pc' = pc, w' = w
  PROVE  HonestInv'
<1>1. ASSUME NEW u \in Task PROVE Honest(u)'
  <2>1. pc'[u] = pc[u] /\ w'[u] = w[u]
    OBVIOUS
  <2>2. QED BY <2>1, RestingHonest
<1>2. QED BY <1>1 DEF HonestInv

\* The tick interrupt, which every waiting call counts.
LEMMA TickHonest ==
  ASSUME SchedInv, CallInv, HonestInv, Clock(k'), app' = app, QueueTick
  PROVE  HonestInv'
<1>1. TickInterrupt /\ pc' = pc
  BY DEF QueueTick, TickInterrupt
<1>2. Clock(k) /\ Flows(k, k', 1)
  BY <1>1, StepTick, ClockRuns, KernelTime, ClockFlows
<1>3. ASSUME NEW u \in Task PROVE Honest(u)'
  <2>1. w'[u] = IF w[u] # NoCall /\ w[u].set = 1 /\ w[u].asked # portMAX_DELAY /\ w[u].waited < w[u].asked
                THEN [w[u] EXCEPT !.waited = @ + 1] ELSE w[u]
    BY DEF QueueTick
  <2>2. PICK d \in {0, 1} : d = 1
    OBVIOUS
  <2>3. w'[u] = IF d = 1 /\ w[u] # NoCall /\ w[u].set = 1 /\ w[u].asked # portMAX_DELAY
                   /\ w[u].waited < w[u].asked
                THEN [w[u] EXCEPT !.waited = @ + 1] ELSE w[u]
    BY <2>1, <2>2
  <2>4. pc'[u] = pc[u] /\ Flows(k, k', d)
    BY <1>1, <1>2, <2>2
  <2>5. QED BY <1>2, <2>3, <2>4, RestingHonest
<1>4. QED BY <1>3 DEF HonestInv

\* The interrupt handler of the queue leaves the clock and the calls alone.
LEMMA IsrHonest ==
  ASSUME SchedInv, StorageInv, HonestInv, Clock(k'), app' = app, QueueInterrupt, ~QueueTick
  PROVE  HonestInv'
<1>1. CallInv
  BY DEF StorageInv
<1>2. SameClock(k, k') /\ pc' = pc /\ w' = w
  <2>1. CASE xQueueReceiveFromISR
    <3>1. PICK y : y = [prvCopyDataFromQueue EXCEPT !.n = @ - 1] OBVIOUS
    <3>2. /\ SchedInv' /\ SameClock(k, k') /\ k'.prio = k.prio /\ pc' = pc /\ w' = w
          /\ q.rx = queueUNLOCKED => q' = y /\ WakesOne(k, k', Tx)
          /\ q.rx # queueUNLOCKED => k' = k /\ q' = [y EXCEPT !.rx = IncrementLock(@)]
      BY <2>1, <3>1, IsrTakesDoes
    <3>3. QED BY <3>2
  <2>2. ASSUME NEW filled, IsrFills(filled) PROVE SameClock(k, k') /\ pc' = pc /\ w' = w
    <3>1. /\ SchedInv' /\ SameClock(k, k') /\ k'.prio = k.prio /\ pc' = pc /\ w' = w
          /\ q.tx = queueUNLOCKED => q' = filled /\ WakesOne(k, k', Rx)
          /\ q.tx # queueUNLOCKED => k' = k /\ q' = [filled EXCEPT !.tx = IncrementLock(@)]
      BY <2>2, IsrFillsDoes
    <3>2. QED BY <3>1
  <2>3. CASE xQueueGiveFromISR
    BY <2>2, <2>3 DEF xQueueGiveFromISR
  <2>4. ASSUME NEW i, NEW p, xQueueGenericSendFromISR(i, p) PROVE SameClock(k, k') /\ pc' = pc /\ w' = w
    BY <2>2, <2>4 DEF xQueueGenericSendFromISR
  <2>5. QED BY <2>1, <2>3, <2>4 DEF QueueInterrupt
<1>3. Clock(k) /\ Flows(k, k', 0)
  BY <1>2, ClockRuns, KernelTime, ClockFlows
<1>4. QED BY <1>1, <1>2, <1>3, AllHonest

\* Every step keeps the calls timely, unless a task lets the clock jump.
LEMMA QueueNextHonest ==
  ASSUME NoCatchUp, SchedInv, StorageInv, WaitInv, LockInv, HonestInv, [QueueNext]_qvars
  PROVE  HonestInv'
<1>1. CallInv /\ Clock(k) /\ app \in Apps
  BY ClockRuns DEF StorageInv
<1>2. SchedInv'
  BY QueueNextKeeps
<1>3. Clock(k')
  <2>1. Data(k')
    BY <1>2 DEF SchedInv
  <2>2. QED BY <2>1, DataRuns
<1>4. CASE UNCHANGED qvars
  <2>1. pc' = pc /\ w' = w /\ k' = k
    BY <1>4 DEF qvars, vars
  <2>2. Flows(k, k', 0)
    BY <2>1, KernelTime, ClockFlows
  <2>3. QED BY <1>1, <1>3, <2>1, <2>2, AllHonest
<1>5. CASE QueueNext
  <2>1. app' = app
    BY <1>5 DEF QueueNext
  <2>2. CASE QueueInterrupt
    BY <1>1, <1>3, <2>1, <2>2, TickHonest, IsrHonest
  <2>3. CASE \E t \in Users : QueueStep(t)
    <3>1. PICK t \in Users : QueueStep(t) BY <2>3
    <3>2. t \in Task
      BY DEF Users
    <3>3. CASE xQueueGenericReset(t)
      <4>1. pc' = pc /\ w' = w /\ SameClock(k, k')
        BY <2>1, <3>2, <3>3, ClearDoes DEF xQueueGenericReset
      <4>2. Flows(k, k', 0)
        BY <4>1, KernelTime, ClockFlows
      <4>3. QED BY <1>1, <1>3, <4>1, <4>2, AllHonest
    <3>4. CASE ~xQueueGenericReset(t)
      <4>1. Flows(k, k', 0) /\ Honest(t)' /\ \A u \in Task \ {t} : pc'[u] = pc[u] /\ w'[u] = w[u]
        <5>1. CASE TryAgain(t) \/ \E c \in QueueCalls(t) : QueueCall(t, c)
          BY <2>1, <5>1, LooksMove
        <5>2. CASE Fails(t) \/ LockAndCheck(t) \/ LookOnceMore(t) \/ Place(t)
          BY <2>1, <5>2, WaitsMove
        <5>3. CASE QueueSuspendsAll(t) \/ UnlockTx(t) \/ UnlockRx(t) \/ QueueResumesAll(t) \/ GiveWay(t)
          BY <1>3, <2>1, <5>3, EndsMove
        <5>4. QED BY <3>1, <3>4, <5>1, <5>2, <5>3 DEF QueueStep
      <4>2. QED BY <1>1, <1>3, <3>2, <4>1, OthersHonest
    <3>5. QED BY <3>3, <3>4
  <2>4. CASE (\E t \in Users : Call(t)) /\ UNCHANGED <<q, w>>
    <3>1. PICK t \in Users : Call(t) BY <2>4
    <3>2. t \in Task /\ q' = q /\ w' = w
      BY <2>4 DEF Users
    <3>3. Elsewhere(t)
      BY <1>1, <2>1, <3>1, <3>2, CallsKeepWaits
    <3>4. "xTaskCatchUpTicks" \notin app.calls[t]
      BY <1>1 DEF NoCatchUp
    <3>5. Passes(k, k', 0)
      BY <2>1, <3>1, <3>4, CallKeeps
    <3>6. Flows(k, k', 0)
      BY <3>5, KernelTime, ClockFlows
    <3>7. Honest(t)' /\ \A u \in Task \ {t} : pc'[u] = pc[u] /\ w'[u] = w[u]
      BY <3>2, <3>3 DEF Elsewhere, Honest
    <3>8. QED BY <1>1, <1>3, <3>2, <3>6, <3>7, OthersHonest
  <2>5. CASE prvIdleTask /\ UNCHANGED <<q, w>>
    <3>1. pc' = pc /\ w' = w /\ Idle \in Task
      BY <2>5, TasksAssumption DEF prvIdleTask
    <3>2. Passes(k, k', 0)
      BY <2>1, <2>5, <3>1, StepYield
    <3>3. Flows(k, k', 0)
      BY <3>2, KernelTime, ClockFlows
    <3>4. QED BY <1>1, <1>3, <3>1, <3>3, AllHonest
  <2>6. QED BY <1>5, <2>2, <2>3, <2>4, <2>5 DEF QueueNext
<1>6. QED BY <1>4, <1>5

\* A new queue has nobody in a call.
LEMMA QueueInitHonest ==
  ASSUME QueueInit, CallInv
  PROVE  HonestInv
<1>1. \A t \in Task : pc[t] = <<"run", 0>>
  BY DEF QueueInit, Init
<1>2. "run" \notin Calling
  BY DEF Calling
<1>3. QED BY <1>1, <1>2 DEF HonestInv, Honest

\* A blocking call gives up only after all the ticks it was given, however often
\* it was woken in vain, at whatever time the tick count wraps, and however long
\* the scheduler is suspended: for every width of the tick count.
THEOREM NobodyGivesUpEarly ==
  ASSUME NoCatchUp
  PROVE  QueueSpec => []TimeoutIsHonest
<1>1. QueueInit /\ StorageInv => SchedInv /\ WaitInv /\ LockInv /\ HonestInv
  BY QueueInitRests, QueueInitHonest DEF StorageInv
<1>2. StorageInv /\ SchedInv /\ WaitInv /\ LockInv /\ HonestInv /\ [QueueNext]_qvars
        => SchedInv' /\ WaitInv' /\ LockInv' /\ HonestInv'
  BY QueueNextKeeps, QueueNextHonest
<1>3. HonestInv => TimeoutIsHonest
  <2>1. SUFFICES ASSUME HonestInv, NEW t \in Users, pc[t][1] = "failed"
                 PROVE  w[t].waited >= w[t].asked /\ w[t].asked # portMAX_DELAY
    BY DEF TimeoutIsHonest
  <2>2. Timely(k, w[t]) /\ w[t].ticks = 0
    BY <2>1 DEF HonestInv, Honest, Calling, Users
  <2>3. w[t].waited = w[t].asked /\ w[t].asked # portMAX_DELAY /\ w[t].asked \in Int
    BY <2>2 DEF Timely, TickType
  <2>4. QED BY <2>3
<1>4. QED BY <1>1, <1>2, <1>3, StorageSound, PTL DEF QueueSpec
=============================================================================
