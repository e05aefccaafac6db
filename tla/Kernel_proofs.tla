---------------------------- MODULE Kernel_proofs ----------------------------
(* Proofs about the scheduler, for any number of tasks and priorities, any     *)
(* width of the tick count and any application.                                *)
EXTENDS Kernel, SequenceTheorems, FiniteSetTheorems, NaturalsInduction, WellFoundedInduction, TLAPS

-----------------------------------------------------------------------------
(* Loops *)

\* A set of numbers that is not empty has a least one.
LEMMA Least ==
  ASSUME NEW S, S \subseteq Nat, S # {}
  PROVE  \E b \in S : \A c \in S : b <= c
<1>1. IsWellFoundedOn(OpToRel(<, Nat), Nat)
  BY NatLessThanWellFounded
<1>2. PICK b \in S : \A c \in S : ~(<<c, b>> \in OpToRel(<, Nat))
  BY <1>1, WFMin
<1>3. \A c \in S : ~(c < b)
  BY <1>2 DEF OpToRel
<1>4. QED BY <1>3

\* What holds before a loop and is kept by each of its turns holds after it.
LEMMA UpTo ==
  ASSUME NEW n \in Nat, NEW S, 0 \in S, \A i \in 0 .. n - 1 : i \in S => i + 1 \in S
  PROVE  0 .. n \subseteq S
<1> DEFINE B == {i \in Nat : i <= n /\ i \notin S}
<1>1. SUFFICES ASSUME B # {} PROVE FALSE
  OBVIOUS
<1>2. PICK b \in B : \A c \in B : ~(c < b)
  <2>1. B \subseteq Nat
    OBVIOUS
  <2>2. \E b \in B : \A c \in B : b <= c
    BY <1>1, <2>1, Least
  <2>3. QED BY <2>1, <2>2
<1>3. b # 0 /\ b - 1 \in 0 .. n - 1
  BY <1>2
<1>4. b - 1 \notin B
  BY <1>2, <1>3
<1>5. QED
  BY <1>2, <1>3, <1>4

-----------------------------------------------------------------------------
(* Sequences with one member more or less *)

(* u is s with e put in at place p. *)
PutIn(s, u, p, e) ==
  /\ u \in Seq(Task) /\ Len(u) = Len(s) + 1 /\ p \in 1 .. Len(s) + 1 /\ u[p] = e
  /\ \A j \in 1 .. Len(s) : u[IF j < p THEN j ELSE j + 1] = s[j]

(* u is s without the member at place p. *)
TakenOut(s, u, p) ==
  /\ u \in Seq(Task) /\ Len(u) = Len(s) - 1
  /\ \A j \in 1 .. Len(u) : u[j] = s[IF j < p THEN j ELSE j + 1]

\* SubSeq, as InsertAt and RemoveAt use it.
LEMMA SubSeqParts ==
  ASSUME NEW s \in Seq(Task), NEW a \in 1 .. Len(s) + 1, NEW b \in a - 1 .. Len(s)
  PROVE  /\ SubSeq(s, a, b) \in Seq(Task) /\ Len(SubSeq(s, a, b)) = b - a + 1
         /\ \A j \in 1 .. b - a + 1 : SubSeq(s, a, b)[j] = s[a + j - 1]
<1>1. a \in Int /\ b \in Int /\ a - 1 <= b /\ \A i \in a .. b : s[i] \in Task
  OBVIOUS
<1>2. /\ SubSeq(s, a, b) \in Seq(Task)
      /\ Len(SubSeq(s, a, b)) = IF a <= b THEN b - a + 1 ELSE 0
      /\ \A j \in 1 .. b - a + 1 : SubSeq(s, a, b)[j] = s[a + j - 1]
  BY <1>1, SubSeqProperties
<1>3. (IF a <= b THEN b - a + 1 ELSE 0) = b - a + 1
  BY <1>1
<1>4. QED
  BY <1>2, <1>3

\* InsertAt, as vListInsert and vListInsertEnd use it.
LEMMA InsertAtPuts ==
  ASSUME NEW s \in Seq(Task), NEW e \in Task, NEW p \in 1 .. Len(s) + 1
  PROVE  PutIn(s, InsertAt(s, p, e), p, e)
<1>1. PICK n \in Nat : n = Len(s) OBVIOUS
<1>2. PICK a : a = SubSeq(s, 1, p - 1) OBVIOUS
<1>3. PICK c : c = SubSeq(s, p, n) OBVIOUS
<1>4. PICK o : o = <<e>> OBVIOUS
<1>5. a \in Seq(Task) /\ Len(a) = p - 1 /\ \A j \in 1 .. p - 1 : a[j] = s[j]
  <2>1. 1 \in 1 .. Len(s) + 1 /\ p - 1 \in 1 - 1 .. Len(s) /\ p - 1 - 1 + 1 = p - 1
    BY <1>1
  <2>2. a \in Seq(Task) /\ Len(a) = p - 1 - 1 + 1 /\ \A j \in 1 .. p - 1 - 1 + 1 : a[j] = s[1 + j - 1]
    BY <1>2, <2>1, SubSeqParts
  <2>3. QED BY <1>1, <2>1, <2>2
<1>6. c \in Seq(Task) /\ Len(c) = n - p + 1 /\ \A j \in 1 .. n - p + 1 : c[j] = s[p + j - 1]
  BY <1>1, <1>3, SubSeqParts
<1>7. o \in Seq(Task) /\ Len(o) = 1 /\ o[1] = e
  BY <1>4
<1>8. PICK d : d = a \o o OBVIOUS
<1>9. d \in Seq(Task) /\ Len(d) = p /\ d[p] = e /\ \A j \in 1 .. p - 1 : d[j] = s[j]
  <2>1. d \in Seq(Task) /\ Len(d) = Len(a) + Len(o)
        /\ \A j \in 1 .. Len(a) + Len(o) : d[j] = IF j <= Len(a) THEN a[j] ELSE o[j - Len(a)]
    BY <1>5, <1>7, <1>8, ConcatProperties
  <2>2. Len(d) = p /\ p \in 1 .. Len(a) + Len(o) /\ ~(p <= Len(a)) /\ p - Len(a) = 1
    BY <1>1, <1>5, <1>7, <2>1
  <2>3. QED BY <1>5, <1>7, <2>1, <2>2
<1>10. PICK u : u = d \o c OBVIOUS
<1>17. u \in Seq(Task) /\ Len(u) = Len(d) + Len(c)
       /\ \A j \in 1 .. Len(d) + Len(c) : u[j] = IF j <= Len(d) THEN d[j] ELSE c[j - Len(d)]
  BY <1>6, <1>9, <1>10, ConcatProperties
<1>18. Len(d) + Len(c) = n + 1
  BY <1>1, <1>6, <1>9
<1>11. u \in Seq(Task) /\ Len(u) = n + 1
  BY <1>17, <1>18
<1>12. \A j \in 1 .. n + 1 : u[j] = IF j <= p THEN d[j] ELSE c[j - p]
  BY <1>9, <1>17, <1>18
<1>13. ASSUME NEW j \in 1 .. n PROVE u[IF j < p THEN j ELSE j + 1] = s[j]
  <2>1. CASE j < p
    BY <1>1, <1>9, <1>12, <2>1
  <2>2. CASE ~(j < p)
    <3>1. u[j + 1] = c[j + 1 - p] /\ j + 1 - p \in 1 .. n - p + 1
      BY <1>1, <1>12, <2>2
    <3>2. c[j + 1 - p] = s[p + (j + 1 - p) - 1]
      BY <1>6, <3>1
    <3>3. p + (j + 1 - p) - 1 = j
      BY <1>1
    <3>4. QED BY <2>2, <3>1, <3>2, <3>3
  <2>3. QED BY <2>1, <2>2
<1>14. u[p] = e
  BY <1>1, <1>9, <1>12
<1>15. InsertAt(s, p, e) = u
  BY <1>1, <1>2, <1>3, <1>4, <1>8, <1>10 DEF InsertAt
<1>16. QED
  BY <1>1, <1>11, <1>13, <1>14, <1>15 DEF PutIn

\* Append, when pxIndex is the end marker.
LEMMA AppendPuts ==
  ASSUME NEW s \in Seq(Task), NEW e \in Task
  PROVE  PutIn(s, Append(s, e), Len(s) + 1, e)
<1>1. PICK n \in Nat : n = Len(s) OBVIOUS
<1>2. PICK u : u = Append(s, e) OBVIOUS
<1>3. u \in Seq(Task) /\ Len(u) = n + 1 /\ u[n + 1] = e /\ \A j \in 1 .. n : u[j] = s[j]
  BY <1>1, <1>2
<1>4. QED
  BY <1>1, <1>2, <1>3 DEF PutIn

\* RemoveAt, as uxListRemove uses it.
LEMMA RemoveAtTakes ==
  ASSUME NEW s \in Seq(Task), NEW p \in 1 .. Len(s)
  PROVE  TakenOut(s, RemoveAt(s, p), p)
<1>1. PICK n \in Nat : n = Len(s) OBVIOUS
<1>2. PICK a : a = SubSeq(s, 1, p - 1) OBVIOUS
<1>3. PICK c : c = SubSeq(s, p + 1, n) OBVIOUS
<1>4. a \in Seq(Task) /\ Len(a) = p - 1 /\ \A j \in 1 .. p - 1 : a[j] = s[j]
  <2>1. 1 \in 1 .. Len(s) + 1 /\ p - 1 \in 1 - 1 .. Len(s) /\ p - 1 - 1 + 1 = p - 1
    BY <1>1
  <2>2. a \in Seq(Task) /\ Len(a) = p - 1 - 1 + 1 /\ \A j \in 1 .. p - 1 - 1 + 1 : a[j] = s[1 + j - 1]
    BY <1>2, <2>1, SubSeqParts
  <2>3. QED BY <1>1, <2>1, <2>2
<1>5. c \in Seq(Task) /\ Len(c) = n - p /\ \A j \in 1 .. n - p : c[j] = s[p + j]
  <2>1. p + 1 \in 1 .. Len(s) + 1 /\ n \in (p + 1) - 1 .. Len(s) /\ n - (p + 1) + 1 = n - p
    BY <1>1
  <2>2. c \in Seq(Task) /\ Len(c) = n - (p + 1) + 1
        /\ \A j \in 1 .. n - (p + 1) + 1 : c[j] = s[(p + 1) + j - 1]
    BY <1>3, <2>1, SubSeqParts
  <2>3. QED BY <1>1, <2>1, <2>2
<1>6. PICK u : u = a \o c OBVIOUS
<1>17. u \in Seq(Task) /\ Len(u) = Len(a) + Len(c)
       /\ \A j \in 1 .. Len(a) + Len(c) : u[j] = IF j <= Len(a) THEN a[j] ELSE c[j - Len(a)]
  BY <1>4, <1>5, <1>6, ConcatProperties
<1>18. Len(a) + Len(c) = n - 1
  BY <1>1, <1>4, <1>5
<1>7. u \in Seq(Task) /\ Len(u) = n - 1
  BY <1>17, <1>18
<1>8. \A j \in 1 .. n - 1 : u[j] = IF j <= p - 1 THEN a[j] ELSE c[j - (p - 1)]
  BY <1>4, <1>17, <1>18
<1>9. ASSUME NEW j \in 1 .. n - 1 PROVE u[j] = s[IF j < p THEN j ELSE j + 1]
  <2>1. CASE j < p
    BY <1>1, <1>4, <1>8, <2>1
  <2>2. CASE ~(j < p)
    <3>1. u[j] = c[j - (p - 1)] /\ j - (p - 1) \in 1 .. n - p
      BY <1>1, <1>8, <2>2
    <3>2. c[j - (p - 1)] = s[p + (j - (p - 1))]
      BY <1>5, <3>1
    <3>3. p + (j - (p - 1)) = j + 1
      BY <1>1
    <3>4. QED BY <2>2, <3>1, <3>2, <3>3
  <2>3. QED BY <2>1, <2>2
<1>10. RemoveAt(s, p) = u
  BY <1>1, <1>2, <1>3, <1>6 DEF RemoveAt
<1>11. QED
  BY <1>1, <1>7, <1>9, <1>10 DEF TakenOut
-----------------------------------------------------------------------------
(* The lists *)

\* No two of the lists are the same, and a name tells which list it is.
LEMMA ListNames ==
  /\ \A p, q : Ready(p) = Ready(q) => p = q
  /\ \A p, i : Ready(p) # Delayed(i) /\ Ready(p) # Suspended /\ Ready(p) # None
  /\ \A i, j : Delayed(i) = Delayed(j) => i = j
  /\ \A i : Delayed(i) # Suspended /\ Delayed(i) # None
  /\ Suspended # None /\ Pending # None
  /\ None \notin Lists /\ Pending \notin StateLists
  /\ \A l \in EventLists : l \notin StateLists /\ l # Pending /\ l # None
  /\ StateLists \subseteq Lists /\ Pending \in Lists /\ EventLists \subseteq Lists
  /\ DelayedLists \subseteq StateLists /\ Suspended \in StateLists
  /\ \A p \in Priorities : Ready(p) \in StateLists /\ Ready(p) \notin DelayedLists
  /\ Suspended \notin DelayedLists
  /\ \A l \in Lists : l[1] = "delayed" <=> l \in DelayedLists
<1> USE DEF Ready, Delayed, Suspended, None, Pending
<1>1. \A l \in EventLists : l[1] \in {"rx", "tx"}
  BY TasksAssumption
<1>2. /\ \A p, q : Ready(p) = Ready(q) => p = q
      /\ \A p, i : Ready(p) # Delayed(i) /\ Ready(p) # Suspended /\ Ready(p) # None
      /\ \A i, j : Delayed(i) = Delayed(j) => i = j
      /\ \A i : Delayed(i) # Suspended /\ Delayed(i) # None
      /\ Suspended # None /\ Pending # None
  OBVIOUS
<1>3. \A l \in StateLists : l[1] \in {"ready", "delayed", "suspended"}
  BY DEF StateLists
<1>4. None[1] = "none" /\ Pending[1] = "pending"
  OBVIOUS
<1>5. \A l \in Lists : l \in StateLists \/ l \in EventLists \/ l = Pending
  BY DEF Lists
<1>6. None \notin Lists
  BY <1>1, <1>3, <1>4, <1>5
<1>7. Pending \notin StateLists
  BY <1>3, <1>4
<1>8. \A l \in EventLists : l \notin StateLists /\ l # Pending /\ l # None
  BY <1>1, <1>3, <1>4
<1>9. StateLists \subseteq Lists /\ Pending \in Lists /\ EventLists \subseteq Lists
  BY DEF Lists
<1>10. DelayedLists \subseteq StateLists /\ Suspended \in StateLists
  BY DEF StateLists, DelayedLists
<1>11. \A p \in Priorities : Ready(p) \in StateLists
  BY DEF StateLists
<1>12. \A p : Ready(p) \notin DelayedLists
  BY <1>2 DEF DelayedLists
<1>13. Suspended \notin DelayedLists
  BY DEF DelayedLists
<1>14. ASSUME NEW l \in Lists PROVE l[1] = "delayed" <=> l \in DelayedLists
  <2>1. l \in DelayedLists => l[1] = "delayed"
    BY DEF DelayedLists
  <2>2. l \in StateLists /\ l[1] = "delayed" => l \in DelayedLists
    BY DEF StateLists, DelayedLists
  <2>3. l \notin StateLists => l[1] # "delayed"
    BY <1>1, <1>4, <1>5
  <2>4. QED BY <2>1, <2>2, <2>3
<1>15. QED
  BY <1>2, <1>6, <1>7, <1>8, <1>9, <1>10, <1>11, <1>12, <1>13, <1>14

(* What the list functions need and keep. *)
Core(x) == Shape(x) /\ Agree(x) /\ Sorted(x)

(* The fields that no list function touches. *)
SameRest(x, y) ==
  /\ y.prio = x.prio /\ y.state = x.state /\ y.value = x.value /\ y.cur = x.cur
  /\ y.started = x.started /\ y.del = x.del /\ y.tick = x.tick /\ y.overflows = x.overflows
  /\ y.susp = x.susp /\ y.pended = x.pended /\ y.fault = x.fault
  /\ y.preempt = x.preempt /\ y.slicing = x.slicing
SameMarks(x, y) == y.unblock = x.unblock /\ y.top = x.top /\ y.yield = x.yield

(* y is x with the item of t that is in list l removed, *)
Removed(x, y, l, t) ==
  /\ SameRest(x, y) /\ SameMarks(x, y)
  /\ y.where = (IF l \in StateLists THEN [x.where EXCEPT ![t] = None] ELSE x.where)
  /\ y.evt = (IF l \in StateLists THEN x.evt ELSE [x.evt EXCEPT ![t] = None])
  /\ \A u \in Task : u # t \/ l \notin DelayedLists => y.wake[u] = x.wake[u] /\ y.left[u] = x.left[u]

(* or with an item of t, that was in no list, put into list l. *)
Inserted(x, y, l, t) ==
  /\ SameRest(x, y) /\ SameMarks(x, y) /\ y.wake = x.wake /\ y.left = x.left
  /\ y.where = (IF l \in StateLists THEN [x.where EXCEPT ![t] = l] ELSE x.where)
  /\ y.evt = (IF l \in StateLists THEN x.evt ELSE [x.evt EXCEPT ![t] = l])

\* SelectInSeq finds the one place of a task in its list.
LEMMA PlaceInList ==
  ASSUME NEW s \in Seq(Task), NEW p \in DOMAIN s,
         \A i, j \in DOMAIN s : s[i] = s[j] => i = j, NEW I, I = {i \in 1 .. Len(s) : s[i] = s[p]}
  PROVE  I # {} /\ Min(I) = p
<1>2. I = {p}
  OBVIOUS
<1>3. (CHOOSE x \in I : \A y \in I : x <= y) = p
  <2>1. p \in I /\ \A y \in I : p <= y
    BY <1>2
  <2>2. \A x \in I : x = p
    BY <1>2
  <2>3. QED BY <2>1, <2>2
<1>4. Min(I) = p
  BY <1>3 DEF Min
<1>5. QED
  BY <1>2, <1>4

\* uxListRemove takes the task out of that list and of no other, and leaves
\* pxIndex on a member or on the end marker.
LEMMA RemoveDoes ==
  ASSUME NEW x, Core(x), NEW t \in Task, NEW l \in Lists, Holds(x, l, t)
  PROVE  Core(uxListRemove(x, l, t)) /\ Removed(x, uxListRemove(x, l, t), l, t)
<1>1. PICK s \in Seq(Task) : s = x.list[l]
  BY DEF Core, Shape
<1>2. \A i, j \in DOMAIN s : s[i] = s[j] => i = j
  BY <1>1 DEF Core, Agree
<1>3. PICK p \in DOMAIN s : s[p] = t
  BY <1>1 DEF Core, Agree
<1>4. p \in 1 .. Len(s)
  OBVIOUS
<1>5. SelectInSeq(x.list[l], LAMBDA u : u = t) = p
  <2>1. PICK I : I = {i \in 1 .. Len(s) : s[i] = t} OBVIOUS
  <2>2. I # {} /\ Min(I) = p
    BY <1>2, <1>3, <2>1, PlaceInList
  <2>3. QED BY <1>1, <2>1, <2>2 DEF SelectInSeq
<1>6. PICK r : r = RemoveAt(s, p) OBVIOUS
<1>7. TakenOut(s, r, p)
  BY <1>4, <1>6, RemoveAtTakes
<1>8. PICK n \in Nat : n = Len(s) OBVIOUS
<1>9. /\ r \in Seq(Task) /\ Len(r) = n - 1 /\ DOMAIN r = 1 .. n - 1 /\ DOMAIN s = 1 .. n
      /\ \A j \in 1 .. n - 1 : r[j] = s[IF j < p THEN j ELSE j + 1]
  BY <1>7, <1>8 DEF TakenOut
<1>11. PICK ix : ix = IF x.index[l] >= p THEN x.index[l] - 1 ELSE x.index[l] OBVIOUS
<1>12. ix \in Nat /\ ix <= n - 1
  <2>1. x.index[l] \in Nat /\ x.index[l] <= n
    BY <1>1, <1>8 DEF Core, Shape, Agree
  <2>2. QED BY <1>4, <1>8, <1>11, <2>1
<1>13. PICK m : m = TakeAt(x, l, t, p) OBVIOUS
<1>14. /\ DOMAIN m = Fields
       /\ m.list = [x.list EXCEPT ![l] = r] /\ m.index = [x.index EXCEPT ![l] = ix]
       /\ m.wake = [x.wake EXCEPT ![t] = IF l \in DelayedLists THEN 0 ELSE @]
       /\ m.left = [x.left EXCEPT ![t] = IF l \in DelayedLists THEN 0 ELSE @]
       /\ m.where = x.where /\ m.evt = x.evt /\ SameRest(x, m) /\ SameMarks(x, m)
  <2>1. DOMAIN x = Fields
    BY DEF Core, Shape
  <2>2. (l[1] = "delayed") <=> l \in DelayedLists
    BY ListNames
  <2>3. DOMAIN m = Fields
    BY <1>13, <2>1 DEF TakeAt
  <2>4. m.list = [x.list EXCEPT ![l] = r] /\ m.index = [x.index EXCEPT ![l] = ix]
    BY <1>1, <1>6, <1>11, <1>13, <2>1 DEF TakeAt, Fields
  <2>5. m.wake = [x.wake EXCEPT ![t] = IF l \in DelayedLists THEN 0 ELSE @]
        /\ m.left = [x.left EXCEPT ![t] = IF l \in DelayedLists THEN 0 ELSE @]
    BY <1>13, <2>1, <2>2 DEF TakeAt, Fields
  <2>6. m.where = x.where /\ m.evt = x.evt /\ SameMarks(x, m)
    BY <1>13, <2>1 DEF TakeAt, Fields, SameMarks
  <2>7. SameRest(x, m)
    BY <1>13, <2>1 DEF TakeAt, Fields, SameRest
  <2>8. QED BY <2>3, <2>4, <2>5, <2>6, <2>7
<1>15. PICK y : y = uxListRemove(x, l, t) OBVIOUS
<1>16. y = IF l \in StateLists THEN [m EXCEPT !.where[t] = None] ELSE [m EXCEPT !.evt[t] = None]
  BY <1>5, <1>13, <1>15 DEF uxListRemove, Container
<1>17. /\ DOMAIN y = Fields
       /\ y.list = [x.list EXCEPT ![l] = r] /\ y.index = [x.index EXCEPT ![l] = ix]
       /\ y.wake = [x.wake EXCEPT ![t] = IF l \in DelayedLists THEN 0 ELSE @]
       /\ y.left = [x.left EXCEPT ![t] = IF l \in DelayedLists THEN 0 ELSE @]
  BY <1>14, <1>16 DEF Fields
<1>18. /\ y.where = (IF l \in StateLists THEN [x.where EXCEPT ![t] = None] ELSE x.where)
       /\ y.evt = (IF l \in StateLists THEN x.evt ELSE [x.evt EXCEPT ![t] = None])
  BY <1>14, <1>16 DEF Fields
<1>19. SameRest(x, y)
  BY <1>14, <1>16 DEF Fields, SameRest
<1>20. SameMarks(x, y)
  BY <1>14, <1>16 DEF Fields, SameMarks
<1>21. \A u \in Task : u # t \/ l \notin DelayedLists => y.wake[u] = x.wake[u] /\ y.left[u] = x.left[u]
  BY <1>17 DEF Core, Shape
<1>22. Removed(x, y, l, t)
  BY <1>18, <1>19, <1>20, <1>21 DEF Removed
<1>23. Shape(y)
  <2>1. y.list \in [Lists -> Seq(Task)] /\ y.index \in [Lists -> Nat]
    BY <1>9, <1>12, <1>17, SMTT(30) DEF Core, Shape
  <2>2. y.where \in [Task -> StateLists \cup {None}] /\ y.evt \in [Task -> EventLists \cup {Pending, None}]
    BY <1>18, SMTT(30) DEF Core, Shape
  <2>3. y.wake \in [Task -> TickType] /\ y.left \in [Task -> Int]
    <3>1. 0 \in TickType /\ 0 \in Int
      BY TasksAssumption DEF TickType
    <3>2. QED BY <1>17, <3>1 DEF Core, Shape
  <2>4. QED
    BY <1>17, <1>19, <1>20, <2>1, <2>2, <2>3 DEF Core, Shape, SameRest, SameMarks
<1>24. Agree(y)
  <2>1. SUFFICES ASSUME NEW h \in Lists
                 PROVE  /\ y.index[h] <= Len(y.list[h])
                        /\ \A i, j \in DOMAIN y.list[h] : y.list[h][i] = y.list[h][j] => i = j
                        /\ \A u \in Task : (\E i \in DOMAIN y.list[h] : y.list[h][i] = u) <=> Holds(y, h, u)
    BY DEF Agree
  <2>2. CASE h = l
    <3>1. y.list[h] = r /\ y.index[h] = ix
      BY <1>17, <2>2 DEF Core, Shape
    <3>2. \A i, j \in 1 .. n - 1 : r[i] = r[j] => i = j
      <4>1. TAKE i \in 1 .. n - 1, j \in 1 .. n - 1
      <4>2. PICK i1 \in 1 .. n : i1 = IF i < p THEN i ELSE i + 1
        OBVIOUS
      <4>3. PICK j1 \in 1 .. n : j1 = IF j < p THEN j ELSE j + 1
        OBVIOUS
      <4>4. r[i] = s[i1] /\ r[j] = s[j1]
        BY <1>9, <4>2, <4>3
      <4>5. i1 = j1 => i = j
        BY <1>4, <1>8, <4>2, <4>3
      <4>6. QED BY <1>2, <1>9, <4>4, <4>5
    <3>3. ASSUME NEW u \in Task PROVE (\E i \in 1 .. n - 1 : r[i] = u) <=> (u # t /\ \E i \in 1 .. n : s[i] = u)
      <4>1. ASSUME NEW i \in 1 .. n - 1, r[i] = u PROVE u # t /\ \E j \in 1 .. n : s[j] = u
        <5>1. PICK i1 \in 1 .. n : i1 = IF i < p THEN i ELSE i + 1
          OBVIOUS
        <5>2. s[i1] = u /\ i1 # p
          BY <1>4, <1>8, <1>9, <4>1, <5>1
        <5>3. QED BY <1>2, <1>3, <1>9, <5>2
      <4>2. ASSUME NEW i \in 1 .. n, s[i] = u, u # t PROVE \E j \in 1 .. n - 1 : r[j] = u
        <5>1. i # p
          BY <1>3, <4>2
        <5>2. CASE i < p
          BY <1>4, <1>8, <1>9, <4>2, <5>2
        <5>3. CASE i > p
          <6>1. i - 1 \in 1 .. n - 1 /\ ~(i - 1 < p) /\ (i - 1) + 1 = i
            BY <1>4, <1>8, <5>3
          <6>2. r[i - 1] = s[i]
            BY <1>9, <6>1
          <6>3. QED BY <4>2, <6>1, <6>2
        <5>4. QED BY <1>4, <1>8, <5>1, <5>2, <5>3
      <4>3. QED BY <4>1, <4>2
    <3>4. \A u \in Task : (\E i \in 1 .. n : s[i] = u) <=> Holds(x, l, u)
      BY <1>1, <1>9 DEF Core, Agree
    <3>5. \A u \in Task : Holds(y, l, u) <=> (u # t /\ Holds(x, l, u))
      BY <1>18, ListNames, ZenonT(40) DEF Core, Shape, Holds
    <3>6. \A u \in Task : (\E i \in 1 .. n - 1 : r[i] = u) <=> Holds(y, l, u)
      BY <3>3, <3>4, <3>5, Zenon
    <3>7. QED
      BY <1>9, <1>12, <2>2, <3>1, <3>2, <3>6, ZenonT(40)
  <2>3. CASE h # l
    <3>1. y.list[h] = x.list[h] /\ y.index[h] = x.index[h]
      BY <1>17, <2>3 DEF Core, Shape
    <3>2. \A u \in Task : Holds(y, h, u) <=> Holds(x, h, u)
      <4>1. TAKE u \in Task
      <4>2. h # None
        BY ListNames
      <4>3. QED BY <1>18, <2>3, <4>2 DEF Core, Shape, Holds
    <3>3. QED BY <3>1, <3>2 DEF Core, Agree
  <2>4. QED BY <2>2, <2>3
<1>25. Sorted(y)
  <2>1. SUFFICES ASSUME NEW h \in DelayedLists, NEW i \in DOMAIN y.list[h], NEW j \in DOMAIN y.list[h], i <= j
                 PROVE  y.wake[y.list[h][i]] <= y.wake[y.list[h][j]]
    BY DEF Sorted
  <2>2. h \in Lists /\ h \in StateLists
    BY ListNames
  <2>3. CASE h = l
    <3>1. y.list[h] = r /\ i \in 1 .. n - 1 /\ j \in 1 .. n - 1
      BY <1>9, <1>17, <2>2, <2>3 DEF Core, Shape
    <3>2. PICK i1 \in 1 .. n : i1 = IF i < p THEN i ELSE i + 1
      BY <3>1
    <3>3. PICK j1 \in 1 .. n : j1 = IF j < p THEN j ELSE j + 1
      BY <3>1
    <3>4. r[i] = s[i1] /\ r[j] = s[j1] /\ i1 <= j1 /\ i1 # p /\ j1 # p
      BY <1>4, <1>8, <1>9, <2>1, <3>1, <3>2, <3>3
    <3>5. s[i1] \in Task /\ s[j1] \in Task /\ s[i1] # t /\ s[j1] # t
      BY <1>2, <1>3, <1>9, <3>4
    <3>6. x.wake[s[i1]] <= x.wake[s[j1]]
      BY <1>1, <1>9, <2>1, <2>3, <3>4 DEF Core, Sorted
    <3>7. y.wake[s[i1]] = x.wake[s[i1]] /\ y.wake[s[j1]] = x.wake[s[j1]]
      BY <1>21, <3>5
    <3>8. QED BY <3>1, <3>4, <3>6, <3>7
  <2>4. CASE h # l
    <3>1. y.list[h] = x.list[h]
      BY <1>17, <2>2, <2>4 DEF Core, Shape
    <3>0. PICK z \in Seq(Task) : z = x.list[h]
      BY <2>2 DEF Core, Shape
    <3>2. PICK a \in Task : a = x.list[h][i]
      BY <2>1, <3>0, <3>1
    <3>3. PICK b \in Task : b = x.list[h][j]
      BY <2>1, <3>0, <3>1
    <3>4. x.wake[a] <= x.wake[b]
      BY <2>1, <3>1, <3>2, <3>3 DEF Core, Sorted
    <3>5. ASSUME NEW u \in Task, Holds(x, h, u) PROVE y.wake[u] = x.wake[u]
      BY <1>21, <2>2, <2>4, <3>5, ListNames DEF Holds
    <3>6. Holds(x, h, a) /\ Holds(x, h, b)
      BY <2>1, <2>2, <3>1, <3>2, <3>3 DEF Core, Agree
    <3>7. QED BY <3>1, <3>2, <3>3, <3>4, <3>5, <3>6
  <2>5. QED BY <2>3, <2>4
<1>26. QED
  BY <1>15, <1>22, <1>23, <1>24, <1>25 DEF Core

(* The item of t that list l would hold is in no list. *)
Free(x, l, t) == IF l \in StateLists THEN x.where[t] = None ELSE x.evt[t] = None

(* Place p of list l is the one for t, if the list is sorted. *)
InOrder(x, l, s, p, t) ==
  l \in DelayedLists =>
    \A j \in DOMAIN s : /\ j < p => x.wake[s[j]] <= x.wake[t]
                        /\ ~(j < p) => x.wake[t] <= x.wake[s[j]]

\* An item that was in no list is put into one, in its order if the list is sorted.
LEMMA PutDoes ==
  ASSUME NEW x, Core(x), NEW t \in Task, NEW l \in Lists, Free(x, l, t),
         NEW y, DOMAIN y = Fields, Inserted(x, y, l, t),
         NEW s, s = x.list[l], NEW u, NEW p, PutIn(s, u, p, t), y.list = [x.list EXCEPT ![l] = u],
         NEW ix \in Nat, ix <= Len(s) + 1, y.index = [x.index EXCEPT ![l] = ix],
         InOrder(x, l, s, p, t)
  PROVE  Core(y)
<1>1. s \in Seq(Task)
  BY DEF Core, Shape
<1>2. PICK n \in Nat : n = Len(s)
  BY <1>1
<1>3. /\ u \in Seq(Task) /\ Len(u) = n + 1 /\ p \in 1 .. n + 1 /\ u[p] = t
      /\ DOMAIN u = 1 .. n + 1 /\ DOMAIN s = 1 .. n
      /\ \A j \in 1 .. n : u[IF j < p THEN j ELSE j + 1] = s[j]
  BY <1>1, <1>2 DEF PutIn
<1>4. \A i, j \in 1 .. n : s[i] = s[j] => i = j
  BY <1>3 DEF Core, Agree
<1>5. ASSUME NEW j \in 1 .. n + 1, j # p
      PROVE  \E i \in 1 .. n : j = (IF i < p THEN i ELSE i + 1) /\ u[j] = s[i]
  <2>1. CASE j < p
    <3>1. j \in 1 .. n
      BY <1>3, <2>1
    <3>2. u[j] = s[j]
      BY <1>3, <2>1, <3>1
    <3>3. QED BY <2>1, <3>1, <3>2
  <2>2. CASE j > p
    <3>1. j - 1 \in 1 .. n /\ ~(j - 1 < p) /\ (j - 1) + 1 = j
      BY <1>3, <2>2
    <3>2. u[j] = s[j - 1]
      BY <1>3, <3>1
    <3>3. QED BY <3>1, <3>2
  <2>3. QED BY <1>3, <1>5, <2>1, <2>2
<1>6. \A v \in Task : (\E i \in 1 .. n : s[i] = v) <=> Holds(x, l, v)
  BY <1>3 DEF Core, Agree
<1>7. ~Holds(x, l, t)
  BY ListNames DEF Free, Holds
<1>8. \A i \in 1 .. n : s[i] # t
  BY <1>6, <1>7
<1>9. Shape(y)
  <2>1. y.list \in [Lists -> Seq(Task)] /\ y.index \in [Lists -> Nat]
    BY <1>3 DEF Core, Shape
  <2>2. y.where \in [Task -> StateLists \cup {None}]
    BY DEF Core, Shape, Inserted
  <2>3. y.evt \in [Task -> EventLists \cup {Pending, None}]
    <3>1. l \in StateLists \/ l \in EventLists \cup {Pending, None}
      BY DEF Lists
    <3>2. QED BY <3>1 DEF Core, Shape, Inserted
  <2>4. QED
    BY <2>1, <2>2, <2>3 DEF Core, Shape, Inserted, SameRest, SameMarks
<1>10. Agree(y)
  <2>1. SUFFICES ASSUME NEW h \in Lists
                 PROVE  /\ y.index[h] <= Len(y.list[h])
                        /\ \A i, j \in DOMAIN y.list[h] : y.list[h][i] = y.list[h][j] => i = j
                        /\ \A v \in Task : (\E i \in DOMAIN y.list[h] : y.list[h][i] = v) <=> Holds(y, h, v)
    BY DEF Agree
  <2>2. CASE h = l
    <3>1. y.list[h] = u /\ y.index[h] = ix
      BY <2>2 DEF Core, Shape
    <3>2. ASSUME NEW i \in 1 .. n + 1, NEW j \in 1 .. n + 1, u[i] = u[j] PROVE i = j
      <4>1. CASE i = p /\ j = p
        BY <4>1
      <4>2. CASE i = p /\ j # p
        <5>1. PICK b \in 1 .. n : u[j] = s[b]
          BY <1>5, <4>2
        <5>2. QED BY <1>3, <1>8, <3>2, <4>2, <5>1
      <4>3. CASE i # p /\ j = p
        <5>1. PICK a \in 1 .. n : u[i] = s[a]
          BY <1>5, <4>3
        <5>2. QED BY <1>3, <1>8, <3>2, <4>3, <5>1
      <4>4. CASE i # p /\ j # p
        <5>1. PICK a \in 1 .. n : i = (IF a < p THEN a ELSE a + 1) /\ u[i] = s[a]
          BY <1>5, <4>4
        <5>2. PICK b \in 1 .. n : j = (IF b < p THEN b ELSE b + 1) /\ u[j] = s[b]
          BY <1>5, <4>4
        <5>3. a = b
          BY <1>4, <3>2, <5>1, <5>2
        <5>4. QED BY <5>1, <5>2, <5>3
      <4>5. QED BY <4>1, <4>2, <4>3, <4>4
    <3>3. ASSUME NEW v \in Task PROVE (\E i \in 1 .. n + 1 : u[i] = v) <=> (v = t \/ \E i \in 1 .. n : s[i] = v)
      <4>1. ASSUME NEW i \in 1 .. n + 1, u[i] = v, v # t PROVE \E j \in 1 .. n : s[j] = v
        BY <1>3, <1>5, <4>1
      <4>2. ASSUME NEW i \in 1 .. n, s[i] = v PROVE \E j \in 1 .. n + 1 : u[j] = v
        <5>1. PICK j \in 1 .. n + 1 : j = IF i < p THEN i ELSE i + 1
          OBVIOUS
        <5>2. QED BY <1>3, <4>2, <5>1
      <4>3. QED BY <1>3, <4>1, <4>2
    <3>4. \A v \in Task : Holds(y, l, v) <=> (v = t \/ Holds(x, l, v))
      BY DEF Core, Shape, Holds, Inserted
    <3>5. \A v \in Task : (\E i \in 1 .. n + 1 : u[i] = v) <=> Holds(y, l, v)
      BY <1>6, <3>3, <3>4, Zenon
    <3>6. \A i, j \in DOMAIN u : u[i] = u[j] => i = j
      BY <1>3, <3>2
    <3>7. \A v \in Task : (\E i \in DOMAIN u : u[i] = v) <=> Holds(y, h, v)
      BY <1>3, <2>2, <3>5
    <3>8. ix <= Len(u)
      BY <1>2, <1>3
    <3>9. QED
      BY <3>1, <3>6, <3>7, <3>8
  <2>3. CASE h # l
    <3>1. y.list[h] = x.list[h] /\ y.index[h] = x.index[h]
      BY <2>3 DEF Core, Shape
    <3>2. \A v \in Task : Holds(y, h, v) <=> Holds(x, h, v)
      <4>1. TAKE v \in Task
      <4>2. h # None
        BY ListNames
      <4>3. QED BY <2>3, <4>2 DEF Core, Shape, Holds, Inserted, Free
    <3>3. QED BY <3>1, <3>2 DEF Core, Agree
  <2>4. QED BY <2>2, <2>3
<1>11. Sorted(y)
  <2>1. SUFFICES ASSUME NEW h \in DelayedLists, NEW i \in DOMAIN y.list[h], NEW j \in DOMAIN y.list[h], i <= j
                 PROVE  y.wake[y.list[h][i]] <= y.wake[y.list[h][j]]
    BY DEF Sorted
  <2>2. h \in Lists
    BY ListNames
  <2>3. y.wake = x.wake
    BY DEF Inserted
  <2>4. CASE h = l
    <3>1. y.list[h] = u /\ i \in 1 .. n + 1 /\ j \in 1 .. n + 1
      BY <1>3, <2>2, <2>4 DEF Core, Shape
    <3>2. \A a, b \in 1 .. n : a <= b => x.wake[s[a]] <= x.wake[s[b]]
      BY <1>3, <2>4 DEF Core, Sorted
    <3>3. \A a \in 1 .. n : /\ a < p => x.wake[s[a]] <= x.wake[t]
                            /\ ~(a < p) => x.wake[t] <= x.wake[s[a]]
      BY <1>3, <2>4 DEF InOrder
    <3>4. x.wake[t] <= x.wake[t]
      <4>1. x.wake[t] \in Int
        BY DEF Core, Shape, TickType
      <4>2. QED BY <4>1
    <3>5. CASE i = p /\ j = p
      BY <1>3, <2>3, <3>1, <3>4, <3>5
    <3>6. CASE i = p /\ j # p
      <4>1. PICK b \in 1 .. n : j = (IF b < p THEN b ELSE b + 1) /\ u[j] = s[b]
        BY <1>5, <3>1, <3>6
      <4>2. ~(b < p)
        BY <1>3, <2>1, <3>1, <3>6, <4>1
      <4>3. QED BY <1>3, <2>3, <3>1, <3>3, <3>6, <4>1, <4>2
    <3>7. CASE i # p /\ j = p
      <4>1. PICK a \in 1 .. n : i = (IF a < p THEN a ELSE a + 1) /\ u[i] = s[a]
        BY <1>5, <3>1, <3>7
      <4>2. a < p
        BY <1>3, <2>1, <3>1, <3>7, <4>1
      <4>3. QED BY <1>3, <2>3, <3>1, <3>3, <3>7, <4>1, <4>2
    <3>8. CASE i # p /\ j # p
      <4>1. PICK a \in 1 .. n : i = (IF a < p THEN a ELSE a + 1) /\ u[i] = s[a]
        BY <1>5, <3>1, <3>8
      <4>2. PICK b \in 1 .. n : j = (IF b < p THEN b ELSE b + 1) /\ u[j] = s[b]
        BY <1>5, <3>1, <3>8
      <4>3. a <= b
        BY <1>3, <2>1, <3>1, <4>1, <4>2
      <4>4. QED BY <2>3, <3>1, <3>2, <4>1, <4>2, <4>3
    <3>9. QED BY <3>5, <3>6, <3>7, <3>8
  <2>5. CASE h # l
    <3>1. y.list[h] = x.list[h]
      BY <2>2, <2>5 DEF Core, Shape
    <3>2. QED BY <2>1, <2>3, <3>1 DEF Core, Sorted
  <2>6. QED BY <2>4, <2>5
<1>12. QED
  BY <1>9, <1>10, <1>11 DEF Core

\* vListInsertEnd puts the task into a list that is not sorted.
LEMMA InsertEndDoes ==
  ASSUME NEW x, Core(x), NEW t \in Task, NEW l \in Lists, l \notin DelayedLists, Free(x, l, t)
  PROVE  Core(vListInsertEnd(x, l, t)) /\ Inserted(x, vListInsertEnd(x, l, t), l, t)
<1>1. PICK s \in Seq(Task) : s = x.list[l]
  BY DEF Core, Shape
<1>2. PICK i \in Nat : i = x.index[l] /\ i <= Len(s)
  BY <1>1 DEF Core, Shape, Agree
<1>3. PICK u : u = IF i = 0 THEN Append(s, t) ELSE InsertAt(s, i, t) OBVIOUS
<1>4. PICK p : p = IF i = 0 THEN Len(s) + 1 ELSE i OBVIOUS
<1>5. PutIn(s, u, p, t)
  <2>1. CASE i = 0
    BY <1>3, <1>4, <2>1, AppendPuts
  <2>2. CASE i # 0
    <3>1. i \in 1 .. Len(s) + 1
      BY <1>2, <2>2
    <3>2. QED BY <1>3, <1>4, <2>2, <3>1, InsertAtPuts
  <2>3. QED BY <2>1, <2>2
<1>6. PICK ix \in Nat : ix = (IF i = 0 THEN 0 ELSE i + 1) /\ ix <= Len(s) + 1
  BY <1>2
<1>7. PICK m : m = IF i = 0 THEN [x EXCEPT !.list[l] = Append(@, t)]
                   ELSE [x EXCEPT !.list[l] = InsertAt(@, i, t), !.index[l] = i + 1]
  OBVIOUS
<1>8. /\ DOMAIN m = Fields
      /\ m.list = [x.list EXCEPT ![l] = u] /\ m.index = [x.index EXCEPT ![l] = ix]
      /\ m.where = x.where /\ m.evt = x.evt /\ m.wake = x.wake /\ m.left = x.left
      /\ SameRest(x, m) /\ SameMarks(x, m)
  <2>1. DOMAIN x = Fields
    BY DEF Core, Shape
  <2>2. DOMAIN m = Fields
    BY <1>7, <2>1
  <2>3. m.list = [x.list EXCEPT ![l] = u]
    BY <1>1, <1>3, <1>7, <2>1 DEF Fields
  <2>4. m.index = [x.index EXCEPT ![l] = ix]
    <3>1. CASE i = 0
      <4>1. m.index = x.index
        BY <1>7, <2>1, <3>1 DEF Fields
      <4>2. x.index = [x.index EXCEPT ![l] = x.index[l]]
        BY DEF Core, Shape
      <4>3. QED BY <1>2, <1>6, <3>1, <4>1, <4>2
    <3>2. CASE i # 0
      BY <1>6, <1>7, <2>1, <3>2 DEF Fields
    <3>3. QED BY <3>1, <3>2
  <2>5. m.where = x.where /\ m.evt = x.evt /\ m.wake = x.wake /\ m.left = x.left
    BY <1>7, <2>1 DEF Fields
  <2>6. SameRest(x, m)
    BY <1>7, <2>1 DEF Fields, SameRest
  <2>7. SameMarks(x, m)
    BY <1>7, <2>1 DEF Fields, SameMarks
  <2>8. QED BY <2>2, <2>3, <2>4, <2>5, <2>6, <2>7
<1>9. PICK y : y = vListInsertEnd(x, l, t) OBVIOUS
<1>10. y = IF l \in StateLists THEN [m EXCEPT !.where[t] = l] ELSE [m EXCEPT !.evt[t] = l]
  BY <1>2, <1>7, <1>9 DEF vListInsertEnd, Container
<1>11. /\ DOMAIN y = Fields
       /\ y.list = [x.list EXCEPT ![l] = u] /\ y.index = [x.index EXCEPT ![l] = ix]
       /\ y.wake = x.wake /\ y.left = x.left
  BY <1>8, <1>10 DEF Fields
<1>12. /\ y.where = (IF l \in StateLists THEN [x.where EXCEPT ![t] = l] ELSE x.where)
       /\ y.evt = (IF l \in StateLists THEN x.evt ELSE [x.evt EXCEPT ![t] = l])
  BY <1>8, <1>10 DEF Fields
<1>13. SameRest(x, y)
  BY <1>8, <1>10 DEF Fields, SameRest
<1>14. SameMarks(x, y)
  BY <1>8, <1>10 DEF Fields, SameMarks
<1>15. Inserted(x, y, l, t)
  BY <1>11, <1>12, <1>13, <1>14 DEF Inserted
<1>16. Core(y)
  <2>1. DOMAIN y = Fields /\ y.list = [x.list EXCEPT ![l] = u] /\ y.index = [x.index EXCEPT ![l] = ix]
    BY <1>11
  <2>2. InOrder(x, l, s, p, t)
    BY DEF InOrder
  <2>3. QED BY <1>1, <1>5, <1>6, <1>15, <2>1, <2>2, PutDoes, Zenon
<1>17. QED BY <1>9, <1>15, <1>16

\* vListInsert puts the task into a delayed list, before the first that wakes later.
LEMMA InsertSortedDoes ==
  ASSUME NEW x, Core(x), NEW t \in Task, NEW l \in DelayedLists, x.where[t] = None
  PROVE  Core(vListInsert(x, l, t)) /\ Inserted(x, vListInsert(x, l, t), l, t)
<1>0. l \in Lists /\ l \in StateLists /\ l[1] = "delayed"
  BY ListNames
<1>1. PICK s \in Seq(Task) : s = x.list[l]
  BY <1>0 DEF Core, Shape
<1>2. PICK later : later = {j \in DOMAIN s : x.wake[s[j]] > x.wake[t]} OBVIOUS
<1>3. PICK p : p = IF later = {} THEN Len(s) + 1 ELSE Min(later) OBVIOUS
<1>4. \A j \in DOMAIN s : x.wake[s[j]] \in Int
  BY <1>1 DEF Core, Shape, TickType
<1>5. x.wake[t] \in Int
  BY DEF Core, Shape, TickType
<1>6. /\ p \in 1 .. Len(s) + 1
      /\ \A j \in DOMAIN s : (j < p => x.wake[s[j]] <= x.wake[t]) /\ (~(j < p) => x.wake[t] <= x.wake[s[j]])
  <2>1. CASE later = {}
    <3>1. p = Len(s) + 1
      BY <1>3, <2>1
    <3>2. \A j \in DOMAIN s : x.wake[s[j]] <= x.wake[t]
      BY <1>2, <1>4, <1>5, <2>1
    <3>3. QED BY <3>1, <3>2
  <2>2. CASE later # {}
    <3>1. later \subseteq Nat
      BY <1>2
    <3>2. \E j \in later : \A i \in later : j <= i
      BY <2>2, <3>1, Least
    <3>3. p \in later /\ \A i \in later : p <= i
      BY <1>3, <2>2, <3>2 DEF Min
    <3>4. p \in DOMAIN s /\ x.wake[s[p]] > x.wake[t]
      BY <1>2, <3>3
    <3>5. ASSUME NEW j \in DOMAIN s, j < p PROVE x.wake[s[j]] <= x.wake[t]
      BY <1>2, <1>4, <1>5, <3>3, <3>5
    <3>6. ASSUME NEW j \in DOMAIN s, ~(j < p) PROVE x.wake[t] <= x.wake[s[j]]
      <4>1. p <= j
        BY <3>4, <3>6
      <4>2. x.wake[s[p]] <= x.wake[s[j]]
        BY <1>1, <3>4, <4>1 DEF Core, Sorted
      <4>3. QED BY <1>4, <1>5, <3>4, <4>2
    <3>7. p \in 1 .. Len(s) + 1
      BY <3>4
    <3>8. QED BY <3>5, <3>6, <3>7
  <2>3. QED BY <2>1, <2>2
<1>7. PICK u : u = InsertAt(s, p, t) OBVIOUS
<1>8. PutIn(s, u, p, t)
  BY <1>6, <1>7, InsertAtPuts
<1>9. PICK y : y = vListInsert(x, l, t) OBVIOUS
<1>10. \A v \in Task : ItemValue(x, l, v) = x.wake[v]
  BY <1>0 DEF ItemValue
<1>11. {j \in DOMAIN s : ItemValue(x, l, s[j]) > ItemValue(x, l, t)} = later
  BY <1>2, <1>10
<1>12. PICK m : m = [x EXCEPT !.list[l] = u] OBVIOUS
<1>13. y = [m EXCEPT !.where[t] = l]
  <2>1. {j \in DOMAIN x.list[l] : ItemValue(x, l, x.list[l][j]) > ItemValue(x, l, t)} = later
    BY <1>1, <1>11
  <2>2. p = IF later = {} THEN Len(x.list[l]) + 1 ELSE Min(later)
    BY <1>1, <1>3
  <2>3. y = Container([x EXCEPT !.list[l] = InsertAt(@, p, t)], l, t, l)
    BY <1>9, <2>1, <2>2 DEF vListInsert
  <2>4. [x EXCEPT !.list[l] = InsertAt(@, p, t)] = m
    BY <1>1, <1>7, <1>12
  <2>5. QED BY <1>0, <2>3, <2>4 DEF Container
<1>14. DOMAIN x = Fields
  BY DEF Core, Shape
<1>15. /\ DOMAIN m = Fields /\ m.list = [x.list EXCEPT ![l] = u] /\ m.index = x.index
       /\ m.where = x.where /\ m.evt = x.evt /\ m.wake = x.wake /\ m.left = x.left
       /\ SameRest(x, m) /\ SameMarks(x, m)
  BY <1>12, <1>14 DEF Fields, SameRest, SameMarks
<1>16. /\ DOMAIN y = Fields /\ y.list = [x.list EXCEPT ![l] = u] /\ y.index = x.index
       /\ y.where = [x.where EXCEPT ![t] = l] /\ y.evt = x.evt /\ y.wake = x.wake /\ y.left = x.left
  BY <1>13, <1>15 DEF Fields
<1>17. SameRest(x, y) /\ SameMarks(x, y)
  BY <1>13, <1>15 DEF Fields, SameRest, SameMarks
<1>18. Inserted(x, y, l, t)
  BY <1>0, <1>16, <1>17 DEF Inserted
<1>19. PICK ix \in Nat : ix = x.index[l] /\ ix <= Len(s) + 1
  BY <1>0, <1>1 DEF Core, Shape, Agree
<1>20. y.index = [x.index EXCEPT ![l] = ix]
  BY <1>16, <1>19 DEF Core, Shape
<1>21. Free(x, l, t)
  BY <1>0 DEF Free
<1>22. DOMAIN y = Fields /\ y.list = [x.list EXCEPT ![l] = u]
  BY <1>16
<1>23. Core(y)
  <2>1. l \in Lists
    BY <1>0
  <2>2. InOrder(x, l, s, p, t)
    BY <1>6 DEF InOrder
  <2>3. ix \in Nat /\ ix <= Len(s) + 1
    BY <1>19
  <2>4. QED BY <1>1, <1>8, <1>18, <1>20, <1>21, <1>22, <2>1, <2>2, <2>3, PutDoes, Zenon
<1>24. QED BY <1>9, <1>18, <1>23

\* RemoveState: the state item leaves its list.
LEMMA RemoveStateDoes ==
  ASSUME NEW x, Core(x), NEW t \in Task, x.where[t] # None
  PROVE  /\ Core(RemoveState(x, t))
         /\ SameRest(x, RemoveState(x, t)) /\ SameMarks(x, RemoveState(x, t))
         /\ RemoveState(x, t).where = [x.where EXCEPT ![t] = None]
         /\ RemoveState(x, t).evt = x.evt
         /\ \A u \in Task \ {t} : RemoveState(x, t).wake[u] = x.wake[u] /\ RemoveState(x, t).left[u] = x.left[u]
<1>1. x.where[t] \in StateLists /\ x.where[t] \in Lists
  BY ListNames DEF Core, Shape
<1>2. Holds(x, x.where[t], t)
  BY <1>1 DEF Holds
<1>3. Core(uxListRemove(x, x.where[t], t)) /\ Removed(x, uxListRemove(x, x.where[t], t), x.where[t], t)
  BY <1>1, <1>2, RemoveDoes
<1>4. QED
  BY <1>1, <1>3 DEF Removed, RemoveState

\* RemoveEvent: the event item leaves the list it is in, if any.
LEMMA RemoveEventDoes ==
  ASSUME NEW x, Core(x), NEW t \in Task
  PROVE  /\ Core(RemoveEvent(x, t))
         /\ SameRest(x, RemoveEvent(x, t)) /\ SameMarks(x, RemoveEvent(x, t))
         /\ RemoveEvent(x, t).evt = [x.evt EXCEPT ![t] = None]
         /\ RemoveEvent(x, t).where = x.where
         /\ \A u \in Task : RemoveEvent(x, t).wake[u] = x.wake[u] /\ RemoveEvent(x, t).left[u] = x.left[u]
<1>1. CASE x.evt[t] = None
  <2>1. RemoveEvent(x, t) = x
    BY <1>1 DEF RemoveEvent
  <2>2. x.evt = [x.evt EXCEPT ![t] = None]
    BY <1>1 DEF Core, Shape
  <2>3. QED BY <2>1, <2>2 DEF SameRest, SameMarks
<1>2. CASE x.evt[t] # None
  <2>1. x.evt[t] \in Lists /\ x.evt[t] \notin StateLists /\ x.evt[t] \notin DelayedLists
    BY <1>2, ListNames DEF Core, Shape
  <2>2. Holds(x, x.evt[t], t)
    BY <2>1 DEF Holds
  <2>3. Core(uxListRemove(x, x.evt[t], t)) /\ Removed(x, uxListRemove(x, x.evt[t], t), x.evt[t], t)
    BY <2>1, <2>2, RemoveDoes
  <2>4. RemoveEvent(x, t) = uxListRemove(x, x.evt[t], t)
    BY <1>2 DEF RemoveEvent
  <2>5. QED
    BY <2>1, <2>3, <2>4 DEF Removed
<1>3. QED BY <1>1, <1>2
-----------------------------------------------------------------------------
(* Tasks that become ready *)

\* A change outside the lists keeps them as they are.
LEMMA CoreSame ==
  ASSUME NEW x, Core(x), NEW y, Shape(y), y.list = x.list, y.index = x.index,
         y.where = x.where, y.evt = x.evt,
         \A u \in Task : x.where[u] \in DelayedLists => y.wake[u] = x.wake[u]
  PROVE  Core(y)
<1>1. Agree(y)
  BY DEF Core, Agree, Holds
<1>2. ASSUME NEW l \in DelayedLists, NEW i \in DOMAIN y.list[l], NEW j \in DOMAIN y.list[l], i <= j
      PROVE  y.wake[y.list[l][i]] <= y.wake[y.list[l][j]]
  <2>1. l \in Lists /\ l \in StateLists
    BY ListNames
  <2>2. PICK z \in Seq(Task) : z = x.list[l]
    BY <2>1 DEF Core, Shape
  <2>3. z[i] \in Task /\ z[j] \in Task
    BY <1>2, <2>2
  <2>4. Holds(x, l, z[i]) /\ Holds(x, l, z[j])
    BY <1>2, <2>1, <2>2, <2>3 DEF Core, Agree
  <2>5. x.where[z[i]] = l /\ x.where[z[j]] = l
    BY <2>1, <2>4 DEF Holds
  <2>6. x.wake[z[i]] <= x.wake[z[j]]
    BY <1>2, <2>2 DEF Core, Sorted
  <2>7. QED BY <2>2, <2>3, <2>5, <2>6
<1>3. QED BY <1>1, <1>2 DEF Core, Sorted

(* y is x with t made ready; e is the list its event item is in then. *)
Readied(x, y, t, e) ==
  /\ Core(y) /\ SameRest(x, y) /\ y.unblock = x.unblock /\ y.yield = x.yield
  /\ y.top = (IF x.prio[t] > x.top THEN x.prio[t] ELSE x.top)
  /\ y.where = [x.where EXCEPT ![t] = Ready(x.prio[t])]
  /\ y.evt = [x.evt EXCEPT ![t] = e]
  /\ \A u \in Task \ {t} : y.wake[u] = x.wake[u] /\ y.left[u] = x.left[u]

\* prvAddTaskToReadyList, for a task that has just been taken out of its list.
LEMMA AddReadyDoes ==
  ASSUME NEW x, Core(x), NEW t \in Task, x.where[t] = None
  PROVE  Readied(x, prvAddTaskToReadyList(x, t), t, x.evt[t])
<1>1. PICK m : m = [x EXCEPT !.top = IF x.prio[t] > @ THEN x.prio[t] ELSE @] OBVIOUS
<1>2. DOMAIN x = Fields /\ x.prio[t] \in Priorities /\ x.top \in Priorities
  BY DEF Core, Shape
<1>3. /\ DOMAIN m = Fields /\ m.top = (IF x.prio[t] > x.top THEN x.prio[t] ELSE x.top)
      /\ m.list = x.list /\ m.index = x.index /\ m.where = x.where /\ m.evt = x.evt
      /\ m.wake = x.wake /\ m.left = x.left /\ m.unblock = x.unblock /\ m.yield = x.yield
  BY <1>1, <1>2 DEF Fields
<1>4. SameRest(x, m)
  BY <1>1, <1>2 DEF Fields, SameRest
<1>5. m.top \in Priorities
  BY <1>2, <1>3
<1>6. Shape(m)
  BY <1>3, <1>4, <1>5 DEF Core, Shape, SameRest
<1>7. Core(m)
  BY <1>3, <1>6, CoreSame
<1>8. PICK l \in Lists : l = Ready(x.prio[t]) /\ l \in StateLists /\ l \notin DelayedLists
  BY <1>2, ListNames
<1>9. Free(m, l, t)
  BY <1>3, <1>8 DEF Free
<1>10. PICK y : y = vListInsertEnd(m, l, t) OBVIOUS
<1>11. Core(y) /\ Inserted(m, y, l, t)
  BY <1>7, <1>8, <1>9, <1>10, InsertEndDoes
<1>12. y = prvAddTaskToReadyList(x, t)
  BY <1>1, <1>8, <1>10 DEF prvAddTaskToReadyList
<1>13. SameRest(x, y)
  BY <1>4, <1>11 DEF Inserted, SameRest
<1>14. y.unblock = x.unblock /\ y.yield = x.yield /\ y.top = m.top
  BY <1>3, <1>11 DEF Inserted, SameMarks
<1>15. y.where = [x.where EXCEPT ![t] = Ready(x.prio[t])] /\ y.evt = x.evt
       /\ y.wake = x.wake /\ y.left = x.left
  BY <1>3, <1>8, <1>11 DEF Inserted
<1>16. x.evt = [x.evt EXCEPT ![t] = x.evt[t]]
  BY DEF Core, Shape
<1>17. QED
  BY <1>3, <1>11, <1>12, <1>13, <1>14, <1>15, <1>16 DEF Readied

\* The task leaves its state list and becomes ready: vTaskResume, a notification.
LEMMA ReadyDoes ==
  ASSUME NEW x, Core(x), NEW t \in Task, x.where[t] # None
  PROVE  Readied(x, prvAddTaskToReadyList(RemoveState(x, t), t), t, x.evt[t])
<1>1. PICK m : m = RemoveState(x, t) OBVIOUS
<1>2. /\ Core(m) /\ SameRest(x, m) /\ SameMarks(x, m)
      /\ m.where = [x.where EXCEPT ![t] = None] /\ m.evt = x.evt
      /\ \A u \in Task \ {t} : m.wake[u] = x.wake[u] /\ m.left[u] = x.left[u]
  BY <1>1, RemoveStateDoes
<1>3. m.where[t] = None
  BY <1>2 DEF Core, Shape
<1>4. PICK y : y = prvAddTaskToReadyList(m, t) OBVIOUS
<1>5. Readied(m, y, t, m.evt[t])
  BY <1>2, <1>3, <1>4, AddReadyDoes
<1>6. SameRest(x, y)
  BY <1>2, <1>5 DEF Readied, SameRest
<1>7. y.unblock = x.unblock /\ y.yield = x.yield /\ y.top = (IF x.prio[t] > x.top THEN x.prio[t] ELSE x.top)
  BY <1>2, <1>5 DEF Readied, SameRest, SameMarks
<1>8. y.where = [x.where EXCEPT ![t] = Ready(x.prio[t])]
  BY <1>2, <1>5, ZenonT(40) DEF Readied, SameRest, Core, Shape
<1>9. y.evt = [x.evt EXCEPT ![t] = x.evt[t]]
  BY <1>2, <1>5 DEF Readied
<1>10. \A u \in Task \ {t} : y.wake[u] = x.wake[u] /\ y.left[u] = x.left[u]
  BY <1>2, <1>5 DEF Readied
<1>11. QED
  BY <1>1, <1>4, <1>5, <1>6, <1>7, <1>8, <1>9, <1>10 DEF Readied

\* It leaves its event list too: xTaskIncrementTick.
LEMMA WakeDoes ==
  ASSUME NEW x, Core(x), NEW t \in Task, x.where[t] # None
  PROVE  Readied(x, prvAddTaskToReadyList(RemoveEvent(RemoveState(x, t), t), t), t, None)
<1>1. PICK m : m = RemoveState(x, t) OBVIOUS
<1>2. /\ Core(m) /\ SameRest(x, m) /\ SameMarks(x, m)
      /\ m.where = [x.where EXCEPT ![t] = None] /\ m.evt = x.evt
      /\ \A u \in Task \ {t} : m.wake[u] = x.wake[u] /\ m.left[u] = x.left[u]
  BY <1>1, RemoveStateDoes
<1>3. PICK n : n = RemoveEvent(m, t) OBVIOUS
<1>4. /\ Core(n) /\ SameRest(m, n) /\ SameMarks(m, n)
      /\ n.evt = [m.evt EXCEPT ![t] = None] /\ n.where = m.where
      /\ \A u \in Task : n.wake[u] = m.wake[u] /\ n.left[u] = m.left[u]
  BY <1>2, <1>3, RemoveEventDoes, SMTT(30)
<1>5. n.where[t] = None /\ n.evt[t] = None
  BY <1>2, <1>4 DEF Core, Shape
<1>6. PICK y : y = prvAddTaskToReadyList(n, t) OBVIOUS
<1>7. Readied(n, y, t, None)
  <2>1. Core(n) /\ n.where[t] = None
    BY <1>4, <1>5
  <2>2. Readied(n, y, t, n.evt[t])
    BY <1>6, <2>1, AddReadyDoes
  <2>3. QED BY <1>5, <2>2
<1>8. SameRest(x, y)
  BY <1>2, <1>4, <1>7 DEF Readied, SameRest
<1>9. y.unblock = x.unblock /\ y.yield = x.yield /\ y.top = (IF x.prio[t] > x.top THEN x.prio[t] ELSE x.top)
  BY <1>2, <1>4, <1>7 DEF Readied, SameRest, SameMarks
<1>10. y.where = [x.where EXCEPT ![t] = Ready(x.prio[t])]
  <2>1. x.where \in [Task -> StateLists \cup {None}]
    BY DEF Core, Shape
  <2>2. n.where = [x.where EXCEPT ![t] = None] /\ n.prio[t] = x.prio[t]
    BY <1>2, <1>4 DEF SameRest
  <2>3. y.where = [n.where EXCEPT ![t] = Ready(n.prio[t])]
    BY <1>7 DEF Readied
  <2>4. QED BY <2>1, <2>2, <2>3
<1>11. y.evt = [x.evt EXCEPT ![t] = None]
  <2>1. x.evt \in [Task -> EventLists \cup {Pending, None}]
    BY DEF Core, Shape
  <2>2. n.evt = [x.evt EXCEPT ![t] = None]
    BY <1>2, <1>4
  <2>3. y.evt = [n.evt EXCEPT ![t] = None]
    BY <1>7 DEF Readied
  <2>4. QED BY <2>1, <2>2, <2>3
<1>12. \A u \in Task \ {t} : y.wake[u] = x.wake[u] /\ y.left[u] = x.left[u]
  BY <1>2, <1>4, <1>7 DEF Readied
<1>13. QED
  BY <1>1, <1>3, <1>6, <1>7, <1>8, <1>9, <1>10, <1>11, <1>12 DEF Readied

\* The same in the order of xTaskResumeAll.
LEMMA PendedDoes ==
  ASSUME NEW x, Core(x), NEW t \in Task, x.where[t] # None
  PROVE  Readied(x, prvAddTaskToReadyList(RemoveState(RemoveEvent(x, t), t), t), t, None)
<1>3. PICK n : n = RemoveEvent(x, t) OBVIOUS
<1>4. /\ Core(n) /\ SameRest(x, n) /\ SameMarks(x, n)
      /\ n.evt = [x.evt EXCEPT ![t] = None] /\ n.where = x.where
      /\ \A u \in Task : n.wake[u] = x.wake[u] /\ n.left[u] = x.left[u]
  BY <1>3, RemoveEventDoes
<1>5. n.evt[t] = None
  BY <1>4 DEF Core, Shape
<1>6. PICK y : y = prvAddTaskToReadyList(RemoveState(n, t), t) OBVIOUS
<1>7. Readied(n, y, t, None)
  BY <1>4, <1>5, <1>6, ReadyDoes
<1>8. SameRest(x, y)
  BY <1>4, <1>7 DEF Readied, SameRest
<1>9. y.unblock = x.unblock /\ y.yield = x.yield /\ y.top = (IF x.prio[t] > x.top THEN x.prio[t] ELSE x.top)
  BY <1>4, <1>7 DEF Readied, SameRest, SameMarks
<1>10. y.where = [x.where EXCEPT ![t] = Ready(x.prio[t])]
  BY <1>4, <1>7 DEF Readied, SameRest
<1>11. y.evt = [x.evt EXCEPT ![t] = None]
  BY <1>4, <1>7, ZenonT(40) DEF Readied, Core, Shape
<1>12. \A u \in Task \ {t} : y.wake[u] = x.wake[u] /\ y.left[u] = x.left[u]
  BY <1>4, <1>7 DEF Readied
<1>13. QED
  BY <1>3, <1>6, <1>7, <1>8, <1>9, <1>10, <1>11, <1>12 DEF Readied

\* Readying a task puts it into the right list and leaves the others where they are.
LEMMA ReadiedKeeps ==
  ASSUME NEW x, Core(x), NEW y, NEW t \in Task, NEW e, Readied(x, y, t, e),
         \A u \in Task \ {t}, p \in Priorities : x.where[u] = Ready(p) => p = x.prio[u] /\ p <= x.top
  PROVE  /\ Right(y)
         /\ Left(x) => Left(y)
         /\ (\A u \in Task \ {t} : x.where[u] = Delayed(x.del) => x.wake[u] > x.tick /\ x.unblock <= x.wake[u])
            => Early(y)
<1>1. \A u \in Task \ {t} : y.where[u] = x.where[u] /\ y.wake[u] = x.wake[u] /\ y.left[u] = x.left[u]
  BY DEF Readied, Core, Shape
<1>2. y.where[t] = Ready(x.prio[t]) /\ y.prio = x.prio /\ y.del = x.del /\ y.tick = x.tick /\ y.unblock = x.unblock
  BY DEF Readied, SameRest, Core, Shape
<1>3. x.top \in Int /\ x.prio[t] \in Int /\ y.top \in Int
  BY TasksAssumption DEF Readied, Core, Shape, Priorities
<1>4. x.top <= y.top /\ x.prio[t] <= y.top
  BY <1>3 DEF Readied
<1>5. ASSUME NEW u \in Task, NEW p \in Priorities, y.where[u] = Ready(p) PROVE p = y.prio[u] /\ p <= y.top
  <2>1. CASE u = t
    <3>1. p = x.prio[t]
      BY <1>2, <1>5, <2>1, ListNames
    <3>2. QED BY <1>2, <1>4, <2>1, <3>1
  <2>2. CASE u # t
    <3>1. p = x.prio[u] /\ p <= x.top
      BY <1>1, <1>5, <2>2
    <3>2. p \in Int
      BY TasksAssumption DEF Priorities
    <3>3. QED BY <1>2, <1>3, <1>4, <3>1, <3>2
  <2>3. QED BY <2>1, <2>2
<1>6. \A i : y.where[t] # Delayed(i)
  BY <1>2, ListNames
<1>7. Left(x) => Left(y)
  BY <1>1, <1>2, <1>6 DEF Left
<1>8. (\A u \in Task \ {t} : x.where[u] = Delayed(x.del) => x.wake[u] > x.tick /\ x.unblock <= x.wake[u])
      => Early(y)
  BY <1>1, <1>2, <1>6 DEF Early
<1>9. QED BY <1>5, <1>7, <1>8 DEF Right
-----------------------------------------------------------------------------
(* Switching, suspending, delaying *)

(* Fields that a choice of the running task leaves alone. *)
Switched(x, y) ==
  /\ y.list = x.list /\ y.where = x.where /\ y.evt = x.evt /\ y.wake = x.wake /\ y.left = x.left
  /\ y.prio = x.prio /\ y.state = x.state /\ y.value = x.value /\ y.started = x.started
  /\ y.del = x.del /\ y.tick = x.tick /\ y.overflows = x.overflows /\ y.unblock = x.unblock
  /\ y.susp = x.susp /\ y.pended = x.pended /\ y.fault = x.fault
  /\ y.preempt = x.preempt /\ y.slicing = x.slicing

(* The running task is ready and nobody who is ready is above it. *)
OnTop(y) ==
  /\ y.where[y.cur] = Ready(y.prio[y.cur])
  /\ \A u \in Task : y.where[u] = Ready(y.prio[u]) => y.prio[u] <= y.prio[y.cur]

\* taskSELECT_HIGHEST_PRIORITY_TASK finds a task, as the idle task is always
\* ready, and none above it is ready.
LEMMA SelectDoes ==
  ASSUME NEW x, Core(x), Right(x), x.where[Idle] = Ready(0),
         NEW y, y = taskSELECT_HIGHEST_PRIORITY_TASK(x)
  PROVE  Core(y) /\ Right(y) /\ Switched(x, y) /\ y.yield = x.yield /\ OnTop(y)
<1>1. PICK found : found = {p \in 0 .. x.top : x.list[Ready(p)] # <<>>} OBVIOUS
<1>2. x.top \in Priorities /\ DOMAIN x = Fields
  BY DEF Core, Shape
<1>3. x.top \in Nat /\ MAX_PRIORITIES \in Nat /\ x.top <= MAX_PRIORITIES - 1 /\ 0 \in Priorities
  BY <1>2, TasksAssumption DEF Priorities
<1>4. ASSUME NEW p \in Priorities
      PROVE  /\ Ready(p) \in Lists /\ Ready(p) \in StateLists /\ x.list[Ready(p)] \in Seq(Task)
             /\ \A u \in Task : x.where[u] = Ready(p) <=> \E i \in DOMAIN x.list[Ready(p)] : x.list[Ready(p)][i] = u
  <2>1. Ready(p) \in Lists /\ Ready(p) \in StateLists
    BY ListNames
  <2>2. QED BY <2>1 DEF Core, Shape, Agree, Holds
<1>5. \A p \in Priorities, u \in Task : x.where[u] = Ready(p) => p \in found
  <2>1. TAKE p \in Priorities, u \in Task
  <2>2. HAVE x.where[u] = Ready(p)
  <2>3. x.list[Ready(p)] # <<>>
    BY <1>4, <2>2
  <2>4. p <= x.top
    BY <2>2 DEF Right
  <2>5. p \in Nat
    BY <1>3 DEF Priorities
  <2>6. QED BY <1>1, <1>3, <2>3, <2>4, <2>5
<1>6. 0 \in found
  BY <1>3, <1>5, TasksAssumption
<1>7. PICK p \in found : \A r \in found : r <= p
  <2>1. PICK B : B = {i \in Nat : \E r \in found : r = x.top - i}
    OBVIOUS
  <2>2. x.top \in B
    BY <1>3, <1>6, <2>1
  <2>3. PICK b \in B : \A c \in B : b <= c
    BY <2>1, <2>2, Least
  <2>4. x.top - b \in found
    BY <2>1, <2>3
  <2>5. ASSUME NEW r \in found PROVE r <= x.top - b
    <3>1. x.top - r \in B /\ r \in Nat
      BY <1>1, <1>3, <2>1
    <3>2. b \in Nat /\ b <= x.top - r
      BY <2>1, <2>3, <3>1
    <3>3. QED BY <1>3, <3>1, <3>2
  <2>6. QED BY <2>4, <2>5
<1>8. p \in Priorities /\ p \in Nat /\ x.list[Ready(p)] # <<>>
  BY <1>1, <1>3, <1>7 DEF Priorities
<1>9. (CHOOSE q \in found : \A r \in found : r <= q) = p
  <2>1. found \subseteq Nat
    BY <1>1, <1>3
  <2>2. \A q \in found : (\A r \in found : r <= q) => q = p
    BY <1>7, <2>1
  <2>3. QED BY <1>7, <2>2
<1>10. PICK l \in Lists : l = Ready(p)
  BY <1>4, <1>8
<1>11. PICK s \in Seq(Task) : s = x.list[l] /\ s # <<>>
  BY <1>4, <1>8, <1>10
<1>12. PICK n \in Nat : n = Len(s) /\ n > 0 /\ DOMAIN s = 1 .. n
  BY <1>11
<1>13. PICK i \in Nat : i = x.index[l]
  BY DEF Core, Shape
<1>14. PICK next \in 1 .. n : next = (i % n) + 1
  BY <1>12, <1>13, SMTT(30)
<1>15. y = [x EXCEPT !.top = p, !.index[l] = next, !.cur = s[next]]
  <2>1. y = LET h == CHOOSE q \in found : \A r \in found : r <= q
            IN  [x EXCEPT !.top = h, !.index[Ready(h)] = (x.index[Ready(h)] % Len(x.list[Ready(h)])) + 1,
                          !.cur = x.list[Ready(h)][(x.index[Ready(h)] % Len(x.list[Ready(h)])) + 1]]
    BY <1>1, <1>6 DEF taskSELECT_HIGHEST_PRIORITY_TASK
  <2>2. QED
    BY <1>9, <1>10, <1>11, <1>12, <1>13, <1>14, <2>1, ZenonT(40)
<1>16. /\ DOMAIN y = Fields /\ y.top = p /\ y.index = [x.index EXCEPT ![l] = next] /\ y.cur = s[next]
       /\ y.yield = x.yield
  BY <1>2, <1>15 DEF Fields
<1>17. Switched(x, y)
  BY <1>2, <1>15 DEF Fields, Switched
<1>18. y.cur \in Task /\ y.where[y.cur] = Ready(p)
  BY <1>4, <1>8, <1>10, <1>11, <1>12, <1>16, <1>17 DEF Switched
<1>19. Shape(y)
  <2>1. y.index \in [Lists -> Nat]
    BY <1>14, <1>16 DEF Core, Shape
  <2>2. QED
    BY <1>8, <1>16, <1>17, <1>18, <2>1 DEF Core, Shape, Switched
<1>20. Agree(y)
  <2>1. \A h \in Lists : y.index[h] <= Len(y.list[h])
    <3>1. TAKE h \in Lists
    <3>2. y.list[h] = x.list[h] /\ x.index \in [Lists -> Nat]
      BY <1>17 DEF Core, Shape, Switched
    <3>3. CASE h = l
      <4>1. y.index[h] = next
        BY <1>16, <3>2, <3>3
      <4>2. y.list[h] = s
        BY <1>11, <3>2, <3>3
      <4>3. next <= n
        BY <1>14
      <4>4. QED BY <1>12, <4>1, <4>2, <4>3
    <3>4. CASE h # l
      BY <1>16, <3>2, <3>4 DEF Core, Agree
    <3>5. QED BY <3>3, <3>4
  <2>2. QED BY <1>17, <2>1 DEF Core, Agree, Holds, Switched
<1>21. Sorted(y)
  BY <1>17 DEF Core, Sorted, Switched
<1>22. \A u \in Task, r \in Priorities : y.where[u] = Ready(r) => r = y.prio[u] /\ r <= y.top
  BY <1>5, <1>7, <1>16, <1>17 DEF Right, Switched
<1>23. Right(y)
  BY <1>22 DEF Right
<1>24. OnTop(y)
  <2>1. y.prio[y.cur] = p
    BY <1>8, <1>18, <1>22
  <2>2. \A u \in Task : y.prio[u] \in Priorities
    BY <1>19 DEF Shape
  <2>3. QED BY <1>16, <1>18, <1>22, <2>1, <2>2 DEF OnTop
<1>25. QED BY <1>16, <1>17, <1>19, <1>20, <1>21, <1>23, <1>24 DEF Core

\* vTaskSwitchContext chooses, or notes that a switch is wanted.
LEMMA SwitchDoes ==
  ASSUME NEW x, Core(x), Right(x), x.where[Idle] = Ready(0),
         NEW y, y = vTaskSwitchContext(x)
  PROVE  /\ Core(y) /\ Right(y) /\ Switched(x, y)
         /\ x.susp = 0 => y.yield = 0 /\ OnTop(y)
         /\ x.susp # 0 => y.yield = 1 /\ y.cur = x.cur /\ y.top = x.top
<1>0. DOMAIN x = Fields
  BY DEF Core, Shape
<1>1. CASE x.susp = 0
  <2>1. PICK m : m = [x EXCEPT !.yield = 0] OBVIOUS
  <2>2. DOMAIN m = Fields /\ m.yield = 0 /\ m.index = x.index /\ m.top = x.top /\ m.cur = x.cur
    BY <1>0, <2>1 DEF Fields
  <2>3. Switched(x, m)
    BY <1>0, <2>1 DEF Fields, Switched
  <2>4. Shape(m)
    BY <2>2, <2>3 DEF Core, Shape, Switched
  <2>5. Core(m)
    BY <2>2, <2>3, <2>4, CoreSame DEF Switched
  <2>6. Right(m) /\ m.where[Idle] = Ready(0)
    BY <2>2, <2>3 DEF Right, Switched
  <2>7. y = taskSELECT_HIGHEST_PRIORITY_TASK(m)
    BY <1>1, <2>1 DEF vTaskSwitchContext
  <2>8. Core(y) /\ Right(y) /\ Switched(m, y) /\ y.yield = m.yield /\ OnTop(y)
    BY <2>5, <2>6, <2>7, SelectDoes
  <2>9. Switched(x, y)
    BY <2>3, <2>8 DEF Switched
  <2>10. QED BY <1>1, <2>2, <2>8, <2>9
<1>2. CASE x.susp # 0
  <2>1. y = [x EXCEPT !.yield = 1]
    BY <1>2 DEF vTaskSwitchContext
  <2>2. DOMAIN y = Fields /\ y.yield = 1 /\ y.index = x.index /\ y.top = x.top /\ y.cur = x.cur
    BY <1>0, <2>1 DEF Fields
  <2>3. Switched(x, y)
    BY <1>0, <2>1 DEF Fields, Switched
  <2>4. Shape(y)
    BY <2>2, <2>3 DEF Core, Shape, Switched
  <2>5. Core(y)
    BY <2>2, <2>3, <2>4, CoreSame DEF Switched
  <2>6. Right(y)
    BY <2>2, <2>3 DEF Right, Switched
  <2>7. QED BY <1>2, <2>2, <2>3, <2>5, <2>6
<1>3. QED BY <1>1, <1>2

\* prvResetNextTaskUnblockTime: nobody wakes before that time.
LEMMA ResetDoes ==
  ASSUME NEW x, Core(x), NEW y, y = prvResetNextTaskUnblockTime(x)
  PROVE  /\ Core(y) /\ SameRest(x, y) /\ y.top = x.top /\ y.yield = x.yield /\ y.list = x.list
         /\ y.where = x.where /\ y.evt = x.evt /\ y.wake = x.wake /\ y.left = x.left
         /\ \A u \in Task : x.where[u] = Delayed(x.del) => y.unblock <= x.wake[u]
<1>0. DOMAIN x = Fields /\ x.del \in {0, 1}
  BY DEF Core, Shape
<1>1. PICK l \in Lists : l = Delayed(x.del) /\ l \in DelayedLists /\ l \in StateLists
  BY <1>0, ListNames DEF DelayedLists
<1>2. PICK s \in Seq(Task) : s = x.list[l]
  BY DEF Core, Shape
<1>3. PICK b : b = IF s = <<>> THEN portMAX_DELAY ELSE x.wake[Head(s)] OBVIOUS
<1>4. y = [x EXCEPT !.unblock = b]
  BY <1>1, <1>2, <1>3 DEF prvResetNextTaskUnblockTime
<1>5. b \in TickType
  <2>1. CASE s = <<>>
    BY <1>3, <2>1, TasksAssumption DEF portMAX_DELAY, TickType
  <2>2. CASE s # <<>>
    <3>1. Head(s) \in Task
      BY <2>2
    <3>2. QED BY <1>3, <2>2, <3>1 DEF Core, Shape
  <2>3. QED BY <2>1, <2>2
<1>6. /\ DOMAIN y = Fields /\ y.unblock = b /\ y.top = x.top /\ y.yield = x.yield /\ y.list = x.list
      /\ y.index = x.index /\ y.where = x.where /\ y.evt = x.evt /\ y.wake = x.wake /\ y.left = x.left
  BY <1>0, <1>4 DEF Fields
<1>7. SameRest(x, y)
  BY <1>0, <1>4 DEF Fields, SameRest
<1>8. Shape(y)
  BY <1>5, <1>6, <1>7 DEF Core, Shape, SameRest
<1>9. Core(y)
  BY <1>6, <1>8, CoreSame
<1>10. ASSUME NEW u \in Task, x.where[u] = Delayed(x.del) PROVE b <= x.wake[u]
  <2>1. Holds(x, l, u)
    BY <1>1, <1>10 DEF Holds
  <2>2. PICK i \in DOMAIN s : s[i] = u
    BY <1>2, <2>1 DEF Core, Agree
  <2>3. s # <<>> /\ 1 \in DOMAIN s /\ i \in DOMAIN s /\ 1 <= i /\ Head(s) = s[1]
    BY <2>2
  <2>4. x.wake[s[1]] <= x.wake[s[i]]
    BY <1>1, <1>2, <2>3 DEF Core, Sorted
  <2>5. QED BY <1>3, <2>2, <2>3, <2>4
<1>11. QED BY <1>6, <1>7, <1>9, <1>10

\* A task that moves to a list that is neither ready nor delayed takes nothing along.
LEMMA MovedKeeps ==
  ASSUME NEW x, Core(x), NEW y, SameRest(x, y), SameMarks(x, y), NEW t \in Task,
         \A u \in Task \ {t} : y.where[u] = x.where[u] /\ y.wake[u] = x.wake[u] /\ y.left[u] = x.left[u],
         y.where[t] = Suspended \/ y.where[t] = None
  PROVE  (Right(x) => Right(y)) /\ (Left(x) => Left(y)) /\ (Early(x) => Early(y))
<1>1. y.prio = x.prio /\ y.del = x.del /\ y.tick = x.tick /\ y.unblock = x.unblock /\ y.top = x.top
  BY DEF SameRest, SameMarks
<1>2. \A p : y.where[t] # Ready(p) /\ y.where[t] # Delayed(p)
  BY ListNames
<1>3. Right(x) => Right(y)
  BY <1>1, <1>2 DEF Right
<1>4. Left(x) => Left(y)
  BY <1>1, <1>2 DEF Left
<1>5. Early(x) => Early(y)
  BY <1>1, <1>2 DEF Early
<1>6. QED BY <1>3, <1>4, <1>5

\* The first critical section of vTaskSuspend: out of both lists, into the suspended one.
LEMMA SuspendDoes ==
  ASSUME NEW x, Data(x), NEW t \in Task, x.where[t] # None,
         NEW y, y = vListInsertEnd(RemoveEvent(RemoveState(x, t), t), Suspended, t)
  PROVE  /\ Data(y) /\ SameRest(x, y) /\ SameMarks(x, y)
         /\ y.where = [x.where EXCEPT ![t] = Suspended] /\ y.evt = [x.evt EXCEPT ![t] = None]
<1>0. Core(x)
  BY DEF Data, Core
<1>1. PICK m : m = RemoveState(x, t) OBVIOUS
<1>2. /\ Core(m) /\ SameRest(x, m) /\ SameMarks(x, m)
      /\ m.where = [x.where EXCEPT ![t] = None] /\ m.evt = x.evt
      /\ \A u \in Task \ {t} : m.wake[u] = x.wake[u] /\ m.left[u] = x.left[u]
  BY <1>0, <1>1, RemoveStateDoes
<1>3. PICK n : n = RemoveEvent(m, t) OBVIOUS
<1>4. /\ Core(n) /\ SameRest(m, n) /\ SameMarks(m, n)
      /\ n.evt = [m.evt EXCEPT ![t] = None] /\ n.where = m.where
      /\ \A u \in Task : n.wake[u] = m.wake[u] /\ n.left[u] = m.left[u]
  BY <1>2, <1>3, RemoveEventDoes, SMTT(30)
<1>5. PICK w : w = x.where /\ w \in [Task -> StateLists \cup {None}]
  BY <1>0 DEF Core, Shape
<1>6. n.where[t] = None
  BY <1>2, <1>4, <1>5
<1>7. Suspended \in Lists /\ Suspended \in StateLists /\ Suspended \notin DelayedLists
  BY ListNames
<1>8. Free(n, Suspended, t)
  BY <1>6, <1>7 DEF Free
<1>9. Core(y) /\ Inserted(n, y, Suspended, t)
  BY <1>1, <1>3, <1>4, <1>7, <1>8, InsertEndDoes
<1>10. SameRest(x, y)
  BY <1>2, <1>4, <1>9 DEF Inserted, SameRest
<1>11. SameMarks(x, y)
  BY <1>2, <1>4, <1>9 DEF Inserted, SameMarks
<1>12. y.where = [x.where EXCEPT ![t] = Suspended]
  <2>1. y.where = [n.where EXCEPT ![t] = Suspended]
    BY <1>7, <1>9 DEF Inserted
  <2>2. QED BY <1>2, <1>4, <1>5, <2>1
<1>13. y.evt = [x.evt EXCEPT ![t] = None]
  BY <1>2, <1>4, <1>7, <1>9 DEF Inserted
<1>14. \A u \in Task \ {t} : y.where[u] = x.where[u] /\ y.wake[u] = x.wake[u] /\ y.left[u] = x.left[u]
  <2>1. y.wake = n.wake /\ y.left = n.left
    BY <1>9 DEF Inserted
  <2>2. QED BY <1>2, <1>4, <1>5, <1>12, <2>1
<1>15. y.where[t] = Suspended
  BY <1>5, <1>12
<1>16. Right(y) /\ Left(y) /\ Early(y)
  BY <1>0, <1>10, <1>11, <1>14, <1>15, MovedKeeps DEF Data
<1>17. QED BY <1>9, <1>10, <1>11, <1>12, <1>13, <1>16 DEF Data, Core

\* The remainder of a sum of two tick counts.
LEMMA TickSum ==
  ASSUME NEW a \in TickType, NEW n \in TickType, NEW w, w = (a + n) % TickMod
  PROVE  /\ w \in TickType
         /\ w < a => w = a + n - TickMod
         /\ ~(w < a) => w = a + n
<1>1. TickMod \in Nat /\ TickMod > 0 /\ a \in Nat /\ n \in Nat /\ a < TickMod /\ n < TickMod
  BY TasksAssumption DEF TickType
<1>2. CASE a + n < TickMod
  BY <1>1, <1>2 DEF TickType
<1>3. CASE a + n >= TickMod
  <2>1. (a + n) % TickMod = a + n - TickMod
    BY <1>1, <1>3
  <2>2. QED BY <1>1, <1>3, <2>1 DEF TickType
<1>4. QED BY <1>1, <1>2, <1>3

\* prvAddCurrentTaskToDelayedList: the task wakes when it asked to.
LEMMA DelayDoes ==
  ASSUME NEW x, Data(x), x.where[x.cur] # None, NEW n \in TickType \ {0}, NEW b \in BOOLEAN,
         NEW y, y = prvAddCurrentTaskToDelayedList(x, n, b)
  PROVE  /\ Data(y) /\ SameRest(x, y) /\ y.top = x.top /\ y.yield = x.yield /\ y.evt = x.evt
         /\ y.where = [x.where EXCEPT ![x.cur] = y.where[x.cur]]
         /\ y.where[x.cur] \in {Delayed(0), Delayed(1), Suspended}
<1>0. Core(x) /\ Right(x) /\ Left(x) /\ Early(x)
  BY DEF Data, Core
<1>1. PICK t \in Task : t = x.cur
  BY <1>0 DEF Core, Shape
<1>2. PICK r : r = RemoveState(x, t) OBVIOUS
<1>3. /\ Core(r) /\ SameRest(x, r) /\ SameMarks(x, r)
      /\ r.where = [x.where EXCEPT ![t] = None] /\ r.evt = x.evt
      /\ \A u \in Task \ {t} : r.wake[u] = x.wake[u] /\ r.left[u] = x.left[u]
  BY <1>0, <1>1, <1>2, RemoveStateDoes, SMTT(30)
<1>4. PICK w : w = x.where /\ w \in [Task -> StateLists \cup {None}]
  BY <1>0 DEF Core, Shape
<1>5. r.where[t] = None /\ \A u \in Task \ {t} : r.where[u] = x.where[u]
  BY <1>3, <1>4
<1>6. Right(r) /\ Left(r) /\ Early(r)
  BY <1>0, <1>3, <1>5, MovedKeeps
<1>7. PICK wake : wake = (x.tick + n) % TickMod OBVIOUS
<1>8. x.tick \in TickType /\ x.del \in {0, 1} /\ x.unblock \in TickType /\ x.top \in Priorities
  BY <1>0 DEF Core, Shape
<1>9. /\ wake \in TickType
      /\ wake < x.tick => wake = x.tick + n - TickMod
      /\ ~(wake < x.tick) => wake = x.tick + n
  BY <1>7, <1>8, TickSum
<1>10. CASE n = portMAX_DELAY /\ b
  <2>1. y = vListInsertEnd(r, Suspended, t)
    BY <1>1, <1>2, <1>10 DEF prvAddCurrentTaskToDelayedList
  <2>2. Suspended \in Lists /\ Suspended \in StateLists /\ Suspended \notin DelayedLists
    BY ListNames
  <2>3. Free(r, Suspended, t)
    BY <1>5, <2>2 DEF Free
  <2>4. Core(y) /\ Inserted(r, y, Suspended, t)
    BY <1>3, <2>1, <2>2, <2>3, InsertEndDoes
  <2>5. /\ SameRest(r, y) /\ SameMarks(r, y) /\ y.wake = r.wake /\ y.left = r.left
        /\ y.where = [r.where EXCEPT ![t] = Suspended] /\ y.evt = r.evt
    BY <2>2, <2>4 DEF Inserted
  <2>6. y.where = [x.where EXCEPT ![t] = Suspended] /\ y.where[t] = Suspended
    BY <1>3, <1>4, <2>5
  <2>7. \A u \in Task \ {t} : y.where[u] = r.where[u] /\ y.wake[u] = r.wake[u] /\ y.left[u] = r.left[u]
    BY <1>4, <1>5, <2>5, <2>6
  <2>8. Right(y) /\ Left(y) /\ Early(y)
    BY <1>3, <1>6, <2>5, <2>6, <2>7, MovedKeeps
  <2>9. SameRest(x, y)
    BY <1>3, <2>5 DEF SameRest
  <2>10. y.top = x.top /\ y.yield = x.yield /\ y.evt = x.evt
    BY <1>3, <2>5 DEF SameMarks
  <2>11. QED BY <1>1, <2>4, <2>6, <2>8, <2>9, <2>10 DEF Data, Core
<1>11. CASE ~(n = portMAX_DELAY /\ b)
  <2>1. PICK d \in {0, 1} : d = IF wake < x.tick THEN 1 - x.del ELSE x.del
    BY <1>8
  <2>2. PICK m : m = [r EXCEPT !.wake[t] = wake, !.left[t] = n] OBVIOUS
  <2>3. DOMAIN r = Fields
    BY <1>3 DEF Core, Shape
  <2>4. /\ DOMAIN m = Fields /\ m.wake = [r.wake EXCEPT ![t] = wake] /\ m.left = [r.left EXCEPT ![t] = n]
        /\ m.list = r.list /\ m.index = r.index /\ m.where = r.where /\ m.evt = r.evt
    BY <2>2, <2>3 DEF Fields
  <2>5. SameRest(r, m)
    BY <2>2, <2>3 DEF Fields, SameRest
  <2>6. SameMarks(r, m)
    BY <2>2, <2>3 DEF Fields, SameMarks
  <2>7. /\ m.wake \in [Task -> TickType] /\ m.left \in [Task -> Int]
        /\ m.wake[t] = wake /\ m.left[t] = n
        /\ \A u \in Task \ {t} : m.wake[u] = r.wake[u] /\ m.left[u] = r.left[u]
    <3>1. r.wake \in [Task -> TickType] /\ r.left \in [Task -> Int] /\ n \in Int
      BY <1>3 DEF Core, Shape, TickType
    <3>2. QED BY <1>9, <2>4, <3>1
  <2>8. Shape(m)
    BY <1>3, <2>4, <2>5, <2>6, <2>7 DEF Core, Shape, SameRest, SameMarks
  <2>9. Core(m)
    <3>1. r.where[t] \notin DelayedLists
      BY <1>5, ListNames DEF DelayedLists
    <3>2. \A u \in Task : r.where[u] \in DelayedLists => m.wake[u] = r.wake[u]
      BY <2>7, <3>1
    <3>3. QED BY <1>3, <2>4, <2>8, <3>2, CoreSame
  <2>10. Delayed(d) \in DelayedLists /\ m.where[t] = None
    BY <1>5, <2>4 DEF DelayedLists
  <2>11. PICK z : z = vListInsert(m, Delayed(d), t) OBVIOUS
  <2>12. Core(z) /\ Inserted(m, z, Delayed(d), t)
    BY <2>9, <2>10, <2>11, InsertSortedDoes
  <2>13. /\ SameRest(m, z) /\ SameMarks(m, z) /\ z.wake = m.wake /\ z.left = m.left
         /\ z.where = [m.where EXCEPT ![t] = Delayed(d)] /\ z.evt = m.evt
    BY <2>10, <2>12, ListNames DEF Inserted
  <2>14. SameRest(x, z)
    BY <1>3, <2>5, <2>13 DEF SameRest
  <2>15. SameMarks(x, z) /\ z.evt = x.evt
    BY <1>3, <2>4, <2>6, <2>13 DEF SameMarks
  <2>16. /\ z.where = [x.where EXCEPT ![t] = Delayed(d)] /\ z.where[t] = Delayed(d)
         /\ \A u \in Task \ {t} : z.where[u] = r.where[u]
    BY <1>3, <1>4, <2>4, <2>13
  <2>17. PICK ub : ub = IF wake < x.tick THEN x.unblock ELSE IF wake < x.unblock THEN wake ELSE x.unblock
    OBVIOUS
  <2>18. DOMAIN z = Fields
    BY <2>12 DEF Core, Shape
  <2>19. /\ DOMAIN y = Fields /\ y.unblock = ub /\ y.list = z.list /\ y.index = z.index /\ y.top = z.top
         /\ y.yield = z.yield /\ y.where = z.where /\ y.evt = z.evt /\ y.wake = z.wake /\ y.left = z.left
         /\ SameRest(z, y)
    <3>1. CASE wake < x.tick
      <4>1. y = z
        BY <1>1, <1>2, <1>7, <1>11, <2>1, <2>2, <2>11, <3>1 DEF prvAddCurrentTaskToDelayedList
      <4>2. QED BY <2>15, <2>17, <2>18, <3>1, <4>1 DEF SameRest, SameMarks
    <3>2. CASE ~(wake < x.tick)
      <4>1. y = [z EXCEPT !.unblock = IF wake < @ THEN wake ELSE @]
        BY <1>1, <1>2, <1>7, <1>11, <2>1, <2>2, <2>11, <3>2 DEF prvAddCurrentTaskToDelayedList
      <4>2. z.unblock = x.unblock
        BY <2>15 DEF SameMarks
      <4>3. SameRest(z, y)
        BY <2>18, <4>1 DEF Fields, SameRest
      <4>4. QED BY <2>17, <2>18, <3>2, <4>1, <4>2, <4>3 DEF Fields
    <3>3. QED BY <3>1, <3>2
  <2>20. ub \in TickType /\ ub <= x.unblock /\ (~(wake < x.tick) => ub <= wake)
    <3>1. wake \in Int /\ x.unblock \in Int /\ x.tick \in Int
      BY <1>8, <1>9 DEF TickType
    <3>2. QED BY <1>8, <1>9, <2>17, <3>1
  <2>21. Shape(y)
    BY <2>12, <2>19, <2>20 DEF Core, Shape, SameRest
  <2>22. Core(y)
    BY <2>12, <2>19, <2>21, CoreSame
  <2>23. y.prio = r.prio /\ y.top = r.top /\ y.tick = r.tick /\ y.del = r.del /\ y.tick = x.tick
         /\ y.del = x.del /\ r.unblock = x.unblock
    BY <1>3, <2>5, <2>6, <2>13, <2>19 DEF SameRest, SameMarks
  <2>24. \A u \in Task \ {t} : y.where[u] = r.where[u] /\ y.wake[u] = r.wake[u] /\ y.left[u] = r.left[u]
    <3>1. y.where = z.where /\ y.wake = m.wake /\ y.left = m.left
      BY <2>13, <2>19
    <3>2. QED BY <2>7, <2>16, <3>1
  <2>25. y.where[t] = Delayed(d) /\ y.wake[t] = wake /\ y.left[t] = n
    BY <2>7, <2>13, <2>16, <2>19
  <2>26. Right(y)
    <3>1. \A p : y.where[t] # Ready(p)
      BY <2>25, ListNames
    <3>2. QED BY <1>6, <2>23, <2>24, <3>1 DEF Right
  <2>27. d = x.del <=> ~(wake < x.tick)
    BY <1>8, <2>1
  <2>28. d = 1 - x.del <=> wake < x.tick
    BY <1>8, <2>1
  <2>29. x.tick \in Int /\ n \in Int /\ n > 0 /\ TickMod \in Int /\ wake \in Int
    BY <1>8, <1>9, TasksAssumption DEF TickType
  <2>30. Left(y)
    <3>1. ASSUME NEW u \in Task
          PROVE  /\ y.where[u] = Delayed(y.del) => y.wake[u] >= y.tick /\ y.left[u] = y.wake[u] - y.tick
                 /\ y.where[u] = Delayed(1 - y.del) =>
                      y.wake[u] < y.tick /\ y.left[u] = y.wake[u] - y.tick + TickMod
      <4>1. CASE u = t
        <5>1. y.where[u] = Delayed(y.del) => d = x.del
          BY <2>23, <2>25, <4>1, ListNames, ZenonT(40)
        <5>2. y.where[u] = Delayed(1 - y.del) => d = 1 - x.del
          BY <2>23, <2>25, <4>1, ListNames
        <5>3. QED BY <1>9, <2>23, <2>25, <2>27, <2>28, <2>29, <4>1, <5>1, <5>2
      <4>2. CASE u # t
        BY <1>6, <2>23, <2>24, <4>2 DEF Left
      <4>3. QED BY <4>1, <4>2
    <3>2. QED BY <3>1 DEF Left
  <2>31. Early(y)
    <3>1. ASSUME NEW u \in Task, y.where[u] = Delayed(y.del) PROVE y.wake[u] > y.tick /\ y.unblock <= y.wake[u]
      <4>1. CASE u = t
        <5>1. d = x.del
          BY <2>23, <2>25, <3>1, <4>1, ListNames
        <5>2. QED BY <1>9, <2>19, <2>20, <2>23, <2>25, <2>27, <2>29, <4>1, <5>1
      <4>2. CASE u # t
        <5>1. r.where[u] = Delayed(r.del)
          BY <2>23, <2>24, <3>1, <4>2
        <5>2. y.wake[u] > y.tick /\ x.unblock <= y.wake[u]
          BY <1>6, <2>23, <2>24, <4>2, <5>1 DEF Early
        <5>3. ub \in Int /\ x.unblock \in Int /\ y.wake[u] \in Int
          BY <1>8, <2>20, <2>21, SMTT(30) DEF TickType, Shape
        <5>4. QED BY <2>19, <2>20, <5>2, <5>3
      <4>3. QED BY <4>1, <4>2
    <3>2. QED BY <3>1 DEF Early
  <2>32. SameRest(x, y)
    BY <2>14, <2>19 DEF SameRest
  <2>33. y.top = x.top /\ y.yield = x.yield /\ y.evt = x.evt
    BY <2>15, <2>19 DEF SameMarks
  <2>34. Delayed(d) \in {Delayed(0), Delayed(1), Suspended}
    BY <2>1
  <2>35. QED
    BY <1>1, <2>16, <2>19, <2>22, <2>25, <2>26, <2>30, <2>31, <2>32, <2>33, <2>34 DEF Data, Core
<1>12. QED BY <1>10, <1>11
-----------------------------------------------------------------------------
(* Loops over lists *)

WakeTurns(b, s) == ForEach(WakeOne, b, s)
ReadyTurns(b, s) == ForEach(ReadyPended, b, s)
TickTurns(b, s) == ForEach(PendedTick, b, s)
CreateTurns(b, s) == ForEach(CreateOne, b, s)

(* f is the values that the loop on s goes through, from b on. *)
WakeRun(f, b, s, l) ==
  f[0] = b /\ (\A n \in 1 .. l : f[n] = WakeOne(f[n - 1], s[n])) /\ f[l] = WakeTurns(b, s)
ReadyRun(f, b, s, l) ==
  f[0] = b /\ (\A n \in 1 .. l : f[n] = ReadyPended(f[n - 1], s[n])) /\ f[l] = ReadyTurns(b, s)
TickRun(f, b, s, l) ==
  f[0] = b /\ (\A n \in 1 .. l : f[n] = PendedTick(f[n - 1], s[n])) /\ f[l] = TickTurns(b, s)
CreateRun(f, b, s, l) ==
  f[0] = b /\ (\A n \in 1 .. l : f[n] = CreateOne(f[n - 1], s[n])) /\ f[l] = CreateTurns(b, s)

\* The values that the loop of xTaskIncrementTick over the due tasks goes through.
LEMMA WakeOneLoop ==
  ASSUME NEW b, NEW s, NEW l \in Nat, l = Len(s)
  PROVE  \E f : WakeRun(f, b, s, l)
<1> DEFINE Rec(g, m) == g = [n \in 0 .. m |-> IF n = 0 THEN b ELSE WakeOne(g[n - 1], s[n])]
           S == {m \in Nat : \E g : Rec(g, m)}
<1>1. 0 \in S
  <2>1. PICK g : g = [n \in 0 .. 0 |-> b] OBVIOUS
  <2>2. Rec(g, 0)
    BY <2>1
  <2>3. QED BY <2>2
<1>2. ASSUME NEW m \in 0 .. l - 1, m \in S PROVE m + 1 \in S
  <2>1. PICK g : Rec(g, m)
    BY <1>2
  <2>2. PICK a : a = WakeOne(g[m], s[m + 1]) OBVIOUS
  <2>3. PICK h : h = [n \in 0 .. m + 1 |-> IF n = m + 1 THEN a ELSE g[n]] OBVIOUS
  <2>4. h[m + 1] = a /\ \A n \in 0 .. m : h[n] = g[n]
    BY <2>3
  <2>5. ASSUME NEW n \in 0 .. m + 1 PROVE h[n] = IF n = 0 THEN b ELSE WakeOne(h[n - 1], s[n])
    <3>1. CASE n = m + 1
      <4>1. h[n - 1] = g[m] /\ n # 0
        BY <2>4, <3>1
      <4>2. QED BY <2>2, <2>4, <3>1, <4>1
    <3>2. CASE n # m + 1
      <4>1. n \in 0 .. m
        BY <3>2
      <4>2. g[n] = IF n = 0 THEN b ELSE WakeOne(g[n - 1], s[n])
        BY <2>1, <4>1
      <4>3. n # 0 => n - 1 \in 0 .. m
        BY <4>1
      <4>4. QED BY <2>4, <4>1, <4>2, <4>3
    <3>3. QED BY <3>1, <3>2
  <2>6. h = [n \in 0 .. m + 1 |-> IF n = 0 THEN b ELSE WakeOne(h[n - 1], s[n])]
    BY <2>3, <2>5
  <2>7. QED BY <2>6
<1>3. l \in S
  <2> HIDE DEF S
  <2>1. 0 .. l \subseteq S
    BY <1>1, <1>2, UpTo
  <2>2. QED BY <2>1
<1>4. PICK f : f = CHOOSE g : Rec(g, l) OBVIOUS
<1>5. Rec(f, l)
  BY <1>3, <1>4
<1>6. WakeTurns(b, s) = f[l]
  BY <1>4 DEF ForEach, WakeTurns
<1>7. f[0] = b /\ \A n \in 1 .. l : f[n] = WakeOne(f[n - 1], s[n])
  BY <1>5
<1>8. WakeRun(f, b, s, l)
  BY <1>6, <1>7 DEF WakeRun
<1>9. QED BY <1>8

\* The values that the loop of xTaskResumeAll over xPendingReadyList goes through.
LEMMA ReadyPendedLoop ==
  ASSUME NEW b, NEW s, NEW l \in Nat, l = Len(s)
  PROVE  \E f : ReadyRun(f, b, s, l)
<1> DEFINE Rec(g, m) == g = [n \in 0 .. m |-> IF n = 0 THEN b ELSE ReadyPended(g[n - 1], s[n])]
           S == {m \in Nat : \E g : Rec(g, m)}
<1>1. 0 \in S
  <2>1. PICK g : g = [n \in 0 .. 0 |-> b] OBVIOUS
  <2>2. Rec(g, 0)
    BY <2>1
  <2>3. QED BY <2>2
<1>2. ASSUME NEW m \in 0 .. l - 1, m \in S PROVE m + 1 \in S
  <2>1. PICK g : Rec(g, m)
    BY <1>2
  <2>2. PICK a : a = ReadyPended(g[m], s[m + 1]) OBVIOUS
  <2>3. PICK h : h = [n \in 0 .. m + 1 |-> IF n = m + 1 THEN a ELSE g[n]] OBVIOUS
  <2>4. h[m + 1] = a /\ \A n \in 0 .. m : h[n] = g[n]
    BY <2>3
  <2>5. ASSUME NEW n \in 0 .. m + 1 PROVE h[n] = IF n = 0 THEN b ELSE ReadyPended(h[n - 1], s[n])
    <3>1. CASE n = m + 1
      <4>1. h[n - 1] = g[m] /\ n # 0
        BY <2>4, <3>1
      <4>2. QED BY <2>2, <2>4, <3>1, <4>1
    <3>2. CASE n # m + 1
      <4>1. n \in 0 .. m
        BY <3>2
      <4>2. g[n] = IF n = 0 THEN b ELSE ReadyPended(g[n - 1], s[n])
        BY <2>1, <4>1
      <4>3. n # 0 => n - 1 \in 0 .. m
        BY <4>1
      <4>4. QED BY <2>4, <4>1, <4>2, <4>3
    <3>3. QED BY <3>1, <3>2
  <2>6. h = [n \in 0 .. m + 1 |-> IF n = 0 THEN b ELSE ReadyPended(h[n - 1], s[n])]
    BY <2>3, <2>5
  <2>7. QED BY <2>6
<1>3. l \in S
  <2> HIDE DEF S
  <2>1. 0 .. l \subseteq S
    BY <1>1, <1>2, UpTo
  <2>2. QED BY <2>1
<1>4. PICK f : f = CHOOSE g : Rec(g, l) OBVIOUS
<1>5. Rec(f, l)
  BY <1>3, <1>4
<1>6. ReadyTurns(b, s) = f[l]
  BY <1>4 DEF ForEach, ReadyTurns
<1>7. f[0] = b /\ \A n \in 1 .. l : f[n] = ReadyPended(f[n - 1], s[n])
  BY <1>5
<1>8. ReadyRun(f, b, s, l)
  BY <1>6, <1>7 DEF ReadyRun
<1>9. QED BY <1>8

\* The values that the loop of xTaskResumeAll over the pended ticks goes through.
LEMMA PendedTickLoop ==
  ASSUME NEW b, NEW s, NEW l \in Nat, l = Len(s)
  PROVE  \E f : TickRun(f, b, s, l)
<1> DEFINE Rec(g, m) == g = [n \in 0 .. m |-> IF n = 0 THEN b ELSE PendedTick(g[n - 1], s[n])]
           S == {m \in Nat : \E g : Rec(g, m)}
<1>1. 0 \in S
  <2>1. PICK g : g = [n \in 0 .. 0 |-> b] OBVIOUS
  <2>2. Rec(g, 0)
    BY <2>1
  <2>3. QED BY <2>2
<1>2. ASSUME NEW m \in 0 .. l - 1, m \in S PROVE m + 1 \in S
  <2>1. PICK g : Rec(g, m)
    BY <1>2
  <2>2. PICK a : a = PendedTick(g[m], s[m + 1]) OBVIOUS
  <2>3. PICK h : h = [n \in 0 .. m + 1 |-> IF n = m + 1 THEN a ELSE g[n]] OBVIOUS
  <2>4. h[m + 1] = a /\ \A n \in 0 .. m : h[n] = g[n]
    BY <2>3
  <2>5. ASSUME NEW n \in 0 .. m + 1 PROVE h[n] = IF n = 0 THEN b ELSE PendedTick(h[n - 1], s[n])
    <3>1. CASE n = m + 1
      <4>1. h[n - 1] = g[m] /\ n # 0
        BY <2>4, <3>1
      <4>2. QED BY <2>2, <2>4, <3>1, <4>1
    <3>2. CASE n # m + 1
      <4>1. n \in 0 .. m
        BY <3>2
      <4>2. g[n] = IF n = 0 THEN b ELSE PendedTick(g[n - 1], s[n])
        BY <2>1, <4>1
      <4>3. n # 0 => n - 1 \in 0 .. m
        BY <4>1
      <4>4. QED BY <2>4, <4>1, <4>2, <4>3
    <3>3. QED BY <3>1, <3>2
  <2>6. h = [n \in 0 .. m + 1 |-> IF n = 0 THEN b ELSE PendedTick(h[n - 1], s[n])]
    BY <2>3, <2>5
  <2>7. QED BY <2>6
<1>3. l \in S
  <2> HIDE DEF S
  <2>1. 0 .. l \subseteq S
    BY <1>1, <1>2, UpTo
  <2>2. QED BY <2>1
<1>4. PICK f : f = CHOOSE g : Rec(g, l) OBVIOUS
<1>5. Rec(f, l)
  BY <1>3, <1>4
<1>6. TickTurns(b, s) = f[l]
  BY <1>4 DEF ForEach, TickTurns
<1>7. f[0] = b /\ \A n \in 1 .. l : f[n] = PendedTick(f[n - 1], s[n])
  BY <1>5
<1>8. TickRun(f, b, s, l)
  BY <1>6, <1>7 DEF TickRun
<1>9. QED BY <1>8

\* The values that the loop of main over the tasks it creates goes through.
LEMMA CreateOneLoop ==
  ASSUME NEW b, NEW s, NEW l \in Nat, l = Len(s)
  PROVE  \E f : CreateRun(f, b, s, l)
<1> DEFINE Rec(g, m) == g = [n \in 0 .. m |-> IF n = 0 THEN b ELSE CreateOne(g[n - 1], s[n])]
           S == {m \in Nat : \E g : Rec(g, m)}
<1>1. 0 \in S
  <2>1. PICK g : g = [n \in 0 .. 0 |-> b] OBVIOUS
  <2>2. Rec(g, 0)
    BY <2>1
  <2>3. QED BY <2>2
<1>2. ASSUME NEW m \in 0 .. l - 1, m \in S PROVE m + 1 \in S
  <2>1. PICK g : Rec(g, m)
    BY <1>2
  <2>2. PICK a : a = CreateOne(g[m], s[m + 1]) OBVIOUS
  <2>3. PICK h : h = [n \in 0 .. m + 1 |-> IF n = m + 1 THEN a ELSE g[n]] OBVIOUS
  <2>4. h[m + 1] = a /\ \A n \in 0 .. m : h[n] = g[n]
    BY <2>3
  <2>5. ASSUME NEW n \in 0 .. m + 1 PROVE h[n] = IF n = 0 THEN b ELSE CreateOne(h[n - 1], s[n])
    <3>1. CASE n = m + 1
      <4>1. h[n - 1] = g[m] /\ n # 0
        BY <2>4, <3>1
      <4>2. QED BY <2>2, <2>4, <3>1, <4>1
    <3>2. CASE n # m + 1
      <4>1. n \in 0 .. m
        BY <3>2
      <4>2. g[n] = IF n = 0 THEN b ELSE CreateOne(g[n - 1], s[n])
        BY <2>1, <4>1
      <4>3. n # 0 => n - 1 \in 0 .. m
        BY <4>1
      <4>4. QED BY <2>4, <4>1, <4>2, <4>3
    <3>3. QED BY <3>1, <3>2
  <2>6. h = [n \in 0 .. m + 1 |-> IF n = 0 THEN b ELSE CreateOne(h[n - 1], s[n])]
    BY <2>3, <2>5
  <2>7. QED BY <2>6
<1>3. l \in S
  <2> HIDE DEF S
  <2>1. 0 .. l \subseteq S
    BY <1>1, <1>2, UpTo
  <2>2. QED BY <2>1
<1>4. PICK f : f = CHOOSE g : Rec(g, l) OBVIOUS
<1>5. Rec(f, l)
  BY <1>3, <1>4
<1>6. CreateTurns(b, s) = f[l]
  BY <1>4 DEF ForEach, CreateTurns
<1>7. f[0] = b /\ \A n \in 1 .. l : f[n] = CreateOne(f[n - 1], s[n])
  BY <1>5
<1>8. CreateRun(f, b, s, l)
  BY <1>6, <1>7 DEF CreateRun
<1>9. QED BY <1>8
-----------------------------------------------------------------------------
(* The tick *)

(* y is x with the tasks of U made ready. *)
Woken(x, y, U) ==
  /\ Core(y) /\ Right(y) /\ Left(y) /\ SameRest(x, y) /\ y.unblock = x.unblock
  /\ \A u \in U : y.where[u] = Ready(x.prio[u]) /\ y.evt[u] = None
  /\ \A u \in Task \ U : /\ y.where[u] = x.where[u] /\ y.evt[u] = x.evt[u]
                         /\ y.wake[u] = x.wake[u] /\ y.left[u] = x.left[u]

\* One turn of a loop that readies tasks.
LEMMA WokenStep ==
  ASSUME NEW x, NEW y, NEW U, U \subseteq Task, Woken(x, y, U), NEW t \in Task, NEW z, Readied(y, z, t, None)
  PROVE  Woken(x, z, U \cup {t})
<1>1. Core(y) /\ Right(y) /\ Left(y)
  BY DEF Woken
<1>2. Right(z) /\ Left(z)
  <2>1. \A u \in Task \ {t}, p \in Priorities : y.where[u] = Ready(p) => p = y.prio[u] /\ p <= y.top
    BY <1>1 DEF Right
  <2>2. QED BY <1>1, <2>1, ReadiedKeeps
<1>3. Core(z) /\ SameRest(x, z) /\ z.unblock = x.unblock
  BY DEF Readied, Woken, SameRest
<1>4. y.where \in [Task -> StateLists \cup {None}] /\ y.evt \in [Task -> EventLists \cup {Pending, None}]
  BY <1>1 DEF Core, Shape
<1>5. z.where[t] = Ready(x.prio[t]) /\ z.evt[t] = None
  BY <1>4 DEF Readied, Woken, SameRest
<1>6. \A u \in Task \ {t} : /\ z.where[u] = y.where[u] /\ z.evt[u] = y.evt[u]
                            /\ z.wake[u] = y.wake[u] /\ z.left[u] = y.left[u]
  BY <1>4 DEF Readied
<1>7. \A u \in U \cup {t} : z.where[u] = Ready(x.prio[u]) /\ z.evt[u] = None
  BY <1>5, <1>6 DEF Woken
<1>8. \A u \in Task \ (U \cup {t}) : /\ z.where[u] = x.where[u] /\ z.evt[u] = x.evt[u]
                                     /\ z.wake[u] = x.wake[u] /\ z.left[u] = x.left[u]
  BY <1>6 DEF Woken
<1>9. QED BY <1>2, <1>3, <1>7, <1>8 DEF Woken

\* The loop over the due tasks.
LEMMA WakeAllDoes ==
  ASSUME NEW x, Core(x), Right(x), Left(x), NEW due \in Seq(Task),
         \A i, j \in DOMAIN due : due[i] = due[j] => i = j,
         \A i \in DOMAIN due : x.where[due[i]] # None,
         NEW r, r = WakeAll(x, due)
  PROVE  /\ r = [k |-> r.k, switch |-> r.switch] /\ r.switch \in BOOLEAN
         /\ Woken(x, r.k, {due[i] : i \in DOMAIN due}) /\ r.k.yield = x.yield
         /\ x.preempt = 1 /\ ~r.switch => \A i \in DOMAIN due : ~(x.prio[due[i]] > x.prio[x.cur])
<1>1. PICK l \in Nat : l = Len(due) /\ DOMAIN due = 1 .. l
  OBVIOUS
<1>2. PICK b : b = [k |-> x, switch |-> FALSE] OBVIOUS
<1>3. PICK f : /\ f[0] = b
               /\ \A n \in 1 .. l : f[n] = WakeOne(f[n - 1], due[n])
               /\ f[l] = WakeTurns(b, due)
  <2>1. l = Len(due)
    BY <1>1
  <2>2. PICK f : WakeRun(f, b, due, l)
    BY <2>1, WakeOneLoop
  <2>3. QED BY <2>2, Zenon DEF WakeRun
<1>4. r = f[l]
  BY <1>2, <1>3 DEF WakeAll, WakeTurns
<1> DEFINE Done(n) == {due[i] : i \in 1 .. n}
           Good(n) == /\ f[n] = [k |-> f[n].k, switch |-> f[n].switch] /\ f[n].switch \in BOOLEAN
                      /\ Woken(x, f[n].k, Done(n)) /\ f[n].k.yield = x.yield
                      /\ x.preempt = 1 /\ ~f[n].switch => \A i \in 1 .. n : ~(x.prio[due[i]] > x.prio[x.cur])
           S == {n \in 0 .. l : Good(n)}
<1>5. 0 \in S
  <2>1. Done(0) = {}
    OBVIOUS
  <2>2. Woken(x, x, {})
    BY DEF Woken, SameRest
  <2>3. f[0].k = x /\ f[0].switch = FALSE /\ f[0] = [k |-> f[0].k, switch |-> f[0].switch]
    BY <1>2, <1>3
  <2>4. Good(0)
    BY <2>1, <2>2, <2>3
  <2>5. QED BY <2>4
<1>6. ASSUME NEW m \in 0 .. l - 1, m \in S PROVE m + 1 \in S
  <2>1. PICK n \in 1 .. l : n = m + 1 /\ n - 1 = m
    OBVIOUS
  <2>2. PICK t \in Task : t = due[n]
    BY <1>1
  <2>3. PICK y : y = f[m].k OBVIOUS
  <2>4. Woken(x, y, Done(m)) /\ y.yield = x.yield /\ f[m].switch \in BOOLEAN
    BY <1>6, <2>3
  <2>5. t \notin Done(m)
    BY <1>1, <2>1, <2>2
  <2>6. y.where[t] # None /\ Core(y) /\ SameRest(x, y)
    <3>1. x.where[t] # None
      BY <1>1, <2>2
    <3>2. QED BY <2>4, <2>5, <3>1 DEF Woken
  <2>7. PICK z : z = prvAddTaskToReadyList(RemoveEvent(RemoveState(y, t), t), t) OBVIOUS
  <2>8. Readied(y, z, t, None)
    BY <2>6, <2>7, WakeDoes
  <2>9. Done(m) \subseteq Task
    BY <1>1
  <2>10. Woken(x, z, Done(m) \cup {t})
    <3> HIDE DEF Done
    <3>1. QED BY <2>4, <2>8, <2>9, WokenStep
  <2>11. Done(m) \cup {t} = Done(n)
    BY <2>1, <2>2
  <2>12. f[n] = WakeOne(f[m], t)
    BY <1>3, <2>1, <2>2
  <2>13. f[n] = [k |-> z, switch |-> f[m].switch \/ (y.preempt = 1 /\ y.prio[t] > y.prio[y.cur])]
    BY <2>3, <2>7, <2>12 DEF WakeOne
  <2>14. f[n].k = z /\ f[n] = [k |-> f[n].k, switch |-> f[n].switch]
    BY <2>13
  <2>15. f[n].switch = (f[m].switch \/ (x.preempt = 1 /\ x.prio[t] > x.prio[x.cur]))
    BY <2>6, <2>13 DEF SameRest
  <2>16. f[n].switch \in BOOLEAN
    BY <2>15, Zenon
  <2>17. z.yield = x.yield
    BY <2>4, <2>8 DEF Readied
  <2>18. ASSUME x.preempt = 1, ~f[n].switch, NEW i \in 1 .. n PROVE ~(x.prio[due[i]] > x.prio[x.cur])
    <3>1. ~f[m].switch /\ ~(x.prio[t] > x.prio[x.cur])
      BY <2>15, <2>18, Zenon
    <3>2. CASE i = n
      BY <2>2, <3>1, <3>2
    <3>3. CASE i # n
      <4>1. i \in 1 .. m
        BY <2>1, <3>3
      <4>2. QED BY <1>6, <2>18, <3>1, <4>1
    <3>4. QED BY <3>2, <3>3
  <2>19. Good(n)
    BY <2>10, <2>11, <2>14, <2>16, <2>17, <2>18
  <2>20. QED BY <2>1, <2>19
<1>7. l \in S
  <2> HIDE DEF S
  <2>1. 0 .. l \subseteq S
    BY <1>5, <1>6, UpTo
  <2>2. QED BY <2>1
<1>8. Good(l)
  BY <1>7
<1>9. QED BY <1>1, <1>4, <1>8

(* What a tick does to the tasks: the delayed ones may have become ready. *)
Moves(x, y) ==
  \A u \in Task : \/ y.where[u] = x.where[u] /\ y.evt[u] = x.evt[u]
                  \/ x.where[u] \in DelayedLists /\ y.where[u] = Ready(x.prio[u]) /\ y.evt[u] = None

(* No task above the running one has moved. *)
Quiet(x, y) == \A u \in Task : y.where[u] # x.where[u] => ~(x.prio[u] > x.prio[x.cur])

\* WakeDue readies all that are due, and notes when the next one is.
LEMMA WakeDueDoes ==
  ASSUME NEW x, Core(x), Right(x), Left(x),
         \A u \in Task : x.where[u] = Delayed(x.del) => x.unblock <= x.wake[u],
         NEW r, r = WakeDue(x)
  PROVE  /\ r = [k |-> r.k, switch |-> r.switch] /\ r.switch \in BOOLEAN
         /\ Data(r.k) /\ SameRest(x, r.k) /\ r.k.yield = x.yield /\ Moves(x, r.k)
         /\ x.preempt = 1 /\ ~r.switch => Quiet(x, r.k)
<1>0. DOMAIN x = Fields /\ x.del \in {0, 1} /\ x.tick \in Int /\ x.unblock \in Int /\ x.wake \in [Task -> Int]
  BY DEF Core, Shape, TickType
<1>1. PICK l \in Lists : l = Delayed(x.del) /\ l \in DelayedLists /\ l \in StateLists
  BY <1>0, ListNames DEF DelayedLists
<1>2. PICK s \in Seq(Task) : s = x.list[l]
  BY DEF Core, Shape
<1>3. /\ \A i, j \in DOMAIN s : s[i] = s[j] => i = j
      /\ \A u \in Task : x.where[u] = l <=> \E i \in DOMAIN s : s[i] = u
  BY <1>1, <1>2 DEF Core, Agree, Holds
<1>4. CASE x.tick < x.unblock
  <2>1. r = [k |-> x, switch |-> FALSE]
    BY <1>4 DEF WakeDue
  <2>2. r.k = x /\ r.switch = FALSE /\ r = [k |-> r.k, switch |-> r.switch]
    BY <2>1
  <2>3. Early(x)
    BY <1>0, <1>4 DEF Early
  <2>4. Data(x) /\ SameRest(x, x) /\ Moves(x, x) /\ Quiet(x, x)
    BY <2>3 DEF Data, Core, SameRest, Moves, Quiet
  <2>5. QED BY <2>2, <2>4
<1>5. CASE ~(x.tick < x.unblock) /\ s = <<>>
  <2>1. PICK y : y = [x EXCEPT !.unblock = portMAX_DELAY] OBVIOUS
  <2>2. r = [k |-> y, switch |-> FALSE]
    BY <1>1, <1>2, <1>5, <2>1 DEF WakeDue
  <2>3. r.k = y /\ r.switch = FALSE /\ r = [k |-> r.k, switch |-> r.switch]
    BY <2>2
  <2>4. \A u \in Task : x.where[u] # l
    BY <1>3, <1>5
  <2>5. /\ DOMAIN y = Fields /\ y.unblock = portMAX_DELAY /\ y.list = x.list /\ y.index = x.index
        /\ y.where = x.where /\ y.evt = x.evt /\ y.wake = x.wake /\ y.left = x.left
        /\ y.top = x.top /\ y.yield = x.yield
    BY <1>0, <2>1 DEF Fields
  <2>6. SameRest(x, y)
    BY <1>0, <2>1 DEF Fields, SameRest
  <2>7. portMAX_DELAY \in TickType
    BY TasksAssumption DEF portMAX_DELAY, TickType
  <2>8. Shape(y)
    BY <2>5, <2>6, <2>7 DEF Core, Shape, SameRest
  <2>9. Core(y)
    BY <2>5, <2>8, CoreSame
  <2>10. Right(y)
    BY <2>5, <2>6 DEF Right, SameRest
  <2>11. Left(y)
    BY <2>5, <2>6 DEF Left, SameRest
  <2>12. Early(y)
    BY <1>1, <2>4, <2>5, <2>6 DEF Early, SameRest
  <2>13. Moves(x, y) /\ Quiet(x, y)
    BY <2>5 DEF Moves, Quiet
  <2>14. QED BY <2>3, <2>5, <2>6, <2>9, <2>10, <2>11, <2>12, <2>13 DEF Data, Core
<1>6. CASE ~(x.tick < x.unblock) /\ s # <<>>
  <2>1. PICK early : early = {j \in DOMAIN s : x.wake[s[j]] > x.tick} OBVIOUS
  <2>2. PICK due : due = IF early = {} THEN s ELSE SubSeq(s, 1, Min(early) - 1) OBVIOUS
  <2>3. /\ due \in Seq(Task)
        /\ \A j \in DOMAIN due : j \in DOMAIN s /\ due[j] = s[j]
        /\ \A j \in DOMAIN s : j \in DOMAIN due \/ x.wake[s[j]] > x.tick
    <3>1. CASE early = {}
      <4>1. due = s
        BY <2>2, <3>1
      <4>2. QED BY <4>1
    <3>2. CASE early # {}
      <4>1. early \subseteq Nat
        BY <2>1
      <4>2. \E b \in early : \A c \in early : b <= c
        BY <3>2, <4>1, Least
      <4>3. PICK e : e = Min(early) OBVIOUS
      <4>4. e \in early /\ \A c \in early : e <= c
        BY <4>2, <4>3 DEF Min
      <4>5. PICK n \in Nat : n = Len(s) /\ DOMAIN s = 1 .. n
        OBVIOUS
      <4>6. e \in 1 .. n /\ x.wake[s[e]] > x.tick
        BY <2>1, <4>4, <4>5
      <4>7. PICK m \in 0 .. n : m = e - 1
        BY <4>6
      <4>8. due = SubSeq(s, 1, m)
        BY <2>2, <3>2, <4>3, <4>7
      <4>9. /\ due \in Seq(Task) /\ Len(due) = m - 1 + 1
            /\ \A j \in 1 .. m - 1 + 1 : due[j] = s[1 + j - 1]
        <5>1. 1 \in 1 .. Len(s) + 1 /\ m \in 1 - 1 .. Len(s)
          BY <4>5, <4>7
        <5>2. QED BY <4>8, <5>1, SubSeqParts
      <4>10. DOMAIN due = 1 .. m /\ \A j \in 1 .. m : due[j] = s[j]
        BY <4>9
      <4>11. ASSUME NEW j \in 1 .. n, ~(j \in 1 .. m) PROVE x.wake[s[j]] > x.tick
        <5>1. e <= j
          BY <4>6, <4>7, <4>11
        <5>2. x.wake[s[e]] <= x.wake[s[j]]
          BY <1>1, <1>2, <4>5, <4>6, <5>1 DEF Core, Sorted
        <5>3. x.wake[s[e]] \in Int /\ x.wake[s[j]] \in Int
          BY <1>0, <4>5, <4>6
        <5>4. QED BY <1>0, <4>6, <5>2, <5>3
      <4>12. QED BY <4>5, <4>7, <4>9, <4>10, <4>11
    <3>3. QED BY <3>1, <3>2
  <2>4. /\ \A i, j \in DOMAIN due : due[i] = due[j] => i = j
        /\ \A i \in DOMAIN due : x.where[due[i]] # None
    <3>1. l # None
      BY ListNames
    <3>2. \A i \in DOMAIN due : x.where[due[i]] = l
      BY <1>3, <2>3
    <3>3. QED BY <1>3, <2>3, <3>1, <3>2
  <2>5. PICK a : a = WakeAll(x, due) OBVIOUS
  <2>6. PICK U : U = {due[i] : i \in DOMAIN due} OBVIOUS
  <2>7. /\ a = [k |-> a.k, switch |-> a.switch] /\ a.switch \in BOOLEAN
        /\ Woken(x, a.k, U) /\ a.k.yield = x.yield
        /\ x.preempt = 1 /\ ~a.switch => \A i \in DOMAIN due : ~(x.prio[due[i]] > x.prio[x.cur])
    <3>1. due \in Seq(Task)
      BY <2>3
    <3>2. /\ a = [k |-> a.k, switch |-> a.switch] /\ a.switch \in BOOLEAN
          /\ Woken(x, a.k, {due[i] : i \in DOMAIN due}) /\ a.k.yield = x.yield
          /\ x.preempt = 1 /\ ~a.switch => \A i \in DOMAIN due : ~(x.prio[due[i]] > x.prio[x.cur])
      BY <2>4, <2>5, <3>1, WakeAllDoes, ZenonT(40)
    <3>3. QED BY <2>6, <3>2, Zenon
  <2>8. r = [a EXCEPT !.k = prvResetNextTaskUnblockTime(@)]
    <3>1. {j \in DOMAIN x.list[Delayed(x.del)] : x.wake[x.list[Delayed(x.del)][j]] > x.tick} = early
      BY <1>1, <1>2, <2>1
    <3>2. due = IF early = {} THEN x.list[Delayed(x.del)] ELSE SubSeq(x.list[Delayed(x.del)], 1, Min(early) - 1)
      BY <1>1, <1>2, <2>2
    <3>3. QED BY <1>1, <1>2, <1>6, <2>5, <3>1, <3>2 DEF WakeDue
  <2>9. PICK w : w = a.k OBVIOUS
  <2>10. PICK y : y = prvResetNextTaskUnblockTime(w) OBVIOUS
  <2>11. r.k = y /\ r.switch = a.switch /\ r = [k |-> r.k, switch |-> r.switch]
    <3>1. DOMAIN a = {"k", "switch"}
      BY <2>7
    <3>2. r.k = y /\ r.switch = a.switch /\ DOMAIN r = {"k", "switch"}
      BY <2>8, <2>9, <2>10, <3>1
    <3>3. r = [f \in {"k", "switch"} |-> r[f]]
      BY <2>8, <3>1
    <3>4. QED BY <3>2, <3>3
  <2>12. Woken(x, w, U)
    BY <2>7, <2>9
  <2>13. /\ Core(y) /\ SameRest(w, y) /\ y.top = w.top /\ y.yield = w.yield /\ y.list = w.list
         /\ y.where = w.where /\ y.evt = w.evt /\ y.wake = w.wake /\ y.left = w.left
         /\ \A u \in Task : w.where[u] = Delayed(w.del) => y.unblock <= w.wake[u]
    <3>1. Core(w)
      BY <2>12 DEF Woken
    <3>2. QED BY <2>10, <3>1, ResetDoes
  <2>14. SameRest(x, y) /\ y.yield = x.yield
    BY <2>7, <2>9, <2>12, <2>13 DEF Woken, SameRest
  <2>15. Right(y)
    BY <2>12, <2>13 DEF Woken, Right, SameRest
  <2>16. Left(y)
    BY <2>12, <2>13 DEF Woken, Left, SameRest
  <2>17. Early(y)
    <3>1. ASSUME NEW u \in Task, y.where[u] = Delayed(y.del) PROVE y.wake[u] > y.tick /\ y.unblock <= y.wake[u]
      <4>1. y.del = x.del /\ w.del = x.del /\ y.tick = x.tick
        BY <2>12, <2>13, <2>14 DEF SameRest, Woken
      <4>2. w.where[u] = Delayed(x.del)
        BY <2>13, <3>1, <4>1
      <4>3. u \notin U
        BY <2>12, <4>2, ListNames DEF Woken
      <4>4. x.where[u] = l /\ w.wake[u] = x.wake[u]
        BY <1>1, <2>12, <4>2, <4>3 DEF Woken
      <4>5. PICK j \in DOMAIN s : s[j] = u
        BY <1>3, <4>4
      <4>6. j \notin DOMAIN due
        BY <2>3, <2>6, <4>3, <4>5
      <4>7. x.wake[u] > x.tick
        BY <2>3, <4>5, <4>6
      <4>8. QED BY <2>13, <4>1, <4>2, <4>4, <4>7
    <3>2. QED BY <3>1 DEF Early
  <2>18. \A u \in U : x.where[u] = l
    BY <1>3, <2>3, <2>6
  <2>19. Moves(x, y)
    <3>1. ASSUME NEW u \in Task, u \in U
          PROVE  x.where[u] \in DelayedLists /\ y.where[u] = Ready(x.prio[u]) /\ y.evt[u] = None
      BY <1>1, <2>12, <2>13, <2>18, <3>1 DEF Woken
    <3>2. ASSUME NEW u \in Task, u \notin U PROVE y.where[u] = x.where[u] /\ y.evt[u] = x.evt[u]
      BY <2>12, <2>13, <3>2 DEF Woken
    <3>3. QED BY <3>1, <3>2 DEF Moves
  <2>20. ASSUME x.preempt = 1, ~r.switch PROVE Quiet(x, y)
    <3>1. ~a.switch
      BY <2>11, <2>20
    <3>2. \A i \in DOMAIN due : ~(x.prio[due[i]] > x.prio[x.cur])
      BY <2>7, <2>20, <3>1
    <3>3. \A u \in U : ~(x.prio[u] > x.prio[x.cur])
      BY <2>6, <3>2
    <3>4. \A u \in Task : u \notin U => y.where[u] = x.where[u]
      BY <2>12, <2>13 DEF Woken
    <3>5. QED BY <3>3, <3>4 DEF Quiet
  <2>21. r.switch \in BOOLEAN
    BY <2>7, <2>11
  <2>22. Data(y)
    BY <2>13, <2>15, <2>16, <2>17 DEF Data, Core
  <2>23. QED BY <2>11, <2>14, <2>19, <2>20, <2>21, <2>22
<1>7. QED BY <1>4, <1>5, <1>6

(* Fields that the passing of time leaves alone. *)
SameTasks(x, y) ==
  /\ y.prio = x.prio /\ y.state = x.state /\ y.value = x.value /\ y.cur = x.cur
  /\ y.started = x.started /\ y.susp = x.susp /\ y.pended = x.pended /\ y.fault = x.fault
  /\ y.preempt = x.preempt /\ y.slicing = x.slicing

(* x after one tick of the clock. *)
Counted(x, t1) ==
  [x EXCEPT !.tick = t1,
     !.left = [t \in Task |-> IF x.where[t] \in {Delayed(0), Delayed(1)} THEN @[t] - 1 ELSE @[t]]]

(* One tick later, and n ticks later: the count of the wraps goes with it. *)
OneLater(x, y) ==
  \/ y.tick = x.tick + 1 /\ y.overflows = x.overflows
  \/ y.tick = x.tick + 1 - TickMod /\ y.overflows = (x.overflows + 1) % OverflowMod
Later(x, y, n) ==
  \E e \in Nat : y.tick = x.tick + n - TickMod * e /\ y.overflows = (x.overflows + e) % OverflowMod

\* The count goes on; where it wraps, the delayed lists are exchanged, and the
\* one that is put aside is empty.
LEMMA AdvanceDoes ==
  ASSUME NEW x, Data(x), NEW t1, t1 = (x.tick + 1) % TickMod,
         NEW c, c = Counted(x, t1),
         NEW y, y = IF t1 = 0 THEN taskSWITCH_DELAYED_LISTS(c) ELSE c
  PROVE  /\ Core(y) /\ Right(y) /\ Left(y) /\ SameTasks(x, y) /\ y.tick = t1 /\ y.yield = x.yield
         /\ y.where = x.where /\ y.evt = x.evt /\ OneLater(x, y)
         /\ \A u \in Task : y.where[u] = Delayed(y.del) => y.unblock <= y.wake[u]
<1>0. Core(x) /\ Right(x) /\ Left(x) /\ Early(x)
  BY DEF Data, Core
<1>1. /\ DOMAIN x = Fields /\ x.del \in {0, 1} /\ x.tick \in TickType /\ x.unblock \in TickType
      /\ x.wake \in [Task -> TickType] /\ x.left \in [Task -> Int]
      /\ x.where \in [Task -> StateLists \cup {None}]
  BY <1>0 DEF Core, Shape
<1>2. TickMod \in Nat /\ TickMod > 2 /\ x.tick \in Nat /\ x.tick < TickMod
  BY <1>1, TasksAssumption DEF TickType
<1>3. t1 \in TickType /\ (t1 = 0 <=> x.tick = TickMod - 1) /\ (t1 # 0 => t1 = x.tick + 1)
  <2>1. CASE x.tick = TickMod - 1
    <3>1. x.tick + 1 = TickMod
      BY <1>2, <2>1
    <3>2. t1 = 0
      BY <1>2, <3>1
    <3>3. QED BY <1>2, <2>1, <3>2 DEF TickType
  <2>2. CASE x.tick # TickMod - 1
    <3>1. t1 = x.tick + 1
      BY <1>2, <2>2
    <3>2. QED BY <1>2, <2>2, <3>1 DEF TickType
  <2>3. QED BY <2>1, <2>2
<1>4. PICK lf : lf = [t \in Task |-> IF x.where[t] \in {Delayed(0), Delayed(1)} THEN x.left[t] - 1 ELSE x.left[t]]
  OBVIOUS
<1>5. lf \in [Task -> Int]
  BY <1>1, <1>4
<1>6. c = [x EXCEPT !.tick = t1, !.left = lf]
  BY <1>1, <1>4 DEF Fields, Counted
<1>7. /\ DOMAIN c = Fields /\ c.tick = t1 /\ c.left = lf /\ c.list = x.list /\ c.index = x.index
      /\ c.where = x.where /\ c.evt = x.evt /\ c.wake = x.wake /\ c.unblock = x.unblock
      /\ c.top = x.top /\ c.yield = x.yield /\ c.del = x.del /\ c.overflows = x.overflows
  BY <1>1, <1>6 DEF Fields
<1>8. SameTasks(x, c)
  BY <1>1, <1>6 DEF Fields, SameTasks
<1>9. Shape(c)
  BY <1>0, <1>3, <1>5, <1>7, <1>8 DEF Core, Shape, SameTasks
<1>10. Core(c)
  BY <1>0, <1>7, <1>9, CoreSame
<1>11. Right(c)
  BY <1>0, <1>7, <1>8, SMTT(30) DEF Right, SameTasks
<1>12. CASE t1 # 0
  <2>1. y = c
    BY <1>12
  <2>2. \A u \in Task : c.where[u] = Delayed(c.del) => c.unblock <= c.wake[u]
    BY <1>0, <1>7 DEF Early
  <2>3. ASSUME NEW u \in Task
        PROVE  /\ c.where[u] = Delayed(c.del) => c.wake[u] >= c.tick /\ c.left[u] = c.wake[u] - c.tick
               /\ c.where[u] = Delayed(1 - c.del) =>
                    c.wake[u] < c.tick /\ c.left[u] = c.wake[u] - c.tick + TickMod
    <3>1. x.wake[u] \in Int /\ x.left[u] \in Int
      BY <1>1 DEF TickType
    <3>2. Delayed(x.del) \in {Delayed(0), Delayed(1)} /\ Delayed(1 - x.del) \in {Delayed(0), Delayed(1)}
      BY <1>1
    <3>3. c.where[u] = Delayed(c.del) => lf[u] = x.left[u] - 1
      BY <1>4, <1>7, <3>2
    <3>4. c.where[u] = Delayed(1 - c.del) => lf[u] = x.left[u] - 1
      BY <1>4, <1>7, <3>2
    <3>5. /\ x.where[u] = Delayed(x.del) => x.wake[u] > x.tick /\ x.left[u] = x.wake[u] - x.tick
          /\ x.where[u] = Delayed(1 - x.del) => x.wake[u] < x.tick /\ x.left[u] = x.wake[u] - x.tick + TickMod
      BY <1>0 DEF Left, Early
    <3>6. QED BY <1>2, <1>3, <1>7, <1>12, <3>1, <3>3, <3>4, <3>5
  <2>4. Left(c)
    BY <2>3, SMTT(30) DEF Left
  <2>5. OneLater(x, c)
    BY <1>3, <1>7, <1>12 DEF OneLater
  <2>6. QED BY <1>7, <1>8, <1>10, <1>11, <2>1, <2>2, <2>4, <2>5
<1>13. CASE t1 = 0
  <2>1. x.tick = TickMod - 1
    BY <1>3, <1>13
  <2>2. \A u \in Task : x.where[u] # Delayed(x.del)
    <3>1. SUFFICES ASSUME NEW u \in Task, x.where[u] = Delayed(x.del) PROVE FALSE
      OBVIOUS
    <3>2. x.wake[u] > x.tick /\ x.wake[u] \in TickType
      BY <1>0, <1>1, <3>1 DEF Early
    <3>3. QED BY <1>2, <2>1, <3>2 DEF TickType
  <2>3. PICK l \in Lists : l = Delayed(x.del) /\ l \in StateLists
    BY <1>1, ListNames DEF DelayedLists
  <2>4. c.list[Delayed(c.del)] = <<>>
    <3>1. PICK s \in Seq(Task) : s = x.list[l]
      BY <1>0 DEF Core, Shape
    <3>2. ASSUME NEW i \in DOMAIN s PROVE FALSE
      <4>1. s[i] \in Task /\ Holds(x, l, s[i])
        BY <1>0, <3>1 DEF Core, Agree
      <4>2. QED BY <2>2, <2>3, <4>1 DEF Holds
    <3>3. s = <<>>
      BY <3>2
    <3>4. QED BY <1>7, <2>3, <3>1, <3>3
  <2>5. PICK ov : ov = (x.overflows + 1) % OverflowMod OBVIOUS
  <2>6. ov \in 0 .. OverflowMod - 1
    <3>1. x.overflows \in Nat /\ OverflowMod \in Nat /\ OverflowMod > 0
      BY <1>0, TasksAssumption DEF Core, Shape
    <3>2. QED BY <2>5, <3>1
  <2>7. PICK e : e = [c EXCEPT !.del = 1 - x.del, !.overflows = ov] OBVIOUS
  <2>8. y = prvResetNextTaskUnblockTime(e)
    BY <1>7, <1>13, <2>4, <2>5, <2>7 DEF taskSWITCH_DELAYED_LISTS, configASSERT, Fields
  <2>9. /\ DOMAIN e = Fields /\ e.tick = t1 /\ e.left = lf /\ e.list = x.list /\ e.index = x.index
        /\ e.where = x.where /\ e.evt = x.evt /\ e.wake = x.wake /\ e.unblock = x.unblock
        /\ e.top = x.top /\ e.yield = x.yield /\ e.del = 1 - x.del /\ e.overflows = ov
    BY <1>7, <2>7 DEF Fields
  <2>10. SameTasks(x, e)
    BY <1>7, <1>8, <2>7 DEF Fields, SameTasks
  <2>11. 1 - x.del \in {0, 1} /\ 1 - (1 - x.del) = x.del
    BY <1>1
  <2>12. Shape(e)
    BY <1>0, <1>3, <1>5, <2>6, <2>9, <2>10, <2>11 DEF Core, Shape, SameTasks
  <2>13. Core(e)
    BY <1>0, <2>9, <2>12, CoreSame
  <2>14. /\ Core(y) /\ SameRest(e, y) /\ y.top = e.top /\ y.yield = e.yield /\ y.list = e.list
         /\ y.where = e.where /\ y.evt = e.evt /\ y.wake = e.wake /\ y.left = e.left
         /\ \A u \in Task : e.where[u] = Delayed(e.del) => y.unblock <= e.wake[u]
    BY <2>8, <2>13, ResetDoes
  <2>15. SameTasks(x, y)
    BY <2>10, <2>14 DEF SameTasks, SameRest
  <2>16. y.tick = t1 /\ y.del = 1 - x.del
    BY <2>9, <2>14 DEF SameRest
  <2>17. Right(y)
    <3>1. y.where = x.where /\ y.prio = x.prio /\ y.top = x.top
      BY <2>9, <2>14, <2>15 DEF SameTasks
    <3>2. QED BY <1>0, <3>1 DEF Right
  <2>18. Left(y)
    <3>1. ASSUME NEW u \in Task
          PROVE  /\ y.where[u] = Delayed(y.del) => y.wake[u] >= y.tick /\ y.left[u] = y.wake[u] - y.tick
                 /\ y.where[u] # Delayed(1 - y.del)
      <4>1. y.where[u] # Delayed(1 - y.del)
        BY <2>2, <2>9, <2>11, <2>14, <2>16
      <4>2. ASSUME y.where[u] = Delayed(y.del) PROVE y.wake[u] >= y.tick /\ y.left[u] = y.wake[u] - y.tick
        <5>1. x.where[u] = Delayed(1 - x.del)
          BY <2>9, <2>14, <2>16, <4>2
        <5>2. x.left[u] = x.wake[u] - x.tick + TickMod
          BY <1>0, <5>1 DEF Left
        <5>3. Delayed(1 - x.del) \in {Delayed(0), Delayed(1)}
          BY <1>1
        <5>4. lf[u] = x.left[u] - 1
          BY <1>4, <5>1, <5>3
        <5>5. x.wake[u] \in Nat
          BY <1>1, <1>2 DEF TickType
        <5>6. y.wake[u] = x.wake[u] /\ y.left[u] = lf[u] /\ y.tick = 0
          BY <1>13, <2>9, <2>14, <2>16
        <5>7. QED BY <1>2, <2>1, <5>2, <5>4, <5>5, <5>6
      <4>3. QED BY <4>1, <4>2
    <3>2. QED BY <3>1 DEF Left
  <2>19. \A u \in Task : y.where[u] = Delayed(y.del) => y.unblock <= y.wake[u]
    BY <2>9, <2>14, <2>16
  <2>20. OneLater(x, y)
    <3>1. y.overflows = ov
      BY <2>9, <2>14 DEF SameRest
    <3>2. y.tick = x.tick + 1 - TickMod
      BY <1>2, <1>13, <2>1, <2>16
    <3>3. QED BY <2>5, <3>1, <3>2 DEF OneLater
  <2>21. QED BY <2>9, <2>14, <2>15, <2>16, <2>17, <2>18, <2>19, <2>20
<1>14. QED BY <1>12, <1>13

\* xTaskIncrementTick with the scheduler running.
LEMMA TickDoes ==
  ASSUME NEW x, Data(x), x.susp = 0, NEW r, r = xTaskIncrementTick(x)
  PROVE  /\ Data(r.k) /\ SameTasks(x, r.k) /\ r.k.tick = (x.tick + 1) % TickMod
         /\ r.k.yield = x.yield /\ Moves(x, r.k) /\ r.switch \in BOOLEAN /\ OneLater(x, r.k)
         /\ x.preempt = 1 /\ ~r.switch => Quiet(x, r.k) /\ x.yield = 0
<1>1. PICK t1 : t1 = (x.tick + 1) % TickMod OBVIOUS
<1>2. PICK c : c = Counted(x, t1) OBVIOUS
<1>3. PICK y : y = IF t1 = 0 THEN taskSWITCH_DELAYED_LISTS(c) ELSE c OBVIOUS
<1>4. /\ Core(y) /\ Right(y) /\ Left(y) /\ SameTasks(x, y) /\ y.tick = t1 /\ y.yield = x.yield
      /\ y.where = x.where /\ y.evt = x.evt /\ OneLater(x, y)
      /\ \A u \in Task : y.where[u] = Delayed(y.del) => y.unblock <= y.wake[u]
  BY <1>1, <1>2, <1>3, AdvanceDoes
<1>5. PICK w : w = WakeDue(y) OBVIOUS
<1>6. /\ w = [k |-> w.k, switch |-> w.switch] /\ w.switch \in BOOLEAN
      /\ Data(w.k) /\ SameRest(y, w.k) /\ w.k.yield = y.yield /\ Moves(y, w.k)
      /\ y.preempt = 1 /\ ~w.switch => Quiet(y, w.k)
  BY <1>4, <1>5, WakeDueDoes
<1>7. r = SwitchNeeded(w)
  <2>1. c = [x EXCEPT !.tick = t1,
               !.left = [t \in Task |-> IF t \in {u \in Task : x.where[u] \in {Delayed(0), Delayed(1)}}
                                        THEN @[t] - 1 ELSE @[t]]]
    BY <1>2 DEF Counted
  <2>2. QED BY <1>1, <1>3, <1>5, <2>1 DEF xTaskIncrementTick
<1>8. PICK p : p = (Len(w.k.list[Ready(w.k.prio[w.k.cur])]) > 1)
  OBVIOUS
<1>9. DOMAIN w = {"k", "switch"}
  BY <1>6
<1>10. r = [w EXCEPT !.switch = @ \/ (w.k.preempt = 1 /\ ((w.k.slicing = 1 /\ p) \/ w.k.yield # 0))]
  BY <1>7, <1>8 DEF SwitchNeeded
<1>11. r.k = w.k
  BY <1>9, <1>10
<1>12. r.switch = (w.switch \/ (w.k.preempt = 1 /\ ((w.k.slicing = 1 /\ p) \/ w.k.yield # 0)))
  BY <1>9, <1>10
<1>13. r.switch \in BOOLEAN
  BY <1>12, Zenon
<1>14. ASSUME x.preempt = 1, ~r.switch PROVE ~w.switch /\ x.yield = 0
  <2>1. w.k.preempt = 1 /\ w.k.yield = x.yield
    BY <1>4, <1>6, <1>14 DEF SameTasks, SameRest
  <2>2. ~w.switch /\ w.k.yield = 0
    BY <1>12, <1>14, <2>1, Zenon
  <2>3. QED BY <2>1, <2>2
<1>15. SameTasks(x, w.k) /\ w.k.tick = t1 /\ w.k.yield = x.yield
  BY <1>4, <1>6 DEF SameTasks, SameRest
<1>16. Moves(x, w.k)
  BY <1>4, <1>6 DEF Moves, SameTasks
<1>17. Quiet(y, w.k) => Quiet(x, w.k)
  BY <1>4 DEF Quiet, SameTasks
<1>18. y.preempt = x.preempt
  BY <1>4 DEF SameTasks
<1>19. OneLater(x, w.k)
  BY <1>4, <1>6 DEF OneLater, SameRest
<1>20. QED BY <1>1, <1>6, <1>11, <1>13, <1>14, <1>15, <1>16, <1>17, <1>18, <1>19
-----------------------------------------------------------------------------
(* The end of a suspension of the scheduler *)

\* One member of xPendingReadyList.
LEMMA PendedTurn ==
  ASSUME NEW x, NEW y, NEW U, U \subseteq Task, Woken(x, y, U), NEW t \in Task, y.where[t] # None,
         NEW z, z = ReadyPended(y, t)
  PROVE  /\ Woken(x, z, U \cup {t})
         /\ z.yield = 0 => ~(x.prio[t] > x.prio[x.cur]) /\ y.yield = 0
<1>1. Core(y) /\ SameRest(x, y)
  BY DEF Woken
<1>2. PICK w : w = prvAddTaskToReadyList(RemoveState(RemoveEvent(y, t), t), t) OBVIOUS
<1>3. Readied(y, w, t, None)
  BY <1>1, <1>2, PendedDoes
<1>4. Woken(x, w, U \cup {t})
  BY <1>3, WokenStep
<1>5. Core(w) /\ Right(w) /\ Left(w) /\ SameRest(x, w)
  BY <1>4 DEF Woken
<1>6. DOMAIN w = Fields
  BY <1>5 DEF Core, Shape
<1>7. PICK g : g = IF x.prio[t] > x.prio[x.cur] THEN 1 ELSE y.yield OBVIOUS
<1>8. w.yield = y.yield /\ g \in {0, 1}
  BY <1>1, <1>3, <1>7 DEF Readied, Core, Shape
<1>9. z = [w EXCEPT !.yield = g]
  <2>1. y.prio = x.prio /\ y.cur = x.cur
    BY <1>1 DEF SameRest
  <2>2. z = [w EXCEPT !.yield = IF y.prio[t] > y.prio[y.cur] THEN 1 ELSE @]
    BY <1>2 DEF ReadyPended
  <2>3. QED BY <1>6, <1>7, <1>8, <2>1, <2>2 DEF Fields
<1>10. /\ DOMAIN z = Fields /\ z.yield = g /\ z.list = w.list /\ z.index = w.index /\ z.where = w.where
       /\ z.evt = w.evt /\ z.wake = w.wake /\ z.left = w.left /\ z.unblock = w.unblock /\ z.top = w.top
  BY <1>6, <1>9 DEF Fields
<1>11. SameRest(w, z)
  BY <1>6, <1>9 DEF Fields, SameRest
<1>12. Shape(z)
  BY <1>5, <1>8, <1>10, <1>11 DEF Core, Shape, SameRest
<1>13. Core(z)
  BY <1>5, <1>10, <1>12, CoreSame
<1>14. Right(z)
  BY <1>5, <1>10, <1>11 DEF Right, SameRest
<1>15. Left(z)
  BY <1>5, <1>10, <1>11 DEF Left, SameRest
<1>16. SameRest(x, z)
  BY <1>5, <1>11 DEF SameRest
<1>17. Woken(x, z, U \cup {t})
  BY <1>4, <1>10, <1>13, <1>14, <1>15, <1>16 DEF Woken
<1>18. QED BY <1>7, <1>10, <1>17

\* The first loop of xTaskResumeAll readies all that interrupts have woken meanwhile.
LEMMA PendedAllDoes ==
  ASSUME NEW x, Data(x), \A u \in Task : x.evt[u] = Pending => x.where[u] # None,
         NEW y, y = ReadyAllPended(x), NEW U, U = {u \in Task : x.evt[u] = Pending}
  PROVE  /\ Data(y) /\ SameRest(x, y)
         /\ \A u \in U : y.where[u] = Ready(x.prio[u]) /\ y.evt[u] = None
         /\ \A u \in Task \ U : y.where[u] = x.where[u] /\ y.evt[u] = x.evt[u]
         /\ y.yield = 0 => x.yield = 0 /\ \A u \in U : ~(x.prio[u] > x.prio[x.cur])
<1>0. Core(x) /\ Right(x) /\ Left(x) /\ Early(x)
  BY DEF Data, Core
<1>1. PICK s \in Seq(Task) : s = x.list[Pending]
  BY <1>0, ListNames DEF Core, Shape
<1>2. /\ \A i, j \in DOMAIN s : s[i] = s[j] => i = j
      /\ \A u \in Task : (\E i \in DOMAIN s : s[i] = u) <=> x.evt[u] = Pending
  BY <1>0, <1>1, ListNames DEF Core, Agree, Holds
<1>3. CASE s = <<>>
  <2>1. y = x
    BY <1>1, <1>3 DEF ReadyAllPended
  <2>2. U = {}
    BY <1>2, <1>3
  <2>3. QED BY <2>1, <2>2 DEF SameRest
<1>4. CASE s # <<>>
  <2>1. PICK l \in Nat : l = Len(s) /\ DOMAIN s = 1 .. l
    OBVIOUS
  <2>2. PICK f : /\ f[0] = x
                 /\ \A n \in 1 .. l : f[n] = ReadyPended(f[n - 1], s[n])
                 /\ f[l] = ReadyTurns(x, s)
    <3>1. l = Len(s)
      BY <2>1
    <3>2. PICK f : ReadyRun(f, x, s, l)
      BY <3>1, ReadyPendedLoop
    <3>3. QED BY <3>2, Zenon DEF ReadyRun
  <2> DEFINE Done(n) == {s[i] : i \in 1 .. n}
             Good(n) == /\ Woken(x, f[n], Done(n))
                        /\ f[n].yield = 0 =>
                             x.yield = 0 /\ \A i \in 1 .. n : ~(x.prio[s[i]] > x.prio[x.cur])
             S == {n \in 0 .. l : Good(n)}
  <2>3. 0 \in S
    <3>1. Done(0) = {}
      OBVIOUS
    <3>2. Woken(x, x, {})
      BY <1>0 DEF Woken, SameRest
    <3>3. Good(0)
      BY <2>2, <3>1, <3>2
    <3>4. QED BY <3>3
  <2>4. ASSUME NEW m \in 0 .. l - 1, m \in S PROVE m + 1 \in S
    <3>1. PICK n \in 1 .. l : n = m + 1 /\ n - 1 = m
      OBVIOUS
    <3>2. PICK t \in Task : t = s[n]
      BY <2>1
    <3>3. PICK v : v = f[m] OBVIOUS
    <3>4. PICK z : z = f[n] OBVIOUS
    <3>5. Woken(x, v, Done(m))
      BY <2>4, <3>3
    <3>6. t \notin Done(m)
      BY <1>2, <2>1, <3>1, <3>2
    <3>7. x.where[t] # None
      BY <1>2, <2>1, <3>2
    <3>8. v.where[t] # None
      BY <3>5, <3>6, <3>7 DEF Woken
    <3>9. z = ReadyPended(v, t)
      BY <2>2, <3>1, <3>2, <3>3, <3>4
    <3>10. Done(m) \subseteq Task
      BY <2>1
    <3>11. /\ Woken(x, z, Done(m) \cup {t})
           /\ z.yield = 0 => ~(x.prio[t] > x.prio[x.cur]) /\ v.yield = 0
      <4>1. PICK D : D = Done(m) OBVIOUS
      <4>2. D \subseteq Task /\ Woken(x, v, D)
        BY <3>5, <3>10, <4>1
      <4>3. /\ Woken(x, z, D \cup {t})
            /\ z.yield = 0 => ~(x.prio[t] > x.prio[x.cur]) /\ v.yield = 0
        <5>1. D \subseteq Task
          BY <4>2
        <5>2. Woken(x, v, D)
          BY <4>2
        <5>3. QED BY <3>8, <3>9, <5>1, <5>2, PendedTurn
      <4>4. QED BY <4>1, <4>3
    <3>12. Done(m) \cup {t} = Done(n)
      BY <3>1, <3>2
    <3>13. ASSUME z.yield = 0 PROVE x.yield = 0 /\ \A i \in 1 .. n : ~(x.prio[s[i]] > x.prio[x.cur])
      <4>1. ~(x.prio[t] > x.prio[x.cur]) /\ v.yield = 0
        BY <3>11, <3>13
      <4>2. x.yield = 0 /\ \A i \in 1 .. m : ~(x.prio[s[i]] > x.prio[x.cur])
        BY <2>4, <3>3, <4>1
      <4>3. \A i \in 1 .. n : i = n \/ i \in 1 .. m
        BY <3>1
      <4>4. QED BY <3>2, <4>1, <4>2, <4>3
    <3>14. Good(n)
      BY <3>4, <3>11, <3>12, <3>13
    <3>15. QED BY <3>1, <3>14
  <2>5. l \in S
    <3> HIDE DEF S
    <3>1. 0 .. l \subseteq S
      BY <2>3, <2>4, UpTo
    <3>2. QED BY <3>1
  <2>6. Good(l)
    BY <2>5
  <2>7. Done(l) = U
    BY <1>2, <2>1
  <2>8. PICK w : w = f[l] OBVIOUS
  <2>9. Woken(x, w, U) /\ (w.yield = 0 => x.yield = 0 /\ \A u \in U : ~(x.prio[u] > x.prio[x.cur]))
    BY <2>6, <2>7, <2>8
  <2>10. y = prvResetNextTaskUnblockTime(w)
    BY <1>1, <1>4, <2>2, <2>8 DEF ReadyAllPended, ReadyTurns
  <2>11. /\ Core(y) /\ SameRest(w, y) /\ y.top = w.top /\ y.yield = w.yield /\ y.list = w.list
         /\ y.where = w.where /\ y.evt = w.evt /\ y.wake = w.wake /\ y.left = w.left
         /\ \A u \in Task : w.where[u] = Delayed(w.del) => y.unblock <= w.wake[u]
    <3>1. Core(w)
      BY <2>9 DEF Woken
    <3>2. QED BY <2>10, <3>1, ResetDoes
  <2>12. SameRest(x, y)
    BY <2>9, <2>11 DEF Woken, SameRest
  <2>13. Right(y)
    BY <2>9, <2>11 DEF Woken, Right, SameRest
  <2>14. Left(y)
    BY <2>9, <2>11 DEF Woken, Left, SameRest
  <2>15. Early(y)
    <3>1. ASSUME NEW u \in Task, y.where[u] = Delayed(y.del) PROVE y.wake[u] > y.tick /\ y.unblock <= y.wake[u]
      <4>1. y.del = x.del /\ w.del = x.del /\ y.tick = x.tick
        BY <2>9, <2>11, <2>12 DEF SameRest, Woken
      <4>2. w.where[u] = Delayed(x.del)
        BY <2>11, <3>1, <4>1
      <4>3. u \notin U
        BY <2>9, <4>2, ListNames DEF Woken
      <4>4. x.where[u] = Delayed(x.del) /\ w.wake[u] = x.wake[u]
        BY <2>9, <4>2, <4>3 DEF Woken
      <4>5. x.wake[u] > x.tick
        BY <1>0, <4>4 DEF Early
      <4>6. QED BY <2>11, <4>1, <4>2, <4>4, <4>5
    <3>2. QED BY <3>1 DEF Early
  <2>16. \A u \in U : y.where[u] = Ready(x.prio[u]) /\ y.evt[u] = None
    BY <2>9, <2>11 DEF Woken
  <2>17. \A u \in Task \ U : y.where[u] = x.where[u] /\ y.evt[u] = x.evt[u]
    BY <2>9, <2>11 DEF Woken
  <2>18. Data(y)
    BY <2>11, <2>13, <2>14, <2>15 DEF Data, Core
  <2>19. QED BY <2>9, <2>11, <2>12, <2>16, <2>17, <2>18
<1>5. QED BY <1>3, <1>4

\* Data are kept by changes outside them.
LEMMA DataSame ==
  ASSUME NEW x, Data(x), NEW y, DOMAIN y = Fields, y.list = x.list, y.index = x.index,
         y.where = x.where, y.evt = x.evt, y.wake = x.wake, y.left = x.left, y.prio = x.prio,
         y.top = x.top, y.del = x.del, y.tick = x.tick, y.overflows = x.overflows, y.unblock = x.unblock,
         y.state \in [Task -> {NotWaiting, Waiting, Received}], y.cur \in Task, y.susp \in Nat,
         y.pended \in Nat, y.yield \in {0, 1}, y.fault \in {0, 1}
  PROVE  Data(y)
<1>1. Shape(y)
  BY DEF Data, Shape
<1>2. Core(x)
  BY DEF Data, Core
<1>3. Core(y)
  BY <1>1, <1>2, CoreSame
<1>4. Right(y)
  BY DEF Data, Right
<1>5. Left(y)
  BY DEF Data, Left
<1>6. Early(y)
  BY DEF Data, Early
<1>7. QED BY <1>3, <1>4, <1>5, <1>6 DEF Data, Core

\* A remainder is determined by its number.
LEMMA OneRest ==
  ASSUME NEW m \in Nat \ {0}, NEW q \in Int, NEW r \in 0 .. m - 1, NEW s \in 0 .. m - 1, r = m * q + s
  PROVE  r = s
<1>1. CASE q = 0
  BY <1>1
<1>2. CASE q > 0
  <2>1. m * q >= m
    BY <1>2
  <2>2. m * q \in Int OBVIOUS
  <2>3. QED BY <2>1, <2>2
<1>3. CASE q < 0
  <2>1. m * q <= -m
    <3>1. m * (q + 1) <= 0
      BY <1>3
    <3>2. m * (q + 1) = m * q + m OBVIOUS
    <3>3. m * q \in Int OBVIOUS
    <3>4. QED BY <3>1, <3>2, <3>3
  <2>2. m * q \in Int OBVIOUS
  <2>3. QED BY <2>1, <2>2
<1>4. QED BY <1>1, <1>2, <1>3

\* A number and its remainder.
LEMMA Turns ==
  ASSUME NEW m \in Nat \ {0}, NEW a \in Int
  PROVE  \E d \in Int, r \in 0 .. m - 1 : r = a % m /\ a = m * d + r
<1> DEFINE d == a \div m
           r == a % m
<1>1. d \in Int /\ r \in 0 .. m - 1 /\ a = m * d + r
  OBVIOUS
<1>2. QED
  BY <1>1, Zenon

\* One more, modulo the width of the count.
LEMMA ModNext ==
  ASSUME NEW m \in Nat \ {0}, NEW a \in Int
  PROVE  ((a % m) + 1) % m = (a + 1) % m
<1>1. PICK d \in Int, r \in 0 .. m - 1 : r = a % m /\ a = m * d + r
  BY Turns, Zenon
<1>2. PICK e \in Int, s \in 0 .. m - 1 : s = (a + 1) % m /\ a + 1 = m * e + s
  <2>1. a + 1 \in Int OBVIOUS
  <2>2. QED BY <2>1, Turns, Zenon
<1>3. PICK f \in Int, t \in 0 .. m - 1 : t = (r + 1) % m /\ r + 1 = m * f + t
  <2>1. r + 1 \in Int OBVIOUS
  <2>2. QED BY <2>1, Turns, Zenon
<1>4. t = m * (e - d - f) + s
  <2>1. m * (e - d - f) = m * e - m * d - m * f OBVIOUS
  <2>2. m * e \in Int /\ m * d \in Int /\ m * f \in Int OBVIOUS
  <2>3. QED BY <1>1, <1>2, <1>3, <2>1, <2>2
<1>5. t = s
  <2>1. e - d - f \in Int OBVIOUS
  <2>2. QED BY <1>4, <2>1, OneRest
<1>6. QED
  BY <1>1, <1>2, <1>3, <1>5

\* Ticks in turn: the moves of the tasks add up.
LEMMA MovesAddUp ==
  ASSUME NEW x, NEW y, NEW z, Moves(x, y), Moves(y, z), SameTasks(x, y)
  PROVE  Moves(x, z) /\ (Quiet(x, y) /\ Quiet(y, z) => Quiet(x, z))
<1>1. y.prio = x.prio /\ y.cur = x.cur
  BY DEF SameTasks
<1>2. \A p : Ready(p) \notin DelayedLists
  BY ListNames DEF DelayedLists
<1>3. ASSUME NEW u \in Task
      PROVE  \/ z.where[u] = x.where[u] /\ z.evt[u] = x.evt[u]
             \/ x.where[u] \in DelayedLists /\ z.where[u] = Ready(x.prio[u]) /\ z.evt[u] = None
  BY <1>1, <1>2 DEF Moves
<1>4. ASSUME Quiet(x, y), Quiet(y, z), NEW u \in Task, z.where[u] # x.where[u] PROVE ~(x.prio[u] > x.prio[x.cur])
  <2>1. y.where[u] # x.where[u] \/ z.where[u] # y.where[u]
    BY <1>4
  <2>2. QED BY <1>1, <1>4, <2>1 DEF Quiet
<1>5. QED BY <1>3, <1>4 DEF Moves, Quiet

\* One tick more.
LEMMA LaterOn ==
  ASSUME NEW x, NEW v, NEW z, NEW m \in Nat, x.tick \in Int, x.overflows \in Int, Later(x, v, m), OneLater(v, z)
  PROVE  Later(x, z, m + 1)
<1>1. PICK e \in Nat : v.tick = x.tick + m - TickMod * e /\ v.overflows = (x.overflows + e) % OverflowMod
  BY DEF Later
<1>2. TickMod \in Nat /\ OverflowMod \in Nat \ {0}
  BY TasksAssumption
<1>3. PICK b \in Int : b = TickMod * e /\ TickMod * (e + 1) = b + TickMod
  <2>1. TickMod * e \in Int /\ TickMod * (e + 1) = TickMod * e + TickMod
    BY <1>2
  <2>2. QED BY <2>1
<1>4. CASE z.tick = v.tick + 1 /\ z.overflows = v.overflows
  <2>1. z.tick = x.tick + (m + 1) - TickMod * e
    BY <1>1, <1>3, <1>4
  <2>2. QED BY <1>1, <1>4, <2>1 DEF Later
<1>5. CASE z.tick = v.tick + 1 - TickMod /\ z.overflows = (v.overflows + 1) % OverflowMod
  <2>1. z.tick = x.tick + (m + 1) - TickMod * (e + 1)
    <3>1. v.tick = x.tick + m - b
      BY <1>1, <1>3
    <3>2. z.tick = x.tick + (m + 1) - (b + TickMod)
      BY <1>2, <1>3, <1>5, <3>1
    <3>3. QED BY <1>3, <3>2
  <2>2. z.overflows = (x.overflows + (e + 1)) % OverflowMod
    <3>1. PICK a \in Int : a = x.overflows + e /\ a + 1 = x.overflows + (e + 1)
      OBVIOUS
    <3>2. ((a % OverflowMod) + 1) % OverflowMod = (a + 1) % OverflowMod
      BY <1>2, ModNext
    <3>3. QED BY <1>1, <1>5, <3>1, <3>2
  <2>3. e + 1 \in Nat
    OBVIOUS
  <2>4. QED BY <2>1, <2>2, <2>3 DEF Later
<1>6. QED BY <1>4, <1>5 DEF OneLater

\* No tick later: the count of the wraps is below its width.
LEMMA LaterNow ==
  ASSUME NEW x, NEW y, Shape(x), y.tick = x.tick, y.overflows = x.overflows
  PROVE  Later(x, y, 0) /\ x.tick \in Int /\ x.overflows \in Int
<1>1. TickMod \in Nat /\ OverflowMod \in Nat /\ x.tick \in Int /\ x.overflows \in 0 .. OverflowMod - 1
  BY TasksAssumption DEF Shape, TickType
<1>2. y.tick = x.tick + 0 - TickMod * 0 /\ y.overflows = (x.overflows + 0) % OverflowMod
  BY <1>1
<1>3. QED BY <1>1, <1>2 DEF Later

\* The second loop of xTaskResumeAll counts the ticks that came meanwhile.
LEMMA CountPendedDoes ==
  ASSUME NEW x, Data(x), x.susp = 0, x.preempt = 1, NEW y, y = CountPended(x)
  PROVE  /\ Data(y) /\ Moves(x, y) /\ y.tick = (x.tick + x.pended) % TickMod /\ y.pended = 0
         /\ y.prio = x.prio /\ y.state = x.state /\ y.value = x.value /\ y.cur = x.cur
         /\ y.susp = x.susp /\ y.fault = x.fault /\ y.preempt = x.preempt /\ y.started = x.started
         /\ Later(x, y, x.pended)
         /\ y.yield = 0 => x.yield = 0 /\ Quiet(x, y)
<1>1. PICK l \in Nat : l = x.pended
  BY DEF Data, Shape
<1>2. PICK s : s = [i \in 1 .. l |-> i] OBVIOUS
<1>3. l = Len(s)
  BY <1>2
<1>4. PICK f : /\ f[0] = x
               /\ \A n \in 1 .. l : f[n] = PendedTick(f[n - 1], s[n])
               /\ f[l] = TickTurns(x, s)
  <2>1. l = Len(s)
    BY <1>3
  <2>2. PICK f : TickRun(f, x, s, l)
    BY <2>1, PendedTickLoop
  <2>3. QED BY <2>2, Zenon DEF TickRun
<1>5. x.tick \in Nat /\ x.tick < TickMod /\ TickMod \in Nat /\ TickMod > 0
  BY TasksAssumption DEF Data, Shape, TickType
<1> DEFINE Good(n) == /\ Data(f[n]) /\ SameTasks(x, f[n]) /\ Moves(x, f[n])
                      /\ f[n].tick = (x.tick + n) % TickMod /\ Later(x, f[n], n)
                      /\ f[n].yield = 0 => x.yield = 0 /\ Quiet(x, f[n])
           S == {n \in 0 .. l : Good(n)}
<1>6. 0 \in S
  <2>1. x.tick = (x.tick + 0) % TickMod
    BY <1>5
  <2>2. SameTasks(x, x) /\ Moves(x, x) /\ Quiet(x, x)
    BY DEF SameTasks, Moves, Quiet
  <2>3. Good(0)
    <3>1. Later(x, x, 0)
      BY LaterNow DEF Data
    <3>2. QED BY <1>4, <2>1, <2>2, <3>1
  <2>4. QED BY <2>3
<1>7. ASSUME NEW m \in 0 .. l - 1, m \in S PROVE m + 1 \in S
  <2>1. PICK n \in 1 .. l : n = m + 1 /\ n - 1 = m
    OBVIOUS
  <2>2. PICK v : v = f[m] OBVIOUS
  <2>3. PICK z : z = f[n] OBVIOUS
  <2>4. /\ Data(v) /\ SameTasks(x, v) /\ Moves(x, v) /\ v.tick = (x.tick + m) % TickMod
        /\ Later(x, v, m)
        /\ v.yield = 0 => x.yield = 0 /\ Quiet(x, v)
    BY <1>7, <2>2
  <2>5. v.susp = 0 /\ v.preempt = 1
    BY <2>4 DEF SameTasks
  <2>6. PICK r : r = xTaskIncrementTick(v) OBVIOUS
  <2>7. /\ Data(r.k) /\ SameTasks(v, r.k) /\ r.k.tick = (v.tick + 1) % TickMod
        /\ r.k.yield = v.yield /\ Moves(v, r.k) /\ r.switch \in BOOLEAN /\ OneLater(v, r.k)
        /\ v.preempt = 1 /\ ~r.switch => Quiet(v, r.k) /\ v.yield = 0
    BY <2>4, <2>5, <2>6, TickDoes
  <2>8. PICK w : w = r.k OBVIOUS
  <2>9. PICK g : g = IF r.switch THEN 1 ELSE w.yield OBVIOUS
  <2>10. Data(w) /\ DOMAIN w = Fields /\ w.yield \in {0, 1} /\ g \in {0, 1}
    BY <2>7, <2>8, <2>9 DEF Data, Shape
  <2>11. z = [w EXCEPT !.yield = g]
    <3>1. z = [r.k EXCEPT !.yield = IF r.switch THEN 1 ELSE @]
      BY <1>4, <2>1, <2>2, <2>3, <2>6 DEF PendedTick, NoteSwitch
    <3>2. QED BY <2>8, <2>9, <2>10, <3>1 DEF Fields
  <2>12. /\ DOMAIN z = Fields /\ z.yield = g /\ z.list = w.list /\ z.index = w.index /\ z.where = w.where
         /\ z.evt = w.evt /\ z.wake = w.wake /\ z.left = w.left /\ z.unblock = w.unblock /\ z.top = w.top
         /\ z.tick = w.tick /\ z.del = w.del /\ z.overflows = w.overflows
    BY <2>10, <2>11 DEF Fields
  <2>13. SameTasks(w, z)
    BY <2>10, <2>11 DEF Fields, SameTasks
  <2>14. Data(z)
    <3>1. /\ z.state \in [Task -> {NotWaiting, Waiting, Received}] /\ z.cur \in Task /\ z.susp \in Nat
          /\ z.pended \in Nat /\ z.fault \in {0, 1} /\ z.prio = w.prio
      BY <2>10, <2>13 DEF SameTasks, Data, Shape
    <3>2. z.yield \in {0, 1}
      BY <2>10, <2>12
    <3>3. QED BY <2>10, <2>12, <3>1, <3>2, DataSame, Zenon
  <2>15. SameTasks(x, z)
    BY <2>4, <2>7, <2>8, <2>13 DEF SameTasks
  <2>16. Moves(v, z)
    BY <2>7, <2>8, <2>12 DEF Moves
  <2>17. Moves(x, z)
    BY <2>4, <2>16, MovesAddUp
  <2>18. z.tick = (x.tick + n) % TickMod
    <3>1. z.tick = (((x.tick + m) % TickMod) + 1) % TickMod
      BY <2>4, <2>7, <2>8, <2>12
    <3>2. PICK a \in Nat : a = x.tick + m /\ a + 1 = x.tick + n
      BY <1>5, <2>1
    <3>3. ((a % TickMod) + 1) % TickMod = (a + 1) % TickMod
      <4>1. TickMod \in Nat \ {0} /\ a \in Int
        BY <1>5
      <4>2. QED BY <4>1, ModNext
    <3>4. QED BY <3>1, <3>2, <3>3
  <2>19. ASSUME z.yield = 0 PROVE x.yield = 0 /\ Quiet(x, z)
    <3>1. ~r.switch
      BY <2>9, <2>12, <2>19
    <3>2. Quiet(v, r.k) /\ v.yield = 0
      BY <2>5, <2>7, <3>1
    <3>3. x.yield = 0 /\ Quiet(x, v)
      BY <2>4, <3>2
    <3>4. Quiet(v, z)
      BY <2>8, <2>12, <3>2 DEF Quiet
    <3>5. Quiet(x, z)
      BY <2>4, <2>16, <3>3, <3>4, MovesAddUp
    <3>6. QED BY <3>3, <3>5
  <2>20. Later(x, z, n)
    <3>1. OneLater(v, z)
      BY <2>7, <2>8, <2>12 DEF OneLater
    <3>2. x.tick \in Int /\ x.overflows \in Int
      BY LaterNow DEF Data
    <3>3. Later(x, z, m + 1)
      BY <2>4, <3>1, <3>2, LaterOn
    <3>4. QED BY <2>1, <3>3
  <2>21. Good(n)
    BY <2>3, <2>14, <2>15, <2>17, <2>18, <2>19, <2>20
  <2>22. QED BY <2>1, <2>21
<1>8. l \in S
  <2> HIDE DEF S
  <2>1. 0 .. l \subseteq S
    BY <1>6, <1>7, UpTo
  <2>2. QED BY <2>1
<1>9. PICK w : w = f[l] OBVIOUS
<1>10. /\ Data(w) /\ SameTasks(x, w) /\ Moves(x, w) /\ w.tick = (x.tick + l) % TickMod
       /\ Later(x, w, l)
       /\ w.yield = 0 => x.yield = 0 /\ Quiet(x, w)
  BY <1>8, <1>9
<1>11. y = [w EXCEPT !.pended = 0]
  BY <1>1, <1>2, <1>4, <1>9 DEF CountPended, TickTurns
<1>12. DOMAIN w = Fields
  BY <1>10 DEF Data, Shape
<1>13. /\ DOMAIN y = Fields /\ y.pended = 0 /\ y.list = w.list /\ y.index = w.index /\ y.where = w.where
       /\ y.evt = w.evt /\ y.wake = w.wake /\ y.left = w.left /\ y.unblock = w.unblock /\ y.top = w.top
       /\ y.tick = w.tick /\ y.del = w.del /\ y.overflows = w.overflows /\ y.yield = w.yield
  BY <1>11, <1>12 DEF Fields
<1>14. /\ y.prio = w.prio /\ y.state = w.state /\ y.value = w.value /\ y.cur = w.cur
       /\ y.susp = w.susp /\ y.fault = w.fault /\ y.preempt = w.preempt /\ y.started = w.started
  BY <1>11, <1>12 DEF Fields
<1>15. Data(y)
  <2>1. /\ y.state \in [Task -> {NotWaiting, Waiting, Received}] /\ y.cur \in Task /\ y.susp \in Nat
        /\ y.pended \in Nat /\ y.yield \in {0, 1} /\ y.fault \in {0, 1}
    BY <1>10, <1>13, <1>14 DEF Data, Shape
  <2>2. QED BY <1>10, <1>13, <1>14, <2>1, DataSame, Zenon
<1>16. Moves(x, y) /\ (Quiet(x, w) => Quiet(x, y))
  BY <1>10, <1>13 DEF Moves, Quiet
<1>17. Later(x, y, l)
  BY <1>10, <1>13 DEF Later
<1>18. QED BY <1>1, <1>10, <1>13, <1>14, <1>15, <1>16, <1>17 DEF SameTasks

(* What xTaskResumeAll does to the tasks: those that were woken meanwhile, or  *)
(* whose time has come, are ready.                                             *)
Resumed(x, y) ==
  \A u \in Task : \/ y.where[u] = x.where[u] /\ y.evt[u] = x.evt[u] /\ x.evt[u] # Pending
                  \/ /\ x.where[u] \in DelayedLists \/ x.evt[u] = Pending
                     /\ y.where[u] = Ready(x.prio[u]) /\ y.evt[u] = None

\* xTaskResumeAll: no tick and no wake-up that came meanwhile is lost, and the
\* task goes on only where no switch is due.
LEMMA ResumeDoes ==
  ASSUME NEW x, Data(x), x.susp = 1, x.fault = 0, x.preempt = 1, x.where[Idle] = Ready(0),
         \A u \in Task : x.evt[u] = Pending => x.where[u] # None,
         NEW r, r = xTaskResumeAll(x)
  PROVE  /\ Data(r.k) /\ r.k.susp = 0 /\ r.k.fault = 0 /\ r.k.preempt = 1 /\ r.k.pended = 0 /\ r.k.yield = 0
         /\ r.k.tick = (x.tick + x.pended) % TickMod
         /\ r.k.prio = x.prio /\ r.k.state = x.state /\ r.k.value = x.value /\ r.k.started = x.started
         /\ Resumed(x, r.k) /\ r.yielded \in BOOLEAN /\ Later(x, r.k, x.pended)
         /\ r.yielded => OnTop(r.k)
         /\ ~r.yielded => r.k.cur = x.cur /\ x.yield = 0 /\ Quiet(x, r.k)
<1>0. DOMAIN x = Fields
  BY DEF Data, Shape
<1>1. PICK o : o = [x EXCEPT !.susp = 0] OBVIOUS
<1>2. /\ DOMAIN o = Fields /\ o.susp = 0 /\ o.list = x.list /\ o.index = x.index /\ o.where = x.where
      /\ o.evt = x.evt /\ o.wake = x.wake /\ o.left = x.left /\ o.unblock = x.unblock /\ o.top = x.top
      /\ o.tick = x.tick /\ o.del = x.del /\ o.overflows = x.overflows /\ o.yield = x.yield
  BY <1>0, <1>1 DEF Fields
<1>3. /\ o.prio = x.prio /\ o.state = x.state /\ o.value = x.value /\ o.cur = x.cur
      /\ o.pended = x.pended /\ o.fault = 0 /\ o.preempt = 1 /\ o.started = x.started
  BY <1>0, <1>1 DEF Fields
<1>4. Data(o)
  <2>1. /\ o.state \in [Task -> {NotWaiting, Waiting, Received}] /\ o.cur \in Task /\ o.susp \in Nat
        /\ o.pended \in Nat /\ o.yield \in {0, 1} /\ o.fault \in {0, 1}
    BY <1>2, <1>3 DEF Data, Shape
  <2>2. QED BY <1>2, <1>3, <2>1, DataSame, Zenon
<1>5. PICK a : a = ReadyAllPended(o) OBVIOUS
<1>6. PICK U : U = {u \in Task : o.evt[u] = Pending} OBVIOUS
<1>7. /\ Data(a) /\ SameRest(o, a)
      /\ \A u \in U : a.where[u] = Ready(o.prio[u]) /\ a.evt[u] = None
      /\ \A u \in Task \ U : a.where[u] = o.where[u] /\ a.evt[u] = o.evt[u]
      /\ a.yield = 0 => o.yield = 0 /\ \A u \in U : ~(o.prio[u] > o.prio[o.cur])
  <2>1. \A u \in Task : o.evt[u] = Pending => o.where[u] # None
    BY <1>2
  <2>2. QED BY <1>4, <1>5, <1>6, <2>1, PendedAllDoes
<1>8. PICK c : c = CountPended(a) OBVIOUS
<1>9. /\ Data(c) /\ Moves(a, c) /\ c.tick = (a.tick + a.pended) % TickMod /\ c.pended = 0
      /\ c.prio = a.prio /\ c.state = a.state /\ c.value = a.value /\ c.cur = a.cur
      /\ c.susp = a.susp /\ c.fault = a.fault /\ c.preempt = a.preempt /\ c.started = a.started
      /\ Later(a, c, a.pended)
      /\ c.yield = 0 => a.yield = 0 /\ Quiet(a, c)
  <2>1. a.susp = 0 /\ a.preempt = 1
    BY <1>2, <1>3, <1>7 DEF SameRest
  <2>2. QED BY <1>7, <1>8, <2>1, CountPendedDoes
<1>10. /\ a.prio = x.prio /\ a.state = x.state /\ a.value = x.value /\ a.cur = x.cur /\ a.tick = x.tick
       /\ a.pended = x.pended /\ a.susp = 0 /\ a.fault = 0 /\ a.preempt = 1 /\ a.started = x.started
       /\ a.overflows = x.overflows
  BY <1>2, <1>3, <1>7 DEF SameRest
<1>11. r = YieldIfNoted(c)
  <2>1. configASSERT(x, x.susp # 0) = x
    BY DEF configASSERT
  <2>2. o = [x EXCEPT !.susp = @ - 1]
    BY <1>0, <1>1 DEF Fields
  <2>3. QED BY <1>2, <1>5, <1>8, <2>1, <2>2 DEF xTaskResumeAll
<1>12. Resumed(x, c)
  <2>1. ASSUME NEW u \in Task
        PROVE  \/ c.where[u] = x.where[u] /\ c.evt[u] = x.evt[u] /\ x.evt[u] # Pending
               \/ /\ x.where[u] \in DelayedLists \/ x.evt[u] = Pending
                  /\ c.where[u] = Ready(x.prio[u]) /\ c.evt[u] = None
    <3>1. \/ c.where[u] = a.where[u] /\ c.evt[u] = a.evt[u]
          \/ a.where[u] \in DelayedLists /\ c.where[u] = Ready(x.prio[u]) /\ c.evt[u] = None
      BY <1>9, <1>10 DEF Moves
    <3>2. CASE u \in U
      <4>1. x.evt[u] = Pending /\ a.where[u] = Ready(x.prio[u]) /\ a.evt[u] = None
        BY <1>2, <1>3, <1>6, <1>7, <3>2
      <4>2. QED BY <3>1, <4>1
    <3>3. CASE u \notin U
      <4>1. x.evt[u] # Pending /\ a.where[u] = x.where[u] /\ a.evt[u] = x.evt[u]
        BY <1>2, <1>6, <1>7, <3>3
      <4>2. QED BY <3>1, <4>1
    <3>4. QED BY <3>2, <3>3
  <2>2. QED BY <2>1 DEF Resumed
<1>13. c.where[Idle] = Ready(0)
  <2>1. Idle \in Task
    BY TasksAssumption
  <2>2. Ready(0) \notin DelayedLists
    BY ListNames DEF DelayedLists
  <2>3. x.prio[Idle] = 0
    <3>1. 0 \in Priorities
      BY TasksAssumption DEF Priorities
    <3>2. QED BY <2>1, <3>1 DEF Data, Right
  <2>4. QED BY <1>12, <2>1, <2>2, <2>3 DEF Resumed
<1>20. Later(x, c, x.pended)
  BY <1>9, <1>10 DEF Later
<1>14. CASE c.yield = 0
  <2>1. r.k = c /\ r.yielded = FALSE
    <3>1. (c.yield # 0 /\ c.preempt = 1) = FALSE
      BY <1>14
    <3>2. r = [k |-> c, yielded |-> FALSE]
      BY <1>11, <1>14, <3>1 DEF YieldIfNoted
    <3>3. QED BY <3>2
  <2>2. x.yield = 0 /\ (\A u \in U : ~(x.prio[u] > x.prio[x.cur])) /\ Quiet(a, c)
    <3>1. a.yield = 0 /\ Quiet(a, c)
      BY <1>9, <1>14
    <3>2. o.yield = 0 /\ \A u \in U : ~(o.prio[u] > o.prio[o.cur])
      BY <1>7, <3>1
    <3>3. QED BY <1>2, <1>3, <3>1, <3>2
  <2>3. ASSUME NEW u \in Task, c.where[u] # x.where[u] PROVE ~(x.prio[u] > x.prio[x.cur])
    <3>1. CASE u \in U
      BY <2>2, <3>1
    <3>2. CASE u \notin U
      <4>1. a.where[u] = x.where[u]
        BY <1>2, <1>7, <3>2
      <4>2. c.where[u] # a.where[u]
        BY <2>3, <4>1
      <4>3. QED BY <1>10, <2>2, <4>2 DEF Quiet
    <3>3. QED BY <3>1, <3>2
  <2>4. Quiet(x, c)
    BY <2>3 DEF Quiet
  <2>5. QED BY <1>9, <1>10, <1>12, <1>14, <1>20, <2>1, <2>2, <2>4
<1>15. CASE c.yield # 0
  <2>1. c.susp = 0 /\ c.preempt = 1
    BY <1>9, <1>10
  <2>2. PICK y : y = vTaskSwitchContext(c) OBVIOUS
  <2>3. r.k = y /\ r.yielded = TRUE
    <3>1. YieldIfPreempting(c) = y
      BY <2>1, <2>2 DEF YieldIfPreempting
    <3>2. r = [k |-> y, yielded |-> TRUE]
      BY <1>11, <1>15, <2>1, <3>1 DEF YieldIfNoted
    <3>3. QED BY <3>2
  <2>4. /\ Core(y) /\ Right(y) /\ Switched(c, y) /\ y.yield = 0 /\ OnTop(y)
    <3>1. Core(c) /\ Right(c)
      BY <1>9 DEF Data, Core
    <3>2. QED BY <1>13, <2>1, <2>2, <3>1, SwitchDoes
  <2>5. Left(y) /\ Early(y)
    BY <1>9, <2>4 DEF Data, Left, Early, Switched
  <2>6. Data(y)
    BY <2>4, <2>5 DEF Data, Core
  <2>7. y.where = c.where /\ y.evt = c.evt /\ y.susp = 0 /\ y.fault = 0 /\ y.preempt = 1 /\ y.pended = 0
        /\ y.tick = c.tick /\ y.prio = x.prio /\ y.state = x.state /\ y.value = x.value /\ y.started = x.started
    BY <1>9, <1>10, <2>4 DEF Switched
  <2>8. Resumed(x, y)
    BY <1>12, <2>7 DEF Resumed
  <2>9. Later(x, y, x.pended)
    BY <1>20, <2>4 DEF Later, Switched
  <2>10. QED BY <1>9, <1>10, <2>3, <2>4, <2>6, <2>7, <2>8, <2>9
<1>16. QED BY <1>14, <1>15
-----------------------------------------------------------------------------
(* The kernel's functions between two critical sections *)

\* A choice of the running task.
LEMMA SwitchData ==
  ASSUME NEW x, Data(x), x.where[Idle] = Ready(0), NEW y, y = vTaskSwitchContext(x)
  PROVE  /\ Data(y) /\ Switched(x, y)
         /\ x.susp = 0 => y.yield = 0 /\ OnTop(y)
         /\ x.susp # 0 => y.yield = 1 /\ y.cur = x.cur
<1>1. Core(x) /\ Right(x)
  BY DEF Data, Core
<1>2. /\ Core(y) /\ Right(y) /\ Switched(x, y)
      /\ x.susp = 0 => y.yield = 0 /\ OnTop(y)
      /\ x.susp # 0 => y.yield = 1 /\ y.cur = x.cur /\ y.top = x.top
  BY <1>1, SwitchDoes
<1>3. Left(y) /\ Early(y)
  BY <1>2 DEF Data, Left, Early, Switched
<1>4. QED BY <1>2, <1>3 DEF Data, Core

\* A new reckoning of xNextTaskUnblockTime.
LEMMA ResetData ==
  ASSUME NEW x, Data(x), NEW y, y = prvResetNextTaskUnblockTime(x)
  PROVE  /\ Data(y) /\ SameRest(x, y) /\ y.yield = x.yield /\ y.where = x.where /\ y.evt = x.evt
<1>1. Core(x)
  BY DEF Data, Core
<1>2. /\ Core(y) /\ SameRest(x, y) /\ y.top = x.top /\ y.yield = x.yield /\ y.list = x.list
      /\ y.where = x.where /\ y.evt = x.evt /\ y.wake = x.wake /\ y.left = x.left
      /\ \A u \in Task : x.where[u] = Delayed(x.del) => y.unblock <= x.wake[u]
  BY <1>1, ResetDoes
<1>3. Right(y)
  BY <1>2 DEF Data, Right, SameRest
<1>4. Left(y)
  BY <1>2 DEF Data, Left, SameRest
<1>5. Early(y)
  BY <1>2 DEF Data, Early, SameRest
<1>6. QED BY <1>2, <1>3, <1>4, <1>5 DEF Data, Core

\* A task that becomes ready.
LEMMA ReadyData ==
  ASSUME NEW x, Data(x), NEW t \in Task, x.where[t] # None,
         NEW y, y = prvAddTaskToReadyList(RemoveState(x, t), t)
  PROVE  /\ Data(y) /\ SameRest(x, y) /\ y.yield = x.yield /\ y.evt = x.evt
         /\ y.where = [x.where EXCEPT ![t] = Ready(x.prio[t])]
<1>1. Core(x) /\ Right(x) /\ Left(x) /\ Early(x)
  BY DEF Data, Core
<1>2. Readied(x, y, t, x.evt[t])
  BY <1>1, ReadyDoes
<1>3. \A u \in Task \ {t}, p \in Priorities : x.where[u] = Ready(p) => p = x.prio[u] /\ p <= x.top
  BY <1>1 DEF Right
<1>4. \A u \in Task \ {t} : x.where[u] = Delayed(x.del) => x.wake[u] > x.tick /\ x.unblock <= x.wake[u]
  BY <1>1 DEF Early
<1>5. Right(y) /\ Left(y) /\ Early(y)
  BY <1>1, <1>2, <1>3, <1>4, ReadiedKeeps
<1>6. x.evt = [x.evt EXCEPT ![t] = x.evt[t]]
  BY <1>1 DEF Core, Shape
<1>7. QED BY <1>2, <1>5, <1>6 DEF Readied, Data, Core

(* s is x with another priority for t. *)
Reprio(x, s, t, p) == s = [x EXCEPT !.prio[t] = p]

\* A task whose priority changes while it is ready.
LEMMA PrioData ==
  ASSUME NEW x, Data(x), NEW t \in Task, NEW p \in Priorities, NEW s, Reprio(x, s, t, p),
         NEW y, y = IF x.where[t] = Ready(x.prio[t]) THEN prvAddTaskToReadyList(RemoveState(s, t), t) ELSE s
  PROVE  /\ Data(y) /\ y.prio = [x.prio EXCEPT ![t] = p] /\ y.state = x.state /\ y.cur = x.cur
         /\ y.started = x.started /\ y.tick = x.tick /\ y.overflows = x.overflows /\ y.susp = x.susp
         /\ y.pended = x.pended
         /\ y.fault = x.fault /\ y.preempt = x.preempt /\ y.yield = x.yield /\ y.evt = x.evt
         /\ \A u \in Task \ {t} : y.where[u] = x.where[u]
         /\ y.where[t] = IF x.where[t] = Ready(x.prio[t]) THEN Ready(p) ELSE x.where[t]
<1>1. Core(x) /\ Right(x) /\ Left(x) /\ Early(x)
  BY DEF Data, Core
<1>2. DOMAIN x = Fields /\ x.prio \in [Task -> Priorities] /\ x.where \in [Task -> StateLists \cup {None}]
  BY <1>1 DEF Core, Shape
<1>3. /\ DOMAIN s = Fields /\ s.prio = [x.prio EXCEPT ![t] = p] /\ s.list = x.list /\ s.index = x.index
      /\ s.where = x.where /\ s.evt = x.evt /\ s.wake = x.wake /\ s.left = x.left /\ s.state = x.state
      /\ s.cur = x.cur /\ s.started = x.started /\ s.del = x.del
  BY <1>2 DEF Fields, Reprio
<1>4. /\ s.tick = x.tick /\ s.overflows = x.overflows /\ s.unblock = x.unblock /\ s.top = x.top
      /\ s.susp = x.susp /\ s.pended = x.pended /\ s.yield = x.yield /\ s.fault = x.fault
      /\ s.preempt = x.preempt
  BY <1>2 DEF Fields, Reprio
<1>5. s.prio \in [Task -> Priorities] /\ s.prio[t] = p /\ \A u \in Task \ {t} : s.prio[u] = x.prio[u]
  BY <1>2, <1>3
<1>6. Shape(s)
  BY <1>1, <1>3, <1>4, <1>5 DEF Core, Shape
<1>7. Core(s)
  BY <1>1, <1>3, <1>6, CoreSame
<1>8. \A u \in Task \ {t}, q \in Priorities : s.where[u] = Ready(q) => q = s.prio[u] /\ q <= s.top
  BY <1>1, <1>3, <1>4, <1>5 DEF Right
<1>9. Left(s) /\ Early(s)
  BY <1>1, <1>3, <1>4 DEF Left, Early
<1>10. CASE x.where[t] = Ready(x.prio[t])
  <2>1. y = prvAddTaskToReadyList(RemoveState(s, t), t)
    BY <1>10
  <2>2. s.where[t] # None
    BY <1>3, <1>10, ListNames
  <2>3. Readied(s, y, t, s.evt[t])
    BY <1>7, <2>1, <2>2, ReadyDoes
  <2>4. \A u \in Task \ {t} : s.where[u] = Delayed(s.del) => s.wake[u] > s.tick /\ s.unblock <= s.wake[u]
    BY <1>9 DEF Early
  <2>5. Right(y) /\ Left(y) /\ Early(y)
    <3>1. PICK e : e = s.evt[t] OBVIOUS
    <3>2. Readied(s, y, t, e)
      BY <2>3, <3>1
    <3>3. /\ Right(y)
          /\ Left(s) => Left(y)
          /\ (\A u \in Task \ {t} : s.where[u] = Delayed(s.del) => s.wake[u] > s.tick /\ s.unblock <= s.wake[u])
             => Early(y)
      BY <1>7, <1>8, <3>2, ReadiedKeeps
    <3>4. QED BY <1>9, <2>4, <3>3
  <2>6. Data(y)
    BY <2>3, <2>5 DEF Readied, Data, Core
  <2>7. y.where = [s.where EXCEPT ![t] = Ready(p)] /\ y.evt = [s.evt EXCEPT ![t] = s.evt[t]]
    BY <1>5, <2>3 DEF Readied
  <2>8. y.evt = x.evt
    <3>1. x.evt \in [Task -> EventLists \cup {Pending, None}]
      BY <1>1 DEF Core, Shape
    <3>2. QED BY <1>3, <2>7, <3>1
  <2>9. y.where[t] = Ready(p) /\ \A u \in Task \ {t} : y.where[u] = x.where[u]
    BY <1>2, <1>3, <2>7
  <2>10. /\ y.prio = s.prio /\ y.state = s.state /\ y.cur = s.cur /\ y.started = s.started
         /\ y.tick = s.tick /\ y.susp = s.susp /\ y.pended = s.pended /\ y.fault = s.fault
         /\ y.preempt = s.preempt /\ y.yield = s.yield /\ y.overflows = s.overflows
    BY <2>3 DEF Readied, SameRest
  <2>11. QED BY <1>3, <1>4, <1>10, <2>6, <2>8, <2>9, <2>10
<1>11. CASE x.where[t] # Ready(x.prio[t])
  <2>1. y = s
    BY <1>11
  <2>2. \A q \in Priorities : x.where[t] # Ready(q)
    BY <1>1, <1>11 DEF Right
  <2>3. Right(s)
    BY <1>3, <1>8, <2>2 DEF Right
  <2>4. Data(s)
    BY <1>7, <1>9, <2>3 DEF Data, Core
  <2>5. QED BY <1>3, <1>4, <1>11, <2>1, <2>4
<1>12. QED BY <1>10, <1>11

\* A task that an interrupt has woken while the scheduler is suspended.
LEMMA PendData ==
  ASSUME NEW x, Data(x), NEW t \in Task, x.evt[t] = None, NEW y, y = vListInsertEnd(x, Pending, t)
  PROVE  /\ Data(y) /\ SameRest(x, y) /\ y.yield = x.yield /\ y.where = x.where
         /\ y.evt = [x.evt EXCEPT ![t] = Pending]
<1>1. Core(x)
  BY DEF Data, Core
<1>2. PICK l \in Lists : l = Pending /\ l \notin StateLists /\ l \notin DelayedLists
  BY ListNames
<1>3. Free(x, l, t)
  BY <1>2 DEF Free
<1>4. Core(y) /\ Inserted(x, y, l, t)
  BY <1>1, <1>2, <1>3, InsertEndDoes
<1>5. /\ SameRest(x, y) /\ SameMarks(x, y) /\ y.wake = x.wake /\ y.left = x.left
      /\ y.where = x.where /\ y.evt = [x.evt EXCEPT ![t] = Pending]
  BY <1>2, <1>4 DEF Inserted
<1>6. Right(y)
  BY <1>5 DEF Data, Right, SameRest, SameMarks
<1>7. Left(y)
  BY <1>5 DEF Data, Left, SameRest, SameMarks
<1>8. Early(y)
  BY <1>5 DEF Data, Early, SameRest, SameMarks
<1>9. QED BY <1>4, <1>5, <1>6, <1>7, <1>8 DEF Data, Core, SameMarks

(* m is x with the fields of a new task t, which is the one to run if b is 1. *)
Fresh(x, m, t, p, b) ==
  m = [[x EXCEPT !.prio[t] = p, !.state[t] = NotWaiting, !.value[t] = 0]
         EXCEPT !.cur = IF b = 1 THEN t ELSE @]

\* A new task becomes ready: prvAddNewTaskToReadyList.
LEMMA FreshReady ==
  ASSUME NEW x, Data(x), NEW t \in Task, x.where[t] = None, NEW p \in Priorities, NEW b \in {0, 1},
         NEW m, Fresh(x, m, t, p, b), NEW y, y = prvAddTaskToReadyList(m, t)
  PROVE  /\ Data(y) /\ y.prio = [x.prio EXCEPT ![t] = p] /\ y.state = [x.state EXCEPT ![t] = NotWaiting]
         /\ y.where = [x.where EXCEPT ![t] = Ready(p)] /\ y.evt = x.evt
         /\ y.cur = (IF b = 1 THEN t ELSE x.cur) /\ y.started = x.started /\ y.tick = x.tick
         /\ y.susp = x.susp /\ y.pended = x.pended /\ y.fault = x.fault /\ y.preempt = x.preempt
         /\ y.yield = x.yield /\ y.overflows = x.overflows
<1>1. Core(x) /\ Right(x) /\ Left(x) /\ Early(x)
  BY DEF Data, Core
<1>2. /\ DOMAIN x = Fields /\ x.prio \in [Task -> Priorities] /\ x.where \in [Task -> StateLists \cup {None}]
      /\ x.state \in [Task -> {NotWaiting, Waiting, Received}] /\ x.cur \in Task
  BY <1>1 DEF Core, Shape
<1>3. /\ DOMAIN m = Fields /\ m.prio = [x.prio EXCEPT ![t] = p] /\ m.list = x.list /\ m.index = x.index
      /\ m.where = x.where /\ m.evt = x.evt /\ m.wake = x.wake /\ m.left = x.left
      /\ m.state = [x.state EXCEPT ![t] = NotWaiting]
      /\ m.started = x.started /\ m.del = x.del
  BY <1>2 DEF Fields, Fresh
<1>4. /\ m.tick = x.tick /\ m.overflows = x.overflows /\ m.unblock = x.unblock /\ m.top = x.top
      /\ m.susp = x.susp /\ m.pended = x.pended /\ m.yield = x.yield /\ m.fault = x.fault
      /\ m.preempt = x.preempt
  BY <1>2 DEF Fields, Fresh
<1>5. m.cur = (IF b = 1 THEN t ELSE x.cur)
  BY <1>2 DEF Fields, Fresh
<1>6. m.prio \in [Task -> Priorities] /\ m.prio[t] = p /\ \A u \in Task \ {t} : m.prio[u] = x.prio[u]
  BY <1>2, <1>3
<1>7. m.state \in [Task -> {NotWaiting, Waiting, Received}] /\ m.cur \in Task
  BY <1>2, <1>3, <1>5
<1>8. Shape(m)
  BY <1>1, <1>3, <1>4, <1>6, <1>7 DEF Core, Shape
<1>9. Core(m)
  BY <1>1, <1>3, <1>8, CoreSame
<1>10. \A u \in Task \ {t}, q \in Priorities : m.where[u] = Ready(q) => q = m.prio[u] /\ q <= m.top
  BY <1>1, <1>3, <1>4, <1>6 DEF Right
<1>11. Left(m) /\ Early(m)
  BY <1>1, <1>3, <1>4 DEF Left, Early
<1>12. PICK e : e = m.evt[t] OBVIOUS
<1>13. Readied(m, y, t, e)
  <2>1. m.where[t] = None
    BY <1>3
  <2>2. QED BY <1>9, <1>12, <2>1, AddReadyDoes
<1>14. \A u \in Task \ {t} : m.where[u] = Delayed(m.del) => m.wake[u] > m.tick /\ m.unblock <= m.wake[u]
  BY <1>11 DEF Early
<1>15. Right(y) /\ Left(y) /\ Early(y)
  BY <1>9, <1>10, <1>11, <1>13, <1>14, ReadiedKeeps
<1>16. Data(y)
  BY <1>13, <1>15 DEF Readied, Data, Core
<1>17. y.where = [x.where EXCEPT ![t] = Ready(p)]
  BY <1>3, <1>6, <1>13 DEF Readied
<1>18. y.evt = x.evt
  <2>1. x.evt \in [Task -> EventLists \cup {Pending, None}]
    BY <1>1 DEF Core, Shape
  <2>2. y.evt = [m.evt EXCEPT ![t] = e]
    BY <1>13 DEF Readied
  <2>3. QED BY <1>3, <1>12, <2>1, <2>2
<1>19. /\ y.prio = m.prio /\ y.state = m.state /\ y.cur = m.cur /\ y.started = m.started
       /\ y.tick = m.tick /\ y.susp = m.susp /\ y.pended = m.pended /\ y.fault = m.fault
       /\ y.preempt = m.preempt /\ y.yield = m.yield /\ y.overflows = m.overflows
  BY <1>13 DEF Readied, SameRest
<1>20. QED BY <1>3, <1>4, <1>5, <1>16, <1>17, <1>18, <1>19

\* prvAddNewTaskToReadyList: a task whose priority is not below that of the one
\* to run takes its place, until the scheduler has started.
LEMMA CreateDoes ==
  ASSUME NEW x, Data(x), NEW t \in Task, x.where[t] = None, NEW p \in Priorities,
         NEW y, y = prvAddNewTaskToReadyList(x, t, p)
  PROVE  /\ Data(y) /\ y.prio = [x.prio EXCEPT ![t] = p] /\ y.state = [x.state EXCEPT ![t] = NotWaiting]
         /\ y.where = [x.where EXCEPT ![t] = Ready(p)] /\ y.evt = x.evt
         /\ y.started = x.started /\ y.tick = x.tick
         /\ y.susp = x.susp /\ y.pended = x.pended /\ y.fault = x.fault /\ y.preempt = x.preempt
         /\ y.yield = x.yield /\ y.overflows = x.overflows
         /\ Created(x) = {} \/ (x.started = 0 /\ x.prio[x.cur] <= p) => y.cur = t
         /\ ~(Created(x) = {} \/ (x.started = 0 /\ x.prio[x.cur] <= p)) => y.cur = x.cur
<1>1. CASE Created(x) = {} \/ (x.started = 0 /\ x.prio[x.cur] <= p)
  <2>1. PICK m : Fresh(x, m, t, p, 1)
    BY DEF Fresh
  <2>2. y = prvAddTaskToReadyList(m, t)
    BY <1>1, <2>1 DEF Fresh, prvAddNewTaskToReadyList, prvInitialiseNewTask
  <2>3. QED BY <1>1, <2>1, <2>2, FreshReady
<1>2. CASE ~(Created(x) = {} \/ (x.started = 0 /\ x.prio[x.cur] <= p))
  <2>1. PICK m : Fresh(x, m, t, p, 0)
    BY DEF Fresh
  <2>2. y = prvAddTaskToReadyList(m, t)
    BY <1>2, <2>1 DEF Fresh, prvAddNewTaskToReadyList, prvInitialiseNewTask
  <2>3. QED BY <1>2, <2>1, <2>2, FreshReady
<1>3. QED BY <1>1, <1>2
-----------------------------------------------------------------------------
(* The start of the scheduler *)

(* The tasks of U have been created, and the one to run is the first of them. *)
Booted(x, U) ==
  /\ Data(x) /\ x.susp = 0 /\ x.pended = 0 /\ x.yield = 0 /\ x.fault = 0 /\ x.preempt = 1
  /\ x.started = 0 /\ x.tick = 0
  /\ \A u \in Task : x.evt[u] = None /\ x.state[u] = NotWaiting
  /\ \A u \in U : x.where[u] = Ready(x.prio[u])
  /\ \A u \in Task \ U : x.where[u] = None
  /\ U # {} => x.cur \in U /\ \A u \in U : x.prio[u] <= x.prio[x.cur]

\* prvInitialiseTaskLists leaves empty lists.
LEMMA BootStarts ==
  ASSUME NEW x, x = prvInitialiseTaskLists(1, 1)
  PROVE  Booted(x, {})
<1>1. DOMAIN x = Fields
  BY DEF prvInitialiseTaskLists, Fields
<1>2. /\ x.list = [l \in Lists |-> <<>>] /\ x.index = [l \in Lists |-> 0]
      /\ x.where = [t \in Task |-> None] /\ x.evt = [t \in Task |-> None]
      /\ x.prio = [t \in Task |-> 0] /\ x.wake = [t \in Task |-> 0] /\ x.left = [t \in Task |-> 0]
      /\ x.state = [t \in Task |-> NotWaiting] /\ x.cur = Idle
  BY DEF prvInitialiseTaskLists
<1>3. /\ x.del = 0 /\ x.tick = 0 /\ x.overflows = 0 /\ x.unblock = 0 /\ x.top = 0 /\ x.started = 0
      /\ x.susp = 0 /\ x.pended = 0 /\ x.yield = 0 /\ x.fault = 0 /\ x.preempt = 1
  BY DEF prvInitialiseTaskLists
<1>4. 0 \in TickType /\ 0 \in Priorities /\ 0 \in 0 .. OverflowMod - 1 /\ Idle \in Task
  BY TasksAssumption DEF TickType, Priorities
<1>5. x.list \in [Lists -> Seq(Task)] /\ x.index \in [Lists -> Nat]
  <2>1. PICK e : e = <<>> /\ e \in Seq(Task)
    <3>1. PICK e : e = <<>> OBVIOUS
    <3>2. <<>> \in Seq(Task)
      BY EmptySeq, Zenon
    <3>3. e \in Seq(Task)
      BY <3>1, <3>2, Zenon
    <3>4. QED BY <3>1, <3>3, Zenon
  <2>2. x.list = [l \in Lists |-> e]
    BY <1>2, <2>1
  <2>3. x.list \in [Lists -> Seq(Task)]
    BY <2>1, <2>2, Zenon
  <2>4. x.index \in [Lists -> Nat]
    BY <1>2
  <2>5. QED BY <2>3, <2>4
<1>6. /\ x.where \in [Task -> StateLists \cup {None}] /\ x.evt \in [Task -> EventLists \cup {Pending, None}]
      /\ x.prio \in [Task -> Priorities] /\ x.wake \in [Task -> TickType] /\ x.left \in [Task -> Int]
      /\ x.state \in [Task -> {NotWaiting, Waiting, Received}]
  BY <1>2, <1>4
<1>7. Shape(x)
  BY <1>1, <1>2, <1>3, <1>4, <1>5, <1>6 DEF Shape
<1>8. \A l \in Lists : x.list[l] = <<>> /\ x.index[l] = 0
  BY <1>2
<1>9. \A l \in Lists, t \in Task : ~Holds(x, l, t)
  BY <1>2, ListNames DEF Holds
<1>10. Agree(x)
  <2>1. ASSUME NEW l \in Lists
        PROVE  /\ x.index[l] <= Len(x.list[l])
               /\ \A i, j \in DOMAIN x.list[l] : x.list[l][i] = x.list[l][j] => i = j
               /\ \A t \in Task : (\E i \in DOMAIN x.list[l] : x.list[l][i] = t) <=> Holds(x, l, t)
    <3>1. x.list[l] = <<>> /\ x.index[l] = 0 /\ DOMAIN x.list[l] = {}
      BY <1>8
    <3>2. Len(x.list[l]) = 0
      BY <3>1
    <3>3. QED BY <1>9, <3>1, <3>2
  <2>2. QED BY <2>1 DEF Agree
<1>11. Sorted(x)
  <2>1. \A l \in DelayedLists : DOMAIN x.list[l] = {}
    BY <1>8, ListNames
  <2>2. QED BY <2>1 DEF Sorted
<1>12. \A t \in Task : x.where[t] = None
  BY <1>2
<1>13. Right(x) /\ Left(x) /\ Early(x)
  BY <1>12, ListNames DEF Right, Left, Early
<1>14. Data(x)
  BY <1>7, <1>10, <1>11, <1>13 DEF Data
<1>15. \A u \in Task : x.evt[u] = None /\ x.state[u] = NotWaiting
  BY <1>2
<1>16. QED BY <1>3, <1>12, <1>14, <1>15 DEF Booted

\* Another task is created.
LEMMA BootStep ==
  ASSUME NEW x, NEW U, U \subseteq Task, Booted(x, U), NEW t \in Task \ U, NEW p \in Priorities,
         NEW y, y = prvAddNewTaskToReadyList(x, t, p)
  PROVE  Booted(y, U \cup {t}) /\ y.prio = [x.prio EXCEPT ![t] = p]
<1>1. Data(x) /\ x.where[t] = None /\ x.started = 0
  BY DEF Booted
<1>2. /\ Data(y) /\ y.prio = [x.prio EXCEPT ![t] = p] /\ y.state = [x.state EXCEPT ![t] = NotWaiting]
      /\ y.where = [x.where EXCEPT ![t] = Ready(p)] /\ y.evt = x.evt
      /\ y.started = x.started /\ y.tick = x.tick
      /\ y.susp = x.susp /\ y.pended = x.pended /\ y.fault = x.fault /\ y.preempt = x.preempt
      /\ y.yield = x.yield
      /\ Created(x) = {} \/ (x.started = 0 /\ x.prio[x.cur] <= p) => y.cur = t
      /\ ~(Created(x) = {} \/ (x.started = 0 /\ x.prio[x.cur] <= p)) => y.cur = x.cur
  BY <1>1, CreateDoes
<1>3. /\ x.prio \in [Task -> Priorities] /\ x.where \in [Task -> StateLists \cup {None}]
      /\ x.state \in [Task -> {NotWaiting, Waiting, Received}] /\ x.cur \in Task
  BY <1>1 DEF Data, Shape
<1>4. \A q \in Priorities : q \in Int
  BY TasksAssumption DEF Priorities
<1>5. /\ y.prio[t] = p /\ y.where[t] = Ready(p) /\ y.state[t] = NotWaiting
      /\ \A u \in Task \ {t} : y.prio[u] = x.prio[u] /\ y.where[u] = x.where[u] /\ y.state[u] = x.state[u]
  BY <1>2, <1>3
<1>6. Created(x) = U
  <2>1. \A q : Ready(q) # None
    BY ListNames
  <2>2. \A u \in Task : x.where[u] # None <=> u \in U
    BY <2>1 DEF Booted
  <2>3. QED BY <2>2 DEF Created
<1>7. y.cur \in U \cup {t} /\ \A u \in U \cup {t} : y.prio[u] <= y.prio[y.cur]
  <2>1. CASE U = {}
    <3>1. y.cur = t
      BY <1>2, <1>6, <2>1
    <3>2. QED BY <1>4, <1>5, <2>1, <3>1
  <2>2. CASE U # {} /\ x.prio[x.cur] <= p
    <3>1. y.cur = t
      BY <1>1, <1>2, <2>2
    <3>2. x.cur \in U /\ \A u \in U : x.prio[u] <= x.prio[x.cur]
      BY <2>2 DEF Booted
    <3>3. \A u \in Task : x.prio[u] \in Int
      BY <1>3, <1>4
    <3>4. p \in Int
      BY <1>4
    <3>5. \A u \in U : y.prio[u] <= p
      BY <1>3, <1>5, <2>2, <3>2, <3>3, <3>4
    <3>6. QED BY <1>5, <3>1, <3>4, <3>5
  <2>3. CASE U # {} /\ ~(x.prio[x.cur] <= p)
    <3>1. y.cur = x.cur
      BY <1>2, <1>6, <2>3
    <3>2. x.cur \in U /\ \A u \in U : x.prio[u] <= x.prio[x.cur]
      BY <2>3 DEF Booted
    <3>3. x.prio[x.cur] \in Int /\ p \in Int
      BY <1>3, <1>4
    <3>4. y.prio[x.cur] = x.prio[x.cur]
      BY <1>5, <3>2
    <3>5. \A u \in U : y.prio[u] <= y.prio[y.cur]
      BY <1>5, <3>1, <3>2, <3>4
    <3>6. y.prio[t] <= y.prio[y.cur]
      BY <1>5, <2>3, <3>1, <3>3, <3>4
    <3>7. QED BY <3>1, <3>2, <3>5, <3>6
  <2>4. QED BY <2>1, <2>2, <2>3
<1>8. \A u \in Task : y.evt[u] = None /\ y.state[u] = NotWaiting
  BY <1>2, <1>5 DEF Booted
<1>9. \A u \in U \cup {t} : y.where[u] = Ready(y.prio[u])
  BY <1>5 DEF Booted
<1>10. \A u \in Task \ (U \cup {t}) : y.where[u] = None
  BY <1>5 DEF Booted
<1>11. /\ y.susp = 0 /\ y.pended = 0 /\ y.yield = 0 /\ y.fault = 0 /\ y.preempt = 1
       /\ y.started = 0 /\ y.tick = 0
  BY <1>2 DEF Booted
<1>12. QED BY <1>2, <1>7, <1>8, <1>9, <1>10, <1>11 DEF Booted

\* main creates the tasks of the application.
LEMMA BootLoop ==
  ASSUME NEW s \in Seq((Task \ {Idle}) \X Priorities), NEW l \in Nat, l = Len(s),
         \A i, j \in DOMAIN s : s[i][1] = s[j][1] => i = j,
         NEW b, b = prvInitialiseTaskLists(1, 1), NEW y, y = CreateTurns(b, s),
         NEW U, U = {s[i][1] : i \in 1 .. l}
  PROVE  Booted(y, U)
<1>1. DOMAIN s = 1 .. l /\ \A i \in 1 .. l : s[i] \in (Task \ {Idle}) \X Priorities
  OBVIOUS
<1>2. \A i \in 1 .. l : s[i][1] \in Task \ {Idle} /\ s[i][2] \in Priorities
  BY <1>1
<1>3. PICK f : /\ f[0] = b
               /\ \A n \in 1 .. l : f[n] = CreateOne(f[n - 1], s[n])
               /\ f[l] = CreateTurns(b, s)
  <2>1. PICK f : CreateRun(f, b, s, l)
    BY CreateOneLoop
  <2>2. QED BY <2>1, Zenon DEF CreateRun
<1> DEFINE Done(n) == {s[i][1] : i \in 1 .. n}
           S == {n \in 0 .. l : Booted(f[n], Done(n))}
<1>4. 0 \in S
  <2>1. Done(0) = {}
    OBVIOUS
  <2>2. Booted(b, {})
    BY BootStarts
  <2>3. Booted(f[0], Done(0))
    BY <1>3, <2>1, <2>2
  <2>4. QED BY <2>3
<1>5. ASSUME NEW m \in 0 .. l - 1, m \in S PROVE m + 1 \in S
  <2>1. PICK n \in 1 .. l : n = m + 1 /\ n - 1 = m
    OBVIOUS
  <2>2. PICK v : v = f[m] OBVIOUS
  <2>3. PICK z : z = f[n] OBVIOUS
  <2>4. PICK t \in Task, p \in Priorities : t = s[n][1] /\ p = s[n][2]
    BY <1>2
  <2>5. z = prvAddNewTaskToReadyList(v, t, p)
    BY <1>3, <2>1, <2>2, <2>3, <2>4 DEF CreateOne
  <2>6. PICK D : D = Done(m) OBVIOUS
  <2>7. D \subseteq Task
    BY <1>2, <2>6
  <2>8. t \in Task \ D
    BY <1>1, <2>1, <2>4, <2>6, SMTT(30)
  <2>9. Booted(v, D)
    BY <1>5, <2>2, <2>6
  <2>10. Booted(z, D \cup {t})
    BY <2>5, <2>7, <2>8, <2>9, BootStep
  <2>11. D \cup {t} = Done(n)
    BY <2>1, <2>4, <2>6
  <2>12. Booted(f[n], Done(n))
    BY <2>3, <2>10, <2>11
  <2>13. QED BY <2>1, <2>12
<1>6. l \in S
  <2> HIDE DEF S
  <2>1. 0 .. l \subseteq S
    BY <1>4, <1>5, UpTo
  <2>2. QED BY <2>1
<1>7. QED BY <1>3, <1>6

\* vTaskStartScheduler: the idle task is ready too, and the task to run is on top.
LEMMA StartDoes ==
  ASSUME NEW x, NEW U, U \subseteq Task \ {Idle}, U # {}, Booted(x, U), NEW y, y = vTaskStartScheduler(x)
  PROVE  /\ Data(y) /\ y.susp = 0 /\ y.pended = 0 /\ y.yield = 0 /\ y.fault = 0 /\ y.preempt = 1
         /\ y.started = 1 /\ y.tick = 0 /\ OnTop(y)
         /\ \A u \in Task : y.evt[u] = None /\ y.state[u] = NotWaiting
         /\ y.where[Idle] = Ready(0) /\ y.prio[Idle] = 0
<1>1. 0 \in Priorities /\ Idle \in Task \ U /\ U \subseteq Task
  BY TasksAssumption DEF Priorities
<1>2. PICK c : c = prvCreateIdleTasks(x) OBVIOUS
<1>3. PICK V : V = U \cup {Idle} OBVIOUS
<1>4. Booted(c, V) /\ c.prio = [x.prio EXCEPT ![Idle] = 0]
  <2>1. c = prvAddNewTaskToReadyList(x, Idle, 0)
    BY <1>2 DEF prvCreateIdleTasks
  <2>2. QED BY <1>1, <1>3, <2>1, BootStep
<1>5. Data(c) /\ DOMAIN c = Fields
  BY <1>4 DEF Booted, Data, Shape
<1>6. y = [c EXCEPT !.unblock = portMAX_DELAY, !.started = 1, !.tick = 0]
  BY <1>2 DEF vTaskStartScheduler
<1>7. /\ DOMAIN y = Fields /\ y.list = c.list /\ y.index = c.index /\ y.where = c.where /\ y.evt = c.evt
      /\ y.wake = c.wake /\ y.left = c.left /\ y.prio = c.prio /\ y.state = c.state /\ y.cur = c.cur
      /\ y.started = 1 /\ y.del = c.del
  BY <1>5, <1>6 DEF Fields
<1>8. /\ y.tick = 0 /\ y.overflows = c.overflows /\ y.unblock = portMAX_DELAY /\ y.top = c.top
      /\ y.susp = c.susp /\ y.pended = c.pended /\ y.yield = c.yield /\ y.fault = c.fault
      /\ y.preempt = c.preempt
  BY <1>5, <1>6 DEF Fields
<1>9. 0 \in TickType /\ portMAX_DELAY \in TickType
  BY TasksAssumption DEF TickType, portMAX_DELAY
<1>10. Shape(y)
  BY <1>5, <1>7, <1>8, <1>9 DEF Data, Shape
<1>11. Core(c)
  BY <1>5 DEF Data, Core
<1>12. Core(y)
  BY <1>7, <1>10, <1>11, CoreSame
<1>13. Right(y)
  BY <1>5, <1>7, <1>8 DEF Data, Right
<1>14. \A u \in Task : \A i : y.where[u] # Delayed(i)
  <2>1. \A u \in Task : c.where[u] = Ready(c.prio[u]) \/ c.where[u] = None
    BY <1>4 DEF Booted
  <2>2. QED BY <1>7, <2>1, ListNames
<1>15. Left(y) /\ Early(y)
  BY <1>14 DEF Left, Early
<1>16. OnTop(y)
  <2>1. c.cur \in V /\ \A u \in V : c.prio[u] <= c.prio[c.cur]
    BY <1>3, <1>4 DEF Booted
  <2>2. c.where[c.cur] = Ready(c.prio[c.cur])
    BY <1>4, <2>1 DEF Booted
  <2>3. \A u \in Task : c.where[u] = Ready(c.prio[u]) => u \in V
    BY <1>4, ListNames DEF Booted
  <2>4. QED BY <1>7, <2>1, <2>2, <2>3 DEF OnTop
<1>17. Data(y)
  BY <1>12, <1>13, <1>15 DEF Data, Core
<1>18. x.prio \in [Task -> Priorities]
  BY DEF Booted, Data, Shape
<1>19. c.prio[Idle] = 0
  BY <1>1, <1>4, <1>18
<1>20. c.where[Idle] = Ready(0)
  BY <1>3, <1>4, <1>19 DEF Booted
<1>21. /\ c.susp = 0 /\ c.pended = 0 /\ c.yield = 0 /\ c.fault = 0 /\ c.preempt = 1
       /\ \A u \in Task : c.evt[u] = None /\ c.state[u] = NotWaiting
  BY <1>4 DEF Booted
<1>22. QED BY <1>7, <1>8, <1>16, <1>17, <1>19, <1>20, <1>21

\* main creates the tasks of the application and starts the scheduler: none of
\* them waits for anything.
LEMMA InitStarts ==
  ASSUME Init
  PROVE  /\ Data(k) /\ k.susp = 0 /\ k.pended = 0 /\ k.yield = 0 /\ k.fault = 0 /\ k.preempt = 1
         /\ k.started = 1 /\ k.tick = 0 /\ OnTop(k)
         /\ \A u \in Task : k.evt[u] = None /\ k.state[u] = NotWaiting
         /\ k.where[Idle] = Ready(0) /\ k.prio[Idle] = 0
<1>1. PICK s \in Seq((Task \ {Idle}) \X Priorities) :
        s = app.boot /\ s # <<>> /\ \A i, j \in DOMAIN s : s[i][1] = s[j][1] => i = j
  BY KernelAssumption DEF Init
<1>2. PICK l \in Nat : l = Len(s) /\ l > 0
  BY <1>1
<1>3. PICK b : b = prvInitialiseTaskLists(1, 1) OBVIOUS
<1>4. PICK x : x = CreateTurns(b, s) OBVIOUS
<1>5. PICK U : U = {s[i][1] : i \in 1 .. l} OBVIOUS
<1>6. Booted(x, U)
  BY <1>1, <1>2, <1>3, <1>4, <1>5, BootLoop
<1>7. U \subseteq Task \ {Idle} /\ U # {}
  <2>1. \A i \in 1 .. l : s[i] \in (Task \ {Idle}) \X Priorities
    BY <1>2
  <2>2. \A i \in 1 .. l : s[i][1] \in Task \ {Idle}
    BY <2>1
  <2>3. s[1][1] \in U
    BY <1>2, <1>5
  <2>4. QED BY <1>5, <2>2, <2>3
<1>8. k = vTaskStartScheduler(x)
  BY <1>1, <1>3, <1>4 DEF Init, CreateTurns
<1>9. QED BY <1>6, <1>7, <1>8, StartDoes

\* The invariant holds when the first task starts.
LEMMA SchedInit ==
  ASSUME Init
  PROVE  SchedInv
<1>1. /\ Data(k) /\ k.susp = 0 /\ k.pended = 0 /\ k.yield = 0 /\ k.fault = 0 /\ k.preempt = 1
      /\ k.started = 1 /\ k.tick = 0 /\ OnTop(k)
      /\ \A u \in Task : k.evt[u] = None /\ k.state[u] = NotWaiting
      /\ k.where[Idle] = Ready(0) /\ k.prio[Idle] = 0
  BY InitStarts
<1>2. Idle \in Task /\ k.cur \in Task
  BY <1>1, TasksAssumption DEF Data, Shape
<1>3. DOMAIN pc = Task /\ \A t \in Task : pc[t][1] = "run"
  BY DEF Init
<1>4. "run" \notin Locking
  BY DEF Locking
<1>5. PlacesInv
  BY <1>1, <1>2, <1>3, <1>4 DEF PlacesInv
<1>6. ItemsInv
  <2>1. k.where[k.cur] # None
    BY <1>1, ListNames DEF OnTop
  <2>2. Parked(k)
    BY <1>1, ListNames DEF Parked
  <2>3. k.state[Idle] # Waiting
    BY <1>1, <1>2 DEF NotWaiting, Waiting
  <2>4. QED BY <1>1, <2>1, <2>2, <2>3 DEF ItemsInv
<1>7. TimeInv
  <2>1. last = [t \in Task |-> 0] /\ ticks = 0
    BY DEF Init
  <2>2. TickMod \in Nat /\ TickMod > 0 /\ MaxPended \in Nat
    BY TasksAssumption, KernelAssumption
  <2>3. 0 \in TickType /\ (0 + 0) % TickMod = 0 /\ 0 \in 0 .. MaxPended
    BY <2>2 DEF TickType
  <2>4. last \in [Task -> TickType]
    BY <2>1, <2>3
  <2>5. QED BY <1>1, <2>1, <2>3, <2>4 DEF TimeInv
<1>8. HeldInv
  BY DEF Init, HeldInv
<1>9. RunsInv
  BY <1>1 DEF RunsInv, OnTop
<1>10. NotesInv
  BY <1>3 DEF NotesInv, Users
<1>11. app \in Apps
  BY DEF Init
<1>12. QED BY <1>1, <1>5, <1>6, <1>7, <1>8, <1>9, <1>10, <1>11 DEF SchedInv
-----------------------------------------------------------------------------
(* The steps of the scheduler *)

(* What a step does to the tasks that wait: none of them joins a list, only    *)
(* one that starts to wait for a notification is marked as waiting, and the    *)
(* clock goes on by the ticks that were remembered and are so no longer, d of  *)
(* them new.                                                                   *)
NoneJoins(x, y) ==
  \A u \in Task : /\ y.evt[u] \in {x.evt[u], None}
                  /\ y.state[u] = Waiting => x.state[u] = Waiting \/ pc'[u][1] \in Notifying
Passes(x, y, d) ==
  NoneJoins(x, y) /\ \E n \in Nat : y.pended + n = x.pended + d /\ Later(x, y, n)

\* A step that leaves the clock alone.
LEMMA ClockStays ==
  ASSUME NEW x, Data(x), NEW y, NoneJoins(x, y), y.tick = x.tick, y.overflows = x.overflows,
         y.pended = x.pended
  PROVE  Passes(x, y, 0)
<1>1. Shape(x) /\ x.pended \in Nat
  BY DEF Data, Shape
<1>2. Later(x, y, 0)
  BY <1>1, LaterNow
<1>3. y.pended + 0 = x.pended + 0 /\ 0 \in Nat
  BY <1>1
<1>4. QED BY <1>2, <1>3 DEF Passes

\* Who has suspended the scheduler.
LEMMA Locked ==
  ASSUME SchedInv
  PROVE  /\ k.cur \in Task /\ DOMAIN pc = Task
         /\ k.susp = 0 \/ k.susp = 1
         /\ k.susp = 0 => \A u \in Task : pc[u][1] \notin Locking
         /\ k.susp = 1 => pc[k.cur][1] \in Locking
         /\ pc[k.cur][1] \in Locking => k.susp = 1
         /\ Idle \in Task /\ k.where[Idle] = Ready(0)
<1>1. k.cur \in Task /\ Idle \in Task
  BY TasksAssumption DEF SchedInv, Data, Shape
<1>2. QED BY <1>1 DEF SchedInv, PlacesInv, ItemsInv

(* Nothing of z that the invariant speaks of differs from x. *)
Alike(x, z) ==
  /\ Data(z) /\ z.where = x.where /\ z.evt = x.evt /\ z.prio = x.prio /\ z.state = x.state
  /\ z.cur = x.cur /\ z.started = x.started /\ z.tick = x.tick /\ z.susp = x.susp
  /\ z.pended = x.pended /\ z.fault = x.fault /\ z.preempt = x.preempt /\ z.yield = x.yield
  /\ z.overflows = x.overflows

\* A step that ends in vTaskSwitchContext, of the task that runs.
LEMMA Switches ==
  ASSUME SchedInv, NEW z, Alike(k, z), k' = vTaskSwitchContext(z),
         app' = app, last' = last, ticks' = ticks, held' = held,
         NEW t \in Task, t = k.cur, DOMAIN pc' = Task, \A u \in Task \ {t} : pc'[u] = pc[u],
         \/ pc'[t] = pc[t]
         \/ pc[t][1] \notin Locking /\ pc'[t][1] = "run"
         \/ pc[t][1] = "handover" /\ pc'[t][1] = "collect"
         \/ pc[t][1] = "give_way" /\ pc'[t][1] = "again"
  PROVE  SchedInv' /\ Passes(k, k', 0)
<1>1. PICK y : y = k' OBVIOUS
<1>2. /\ z.where = k.where /\ z.evt = k.evt /\ z.prio = k.prio /\ z.state = k.state /\ Data(z)
      /\ z.cur = k.cur /\ z.started = k.started /\ z.tick = k.tick /\ z.susp = k.susp
      /\ z.pended = k.pended /\ z.fault = k.fault /\ z.preempt = k.preempt /\ z.yield = k.yield
      /\ z.overflows = k.overflows
  BY DEF Alike
<1>3. /\ Data(y) /\ Switched(z, y)
      /\ z.susp = 0 => y.yield = 0 /\ OnTop(y)
      /\ z.susp # 0 => y.yield = 1 /\ y.cur = z.cur
  BY <1>1, <1>2, Locked, SwitchData
<1>4. /\ y.where = k.where /\ y.evt = k.evt /\ y.prio = k.prio /\ y.state = k.state
      /\ y.started = k.started /\ y.tick = k.tick /\ y.susp = k.susp
      /\ y.pended = k.pended /\ y.fault = k.fault /\ y.preempt = k.preempt
      /\ y.overflows = k.overflows
  BY <1>2, <1>3 DEF Switched
<1>5. y.cur \in Task
  BY <1>3 DEF Data, Shape
<1>6. \A u \in Task : pc'[u][1] \in Locking => pc'[u] = pc[u]
  <2>1. "run" \notin Locking /\ "collect" \notin Locking /\ "again" \notin Locking
    BY DEF Locking
  <2>2. QED BY <2>1
<1>7. PlacesInv' /\ RunsInv' /\ y.where[y.cur] # None /\ (y.cur \in held => pc'[y.cur][1] = "suspend")
  <2>1. CASE k.susp = 0
    <3>1. y.yield = 0 /\ OnTop(y) /\ y.susp = 0
      BY <1>2, <1>3, <1>4, <2>1
    <3>2. \A u \in Task : pc'[u][1] \notin Locking
      BY <1>6, <2>1, Locked
    <3>3. PlacesInv'
      <4>1. "block_take" \in Locking /\ "block_wait" \in Locking
        BY DEF Locking
      <4>2. \A u \in Task : pc'[u][1] = "created" => pc'[u][2] \in Priorities
        BY DEF SchedInv, PlacesInv
      <4>3. QED BY <1>1, <1>5, <3>1, <3>2, <4>1, <4>2 DEF PlacesInv
    <3>4. RunsInv'
      BY <1>1, <3>1 DEF RunsInv, OnTop
    <3>5. y.where[y.cur] # None /\ y.where[y.cur] # Suspended
      BY <3>1, ListNames DEF OnTop
    <3>6. y.cur \notin held
      BY <1>4, <3>5 DEF SchedInv, HeldInv
    <3>7. QED BY <3>3, <3>4, <3>5, <3>6
  <2>2. CASE k.susp = 1
    <3>1. y.yield = 1 /\ y.cur = t /\ y.susp = 1
      BY <1>2, <1>3, <1>4, <2>2
    <3>2. pc'[t] = pc[t] /\ pc[t][1] \in Locking
      BY <2>2, Locked DEF Locking
    <3>3. \A u \in Task : pc'[u] = pc[u]
      BY <3>2
    <3>4. PlacesInv'
      BY <1>1, <3>1, <3>2, <3>3 DEF PlacesInv, SchedInv
    <3>5. RunsInv'
      BY <1>1, <1>4, <3>1, <3>2 DEF RunsInv, SchedInv
    <3>6. QED BY <1>4, <3>1, <3>2, <3>4, <3>5 DEF SchedInv, ItemsInv, HeldInv
  <2>3. QED BY <2>1, <2>2, Locked
<1>8. ItemsInv'
  BY <1>1, <1>4, <1>7 DEF SchedInv, ItemsInv, Parked
<1>9. TimeInv'
  BY <1>1, <1>4 DEF SchedInv, TimeInv
<1>10. HeldInv'
  BY <1>1, <1>4, <1>7 DEF SchedInv, HeldInv
<1>11. NotesInv'
  <2>1. \A u \in Task : pc'[u][1] \in {"block_take", "block_wait"} => pc[u] = pc'[u]
    OBVIOUS
  <2>2. \A u \in Task : pc'[u][1] \in {"blocked", "handover", "collect"} =>
          pc[u][1] \in {"blocked", "handover", "collect"}
    OBVIOUS
  <2>3. QED BY <1>1, <1>4, <2>1, <2>2 DEF SchedInv, NotesInv, Users
<1>12. Passes(k, k', 0)
  <2>1. NoneJoins(k, y) /\ Data(k)
    BY <1>4 DEF NoneJoins, SchedInv
  <2>2. QED BY <1>1, <1>4, <2>1, ClockStays
<1>13. QED BY <1>1, <1>3, <1>4, <1>7, <1>8, <1>9, <1>10, <1>11, <1>12 DEF SchedInv

\* A step that ends in xTaskResumeAll, of the task that has suspended the scheduler.
LEMMA Resumes ==
  ASSUME SchedInv, NEW t \in Task, t = k.cur, pc[t][1] \in Locking, NEW r, r = xTaskResumeAll(k), k' = r.k,
         app' = app, last' = last, ticks' = ticks, held' = held,
         DOMAIN pc' = Task, \A u \in Task \ {t} : pc'[u] = pc[u],
         pc'[t][1] \in {"run", "yield", "create", "collect", "handover", "again", "give_way", "failed", "look"},
         pc'[t][1] \notin Yielding /\ ~r.yielded => k.where[t] = Ready(k.prio[t]),
         pc'[t][1] \in {"collect", "handover"} => pc[t][1] \in {"blocked", "nowait"}
  PROVE  SchedInv' /\ Passes(k, k', 0)
<1>1. PICK y : y = k' OBVIOUS
<1>2. k.susp = 1 /\ k.fault = 0 /\ k.preempt = 1 /\ Data(k) /\ k.where[Idle] = Ready(0) /\ Idle \in Task
  BY Locked DEF SchedInv
<1>3. /\ Data(y) /\ y.susp = 0 /\ y.fault = 0 /\ y.preempt = 1 /\ y.pended = 0 /\ y.yield = 0
      /\ y.tick = (k.tick + k.pended) % TickMod
      /\ y.prio = k.prio /\ y.state = k.state /\ y.started = k.started
      /\ Resumed(k, y) /\ Later(k, y, k.pended)
      /\ r.yielded => OnTop(y)
      /\ ~r.yielded => y.cur = k.cur /\ k.yield = 0 /\ Quiet(k, y)
  <2>1. \A u \in Task : k.evt[u] = Pending => k.where[u] # None
    BY ListNames DEF SchedInv, ItemsInv, Parked
  <2>2. QED BY <1>1, <1>2, <2>1, ResumeDoes
<1>4. y.cur \in Task /\ y.tick \in TickType
  BY <1>3 DEF Data, Shape
<1>5. \A u \in Task : pc'[u][1] \notin Locking
  <2>1. \A u \in Task \ {t} : pc[u][1] \notin Locking
    BY DEF SchedInv, PlacesInv
  <2>2. pc'[t][1] \notin Locking
    BY DEF Locking
  <2>3. QED BY <2>1, <2>2
<1>6. PlacesInv'
  <2>1. "block_take" \in Locking /\ "block_wait" \in Locking
    BY DEF Locking
  <2>2. \A u \in Task : pc'[u][1] = "created" => pc'[u][2] \in Priorities
    BY DEF SchedInv, PlacesInv
  <2>3. QED BY <1>1, <1>3, <1>4, <1>5, <2>1, <2>2 DEF PlacesInv
<1>7. \A u \in Task : \/ y.where[u] = k.where[u] /\ y.evt[u] = k.evt[u] /\ k.evt[u] # Pending
                      \/ /\ k.where[u] \in DelayedLists \/ k.evt[u] = Pending
                         /\ y.where[u] = Ready(k.prio[u]) /\ y.evt[u] = None
  BY <1>3 DEF Resumed
<1>8. \A u \in Task : /\ y.evt[u] \in {k.evt[u], None} /\ y.evt[u] # Pending
                      /\ y.evt[u] \in EventLists => y.evt[u] = k.evt[u] /\ y.where[u] = k.where[u]
                      /\ k.where[u] # None => y.where[u] # None
                      /\ k.where[u] = Suspended /\ k.evt[u] = None => y.where[u] = Suspended
                      /\ k.where[u] = Ready(k.prio[u]) \/ k.evt[u] = Pending => y.where[u] = Ready(k.prio[u])
  <2>1. None \notin EventLists
    BY ListNames
  <2>2. Suspended \notin DelayedLists /\ \A p : Ready(p) # None
    BY ListNames
  <2>3. None # Pending
    BY ListNames
  <2>4. QED BY <1>7, <2>1, <2>2, <2>3
<1>9. y.where[y.cur] # None
  <2>1. CASE r.yielded
    BY <1>3, <2>1, ListNames DEF OnTop
  <2>2. CASE ~r.yielded
    <3>1. k.where[k.cur] # None
      BY DEF SchedInv, ItemsInv
    <3>2. QED BY <1>3, <1>4, <1>8, <2>2, <3>1
  <2>3. QED BY <2>1, <2>2
<1>10. ItemsInv'
  <2>1. k.prio[Idle] = 0 /\ k.state[Idle] # Waiting
    BY DEF SchedInv, ItemsInv
  <2>2. y.where[Idle] = Ready(0)
    BY <1>2, <1>8, <2>1
  <2>3. None # Pending
    BY ListNames
  <2>4. Parked(y)
    <3>1. ASSUME NEW u \in Task
          PROVE  /\ y.evt[u] # None => y.where[u] # None /\ y.state[u] # Waiting
                 /\ y.evt[u] = Pending => y.susp = 1
                 /\ y.evt[u] \in EventLists => y.where[u] \in DelayedLists \cup {Suspended}
      BY <1>3, <1>8 DEF SchedInv, ItemsInv, Parked
    <3>2. QED BY <3>1 DEF Parked
  <2>5. QED BY <1>1, <1>3, <1>9, <2>1, <2>2, <2>4 DEF ItemsInv
<1>11. TimeInv'
  <2>1. TickMod \in Nat /\ TickMod > 0 /\ MaxPended \in Nat
    BY TasksAssumption, KernelAssumption
  <2>2. (y.tick + 0) % TickMod = y.tick
    BY <1>4, <2>1 DEF TickType
  <2>3. ticks = y.tick /\ last \in [Task -> TickType]
    BY <1>3 DEF SchedInv, TimeInv
  <2>4. 0 \in 0 .. MaxPended
    BY <2>1
  <2>5. QED BY <1>1, <1>3, <2>2, <2>3, <2>4 DEF TimeInv
<1>12. y.cur \notin held
  <2>1. CASE r.yielded
    <3>1. y.where[y.cur] # Suspended
      BY <1>3, <2>1, ListNames DEF OnTop
    <3>2. QED BY <1>4, <1>8, <3>1 DEF SchedInv, HeldInv
  <2>2. CASE ~r.yielded
    BY <1>3, <2>2 DEF SchedInv, HeldInv, Locking
  <2>3. QED BY <2>1, <2>2
<1>13. HeldInv'
  <2>1. held \subseteq Task
    BY DEF SchedInv, HeldInv, Users
  <2>2. QED BY <1>1, <1>3, <1>8, <1>12, <2>1 DEF SchedInv, HeldInv
<1>14. RunsInv'
  <2>1. CASE r.yielded
    BY <1>1, <1>3, <2>1 DEF RunsInv, OnTop
  <2>2. CASE ~r.yielded /\ pc'[t][1] \in Yielding
    BY <1>1, <1>3, <2>2 DEF RunsInv, Yielding, Leaving
  <2>3. CASE ~r.yielded /\ pc'[t][1] \notin Yielding
    <3>1. y.cur = t /\ k.yield = 0 /\ Quiet(k, y)
      BY <1>3, <2>3
    <3>2. pc[t][1] \notin Yielding /\ pc[t][1] # "created"
      BY DEF Locking, Yielding
    <3>3. /\ k.where[t] = Ready(k.prio[t])
          /\ \A u \in Task : k.where[u] = Ready(k.prio[u]) => k.prio[u] <= k.prio[t]
      BY <2>3, <3>1, <3>2 DEF SchedInv, RunsInv
    <3>4. y.where[t] = Ready(k.prio[t])
      BY <1>8, <3>3
    <3>5. ASSUME NEW u \in Task, y.where[u] = Ready(k.prio[u]) PROVE k.prio[u] <= k.prio[t]
      <4>1. CASE y.where[u] = k.where[u]
        BY <3>3, <3>5, <4>1
      <4>2. CASE y.where[u] # k.where[u]
        <5>1. ~(k.prio[u] > k.prio[t])
          BY <3>1, <4>2 DEF Quiet
        <5>2. k.prio[u] \in Int /\ k.prio[t] \in Int
          BY <1>2, TasksAssumption DEF Data, Shape, Priorities
        <5>3. QED BY <5>1, <5>2
      <4>3. QED BY <4>1, <4>2
    <3>6. QED BY <1>1, <1>3, <3>1, <3>4, <3>5 DEF RunsInv
  <2>4. QED BY <2>1, <2>2, <2>3
<1>15. NotesInv'
  <2>1. ASSUME NEW u \in Users \ held, pc'[u][1] \in {"blocked", "handover", "collect"}, k.state[u] # Waiting
        PROVE  y.where[u] = Ready(k.prio[u])
    <3>0. u \in Task
      BY DEF Users
    <3>1. CASE u # t
      <4>1. k.where[u] = Ready(k.prio[u]) \/ k.evt[u] = Pending
        BY <2>1, <3>0, <3>1 DEF SchedInv, NotesInv
      <4>2. QED BY <1>8, <3>0, <4>1
    <3>2. CASE u = t /\ pc[t][1] = "blocked"
      <4>1. k.where[u] = Ready(k.prio[u]) \/ k.evt[u] = Pending
        BY <2>1, <3>2 DEF SchedInv, NotesInv
      <4>2. QED BY <1>8, <3>0, <4>1
    <3>3. CASE u = t /\ pc[t][1] = "nowait"
      <4>1. k.where[t] = Ready(k.prio[t])
        BY <3>3 DEF SchedInv, RunsInv, Leaving
      <4>2. QED BY <1>8, <3>3, <4>1
    <3>4. QED BY <2>1, <3>1, <3>2, <3>3
  <2>2. \A u \in Task : pc'[u][1] \notin {"block_take", "block_wait"}
    BY <1>5 DEF Locking
  <2>3. QED BY <1>1, <1>3, <2>1, <2>2 DEF NotesInv
<1>16. Passes(k, k', 0)
  <2>1. NoneJoins(k, y)
    BY <1>3, <1>8 DEF NoneJoins
  <2>2. k.pended \in Nat /\ y.pended + k.pended = k.pended + 0
    BY <1>2, <1>3 DEF Data, Shape
  <2>3. QED BY <1>1, <1>3, <2>1, <2>2 DEF Passes
<1>17. QED BY <1>1, <1>3, <1>6, <1>10, <1>11, <1>13, <1>14, <1>15, <1>16 DEF SchedInv

\* A step that suspends the scheduler, of a task in its own code.
LEMMA Locks ==
  ASSUME SchedInv, NEW t \in Users, t = k.cur, pc[t][1] \in {"run", "suspend_all"}, NEW y, k' = y,
         app' = app, held' = held, TimeInv',
         DOMAIN pc' = Task, \A u \in Task \ {t} : pc'[u] = pc[u],
         pc'[t][1] \in {"delay", "locked", "catchup", "malloc", "block_take", "block_wait", "nowait",
                       "lock"},
         Data(y), y.fault = 0, y.preempt = 1, y.started = 1, y.susp = 1, y.cur = k.cur, y.prio = k.prio,
         y.evt = k.evt, y.yield = k.yield, y.tick = k.tick, y.overflows = k.overflows,
         \A u \in Task \ {t} : y.where[u] = k.where[u] /\ y.state[u] = k.state[u],
         y.where[t] = k.where[t] \/ (pc'[t][1] = "delay" /\ y.where[t] \in {Delayed(0), Delayed(1), Suspended}),
         pc'[t][1] \in {"block_take", "block_wait"} => y.state[t] = Waiting /\ pc'[t][2] \in TickType \ {0},
         y.state[t] = Waiting => k.state[t] = Waiting \/ pc'[t][1] \in {"block_take", "block_wait", "nowait"}
  PROVE  SchedInv' /\ NoneJoins(k, k') /\ (y.pended = k.pended => Passes(k, k', 0))
<1>1. t \in Task /\ t # Idle /\ Idle \in Task /\ k.cur \in Task
  BY Locked DEF Users
<1>2. pc[t][1] \notin Locking /\ pc'[t][1] \in Locking
  BY DEF Locking
<1>3. k.susp = 0 /\ \A u \in Task : pc[u][1] \notin Locking
  BY <1>1, <1>2, Locked
<1>4. PlacesInv'
  <2>1. \A u \in Task \ {t} : pc'[u][1] \notin {"block_take", "block_wait"}
    BY <1>3 DEF Locking
  <2>2. \A u \in Task : pc'[u][1] = "created" => pc'[u][2] \in Priorities
    BY DEF SchedInv, PlacesInv
  <2>3. QED BY <1>1, <1>2, <1>3, <2>1, <2>2 DEF PlacesInv
<1>5. /\ k.where[t] = Ready(k.prio[t]) /\ k.evt[t] = None
      /\ \A u \in Task : k.evt[u] # Pending
  <2>1. k.where[t] = Ready(k.prio[t])
    BY DEF SchedInv, RunsInv, Leaving
  <2>2. Ready(k.prio[t]) \notin DelayedLists \cup {Suspended}
    BY ListNames DEF DelayedLists
  <2>3. k.evt[t] \in EventLists \cup {Pending, None}
    BY <1>1 DEF SchedInv, Data, Shape
  <2>4. \A u \in Task : k.evt[u] # Pending
    BY <1>3 DEF SchedInv, ItemsInv, Parked
  <2>5. QED BY <1>1, <2>1, <2>2, <2>3, <2>4 DEF SchedInv, ItemsInv, Parked
<1>6. k.where[t] # None /\ k.where[Idle] = Ready(0) /\ k.prio[Idle] = 0 /\ k.state[Idle] # Waiting
  BY <1>1 DEF SchedInv, ItemsInv
<1>7. y.where[t] # None
  BY <1>6, ListNames
<1>8. None # Pending
  BY ListNames
<1>9. ItemsInv'
  <2>1. ASSUME NEW u \in Task
        PROVE  /\ y.evt[u] # None => y.where[u] # None /\ y.state[u] # Waiting
               /\ y.evt[u] = Pending => y.susp = 1
               /\ y.evt[u] \in EventLists => y.where[u] \in DelayedLists \cup {Suspended}
    <3>1. CASE u = t
      BY <1>5, <1>8, <3>1, ListNames
    <3>2. CASE u # t
      BY <1>5, <3>2 DEF SchedInv, ItemsInv, Parked
    <3>3. QED BY <3>1, <3>2
  <2>2. Parked(y)
    BY <2>1 DEF Parked
  <2>3. QED BY <1>1, <1>6, <1>7, <2>2 DEF ItemsInv
<1>10. t \notin held
  BY <1>1 DEF SchedInv, HeldInv
<1>11. HeldInv'
  <2>1. held \subseteq Task
    BY DEF SchedInv, HeldInv, Users
  <2>2. QED BY <1>10, <2>1 DEF SchedInv, HeldInv
<1>12. k.where[t] = Ready(k.prio[t]) /\ pc[t][1] \notin Yielding /\ pc[t][1] # "created"
  BY <1>5 DEF Yielding
<1>13. RunsInv'
  <2>1. pc'[t][1] # "delay" => y.where[t] = Ready(y.prio[t])
    BY <1>12
  <2>2. ASSUME y.yield = 0, NEW u \in Task, y.where[u] = Ready(y.prio[u]) PROVE y.prio[u] <= y.prio[t]
    <3>1. k.where[u] = Ready(k.prio[u])
      BY <1>12, <2>2
    <3>2. QED BY <1>12, <2>2, <3>1 DEF SchedInv, RunsInv
  <2>3. pc'[t][1] \notin Leaving => pc'[t][1] # "delay"
    BY DEF Leaving
  <2>4. QED BY <2>1, <2>2, <2>3 DEF RunsInv
<1>14. NotesInv'
  <2>1. \A u \in Task \ {t} : pc'[u][1] \notin {"block_take", "block_wait"}
    BY <1>3 DEF Locking
  <2>2. pc'[t][1] \notin {"blocked", "handover", "collect"}
    OBVIOUS
  <2>3. \A u \in Users : u \in Task
    BY DEF Users
  <2>4. QED BY <2>1, <2>2, <2>3 DEF SchedInv, NotesInv
<1>15. app \in Apps
  BY DEF SchedInv
<1>16. NoneJoins(k, y) /\ (y.pended = k.pended => Passes(k, y, 0))
  <2>1. NoneJoins(k, y) /\ Data(k)
    BY DEF NoneJoins, SchedInv, Notifying
  <2>2. QED BY <2>1, ClockStays
<1>17. QED BY <1>4, <1>9, <1>11, <1>13, <1>14, <1>15, <1>16 DEF SchedInv

\* A step that leaves the lists and the running task as they are.
LEMMA Stays ==
  ASSUME SchedInv, NEW t \in Task, t = k.cur, NEW y, k' = y,
         app' = app, last' = last, ticks' = ticks, held' = held,
         DOMAIN pc' = Task, \A u \in Task \ {t} : pc'[u] = pc[u],
         Data(y), y.where = k.where, y.evt = k.evt, y.prio = k.prio, y.cur = k.cur, y.started = k.started,
         y.tick = k.tick, y.susp = k.susp, y.pended = k.pended, y.fault = k.fault, y.preempt = k.preempt,
         y.yield = k.yield, y.overflows = k.overflows,
         \A u \in Task \ {t} : y.state[u] = Waiting <=> k.state[u] = Waiting,
         y.state[t] = Waiting => k.state[t] = Waiting,
         \/ pc'[t] = pc[t] /\ (y.state[t] = Waiting <=> k.state[t] = Waiting)
         \/ /\ pc[t][1] \notin Leaving
            /\ pc'[t][1] \in {"run", "locked"} /\ (pc'[t][1] = "locked" <=> pc[t][1] \in Locking)
            /\ pc[t][1] = "created" => ~(k.prio[t] < pc[t][2])
  PROVE  SchedInv' /\ Passes(k, k', 0)
<1>1. Idle \in Task /\ (pc'[t][1] \in Locking <=> pc[t][1] \in Locking)
  <2>1. "run" \notin Locking /\ "locked" \in Locking
    BY DEF Locking
  <2>2. QED BY <2>1, Locked
<1>2. PlacesInv'
  <2>1. ASSUME NEW u \in Task
        PROVE  /\ pc'[u][1] \in {"block_take", "block_wait"} => pc'[u][2] \in TickType \ {0}
               /\ pc'[u][1] = "created" => pc'[u][2] \in Priorities
    BY DEF SchedInv, PlacesInv
  <2>2. \A u \in Task : pc'[u][1] \in Locking => u = k.cur
    BY <1>1 DEF SchedInv, PlacesInv
  <2>3. QED BY <1>1, <2>1, <2>2 DEF SchedInv, PlacesInv
<1>3. ItemsInv'
  <2>1. Parked(y)
    BY DEF SchedInv, ItemsInv, Parked
  <2>2. QED BY <1>1, <2>1 DEF SchedInv, ItemsInv
<1>4. TimeInv'
  BY DEF SchedInv, TimeInv
<1>5. HeldInv'
  <2>1. held \subseteq Task
    BY DEF SchedInv, HeldInv, Users
  <2>2. \A u \in held : y.state[u] # Waiting
    BY <2>1 DEF SchedInv, HeldInv
  <2>3. t \in held => pc'[t][1] = "suspend"
    BY DEF SchedInv, HeldInv, Leaving
  <2>4. QED BY <2>1, <2>2, <2>3 DEF SchedInv, HeldInv
<1>6. RunsInv'
  <2>1. pc'[t][1] \notin Leaving => y.where[t] = Ready(y.prio[t])
    BY DEF SchedInv, RunsInv
  <2>2. ASSUME y.yield = 0, pc'[t][1] \notin Yielding,
               NEW u \in Task, y.where[u] = Ready(y.prio[u])
        PROVE  y.prio[u] <= y.prio[t] \/ (pc'[t][1] = "created" /\ y.prio[u] <= pc'[t][2])
    <3>1. pc[t][1] \notin Yielding
      BY <2>2 DEF Leaving, Yielding
    <3>2. k.prio[u] <= k.prio[t] \/ (pc[t][1] = "created" /\ k.prio[u] <= pc[t][2])
      BY <2>2, <3>1 DEF SchedInv, RunsInv
    <3>3. CASE pc'[t] = pc[t]
      BY <3>2, <3>3
    <3>4. CASE pc[t][1] = "created" => ~(k.prio[t] < pc[t][2])
      <4>1. \A v \in Task : k.prio[v] \in Int
        BY TasksAssumption DEF SchedInv, Data, Shape, Priorities
      <4>2. pc[t][1] = "created" => pc[t][2] \in Int
        BY TasksAssumption DEF SchedInv, PlacesInv, Priorities
      <4>3. QED BY <3>2, <3>4, <4>1, <4>2
    <3>5. QED BY <3>3, <3>4
  <2>3. QED BY <2>1, <2>2 DEF RunsInv
<1>7. NotesInv'
  <2>1. \A u \in Users : u \in Task
    BY DEF Users
  <2>2. CASE pc'[t] = pc[t] /\ (y.state[t] = Waiting <=> k.state[t] = Waiting)
    BY <2>1, <2>2 DEF SchedInv, NotesInv
  <2>3. CASE pc'[t][1] \in {"run", "locked"}
    BY <2>1, <2>3 DEF SchedInv, NotesInv
  <2>4. QED BY <2>2, <2>3
<1>8. Passes(k, y, 0)
  <2>1. NoneJoins(k, y) /\ Data(k)
    BY DEF NoneJoins, SchedInv
  <2>2. QED BY <2>1, ClockStays
<1>9. QED BY <1>2, <1>3, <1>4, <1>5, <1>6, <1>7, <1>8 DEF SchedInv

\* The place of a task that goes on in its call.
LEMMA GotoDoes ==
  ASSUME SchedInv, NEW t \in Task, NEW p, NEW n, Goto(t, p, n)
  PROVE  /\ DOMAIN pc' = Task /\ (\A u \in Task \ {t} : pc'[u] = pc[u])
         /\ pc'[t] = <<p, n>> /\ pc'[t][1] = p /\ pc'[t][2] = n
<1>1. DOMAIN pc = Task
  BY Locked
<1>2. QED BY <1>1 DEF Goto

\* taskYIELD, and the idle task giving way.
LEMMA StepYield ==
  ASSUME SchedInv, app' = app, NEW t \in Task, taskYIELD(t) \/ (t = Idle /\ prvIdleTask)
  PROVE  SchedInv' /\ Passes(k, k', 0)
<1>1. t = k.cur /\ k' = vTaskSwitchContext(k) /\ pc' = pc /\ last' = last /\ ticks' = ticks /\ held' = held
  BY DEF taskYIELD, prvIdleTask, InTask, At
<1>2. Alike(k, k)
  BY DEF Alike, SchedInv
<1>3. DOMAIN pc' = Task
  BY <1>1, Locked
<1>4. QED BY <1>1, <1>2, <1>3, Switches

\* The yields at the end of a delay and of a wait for a notification.
LEMMA StepGivesWay ==
  ASSUME SchedInv, app' = app, NEW t \in Task, Yields(t) \/ NotifyHandsOver(t)
  PROVE  SchedInv' /\ Passes(k, k', 0)
<1>1. t = k.cur /\ k' = vTaskSwitchContext(k) /\ last' = last /\ ticks' = ticks /\ held' = held
  BY DEF Yields, NotifyHandsOver, At
<1>2. Alike(k, k)
  BY DEF Alike, SchedInv
<1>3. CASE Yields(t)
  <2>1. pc[t][1] = "yield" /\ Goto(t, "run", 0)
    BY <1>3 DEF Yields, At
  <2>2. pc[t][1] \notin Locking
    BY <2>1 DEF Locking
  <2>3. DOMAIN pc' = Task /\ (\A u \in Task \ {t} : pc'[u] = pc[u]) /\ pc'[t][1] = "run"
    BY <2>1, GotoDoes
  <2>4. QED BY <1>1, <1>2, <2>2, <2>3, Switches
<1>4. CASE NotifyHandsOver(t)
  <2>1. pc[t][1] = "handover" /\ Goto(t, "collect", pc[t][2])
    BY <1>4 DEF NotifyHandsOver, At
  <2>2. DOMAIN pc' = Task /\ (\A u \in Task \ {t} : pc'[u] = pc[u]) /\ pc'[t][1] = "collect"
    BY <2>1, GotoDoes
  <2>3. QED BY <1>1, <1>2, <2>1, <2>2, Switches
<1>5. QED BY <1>3, <1>4

\* The end of vTaskSuspend.
LEMMA StepSuspendEnds ==
  ASSUME SchedInv, app' = app, NEW t \in Task, SuspendEnds(t)
  PROVE  SchedInv' /\ Passes(k, k', 0)
<1>1. PICK z : z = prvResetNextTaskUnblockTime(k) OBVIOUS
<1>2. Data(z) /\ SameRest(k, z) /\ z.yield = k.yield /\ z.where = k.where /\ z.evt = k.evt
  BY <1>1, ResetData DEF SchedInv
<1>3. Alike(k, z)
  BY <1>2 DEF Alike, SameRest
<1>4. t = k.cur /\ last' = last /\ ticks' = ticks /\ held' = held
  BY DEF SuspendEnds, At
<1>5. CASE pc[t][1] = "suspend" /\ k' = vTaskSwitchContext(z) /\ Goto(t, "run", 0)
  <2>1. pc[t][1] \notin Locking
    BY <1>5 DEF Locking
  <2>2. DOMAIN pc' = Task /\ (\A u \in Task \ {t} : pc'[u] = pc[u]) /\ pc'[t][1] = "run"
    BY <1>5, GotoDoes
  <2>3. QED BY <1>3, <1>4, <1>5, <2>1, <2>2, Switches
<1>6. CASE pc[t][1] = "reset" /\ k' = z /\ Goto(t, "run", 0)
  <2>1. pc[t][1] \notin Locking /\ pc[t][1] \notin Leaving
    BY <1>6 DEF Locking, Leaving
  <2>2. DOMAIN pc' = Task /\ (\A u \in Task \ {t} : pc'[u] = pc[u]) /\ pc'[t][1] = "run"
    BY <1>6, GotoDoes
  <2>3. QED BY <1>3, <1>4, <1>6, <2>1, <2>2, Stays DEF Alike
<1>7. CASE pc[t][1] = "resetlocked" /\ k' = z /\ Goto(t, "locked", 0)
  <2>1. pc[t][1] \in Locking /\ pc[t][1] \notin Leaving
    BY <1>7 DEF Locking, Leaving
  <2>2. DOMAIN pc' = Task /\ (\A u \in Task \ {t} : pc'[u] = pc[u]) /\ pc'[t][1] = "locked"
    BY <1>7, GotoDoes
  <2>3. QED BY <1>3, <1>4, <1>7, <2>1, <2>2, Stays DEF Alike
<1>8. QED BY <1>1, <1>5, <1>6, <1>7 DEF SuspendEnds, At

(* y is x with the notification states f, and any notification values. *)
Remarked(x, y, f) ==
  /\ DOMAIN y = Fields /\ y.state = f /\ y.list = x.list /\ y.index = x.index /\ y.where = x.where
  /\ y.evt = x.evt /\ y.prio = x.prio /\ y.wake = x.wake /\ y.left = x.left /\ y.cur = x.cur
  /\ y.started = x.started /\ y.del = x.del /\ y.tick = x.tick /\ y.overflows = x.overflows
  /\ y.unblock = x.unblock /\ y.top = x.top /\ y.susp = x.susp /\ y.pended = x.pended
  /\ y.yield = x.yield /\ y.fault = x.fault /\ y.preempt = x.preempt

\* Notification states and values are no part of the lists.
LEMMA RemarkedData ==
  ASSUME NEW x, Data(x), NEW y, NEW f \in [Task -> {NotWaiting, Waiting, Received}], Remarked(x, y, f)
  PROVE  Data(y)
<1>1. /\ y.state \in [Task -> {NotWaiting, Waiting, Received}] /\ y.cur \in Task /\ y.susp \in Nat
      /\ y.pended \in Nat /\ y.yield \in {0, 1} /\ y.fault \in {0, 1} /\ DOMAIN y = Fields
  BY DEF Remarked, Data, Shape
<1>2. /\ y.list = x.list /\ y.index = x.index /\ y.where = x.where /\ y.evt = x.evt /\ y.wake = x.wake
      /\ y.left = x.left /\ y.prio = x.prio /\ y.top = x.top /\ y.del = x.del /\ y.tick = x.tick
      /\ y.overflows = x.overflows /\ y.unblock = x.unblock
  BY DEF Remarked
<1>3. QED BY <1>1, <1>2, DataSame, Zenon

(* y is x with the state q and the value v of t, or only with the state. *)
Marked(x, y, t, q, v) ==
  \/ y = [x EXCEPT !.state[t] = q, !.value[t] = v]
  \/ y = [x EXCEPT !.value[t] = v, !.state[t] = q]
  \/ y = [x EXCEPT !.state[t] = q]

\* The state and the value of one task.
LEMMA MarkDoes ==
  ASSUME NEW x, Data(x), NEW t \in Task, NEW q \in {NotWaiting, Waiting, Received}, NEW v, NEW y,
         Marked(x, y, t, q, v)
  PROVE  /\ Data(y) /\ Remarked(x, y, y.state)
         /\ y.state[t] = q /\ \A u \in Task \ {t} : y.state[u] = x.state[u]
<1>1. DOMAIN x = Fields /\ x.state \in [Task -> {NotWaiting, Waiting, Received}]
  BY DEF Data, Shape
<1>2. PICK f : f = [x.state EXCEPT ![t] = q] OBVIOUS
<1>3. f \in [Task -> {NotWaiting, Waiting, Received}] /\ f[t] = q /\ \A u \in Task \ {t} : f[u] = x.state[u]
  BY <1>1, <1>2
<1>4. Remarked(x, y, f)
  <2>1. CASE y = [x EXCEPT !.state[t] = q, !.value[t] = v]
    BY <1>1, <1>2, <2>1 DEF Remarked, Fields
  <2>2. CASE y = [x EXCEPT !.value[t] = v, !.state[t] = q]
    BY <1>1, <1>2, <2>2 DEF Remarked, Fields
  <2>3. CASE y = [x EXCEPT !.state[t] = q]
    BY <1>1, <1>2, <2>3 DEF Remarked, Fields
  <2>4. QED BY <2>1, <2>2, <2>3 DEF Marked
<1>5. Data(y)
  BY <1>3, <1>4, RemarkedData
<1>6. y.state = f
  BY <1>4 DEF Remarked
<1>7. QED BY <1>2, <1>3, <1>4, <1>5, <1>6

\* The end of a wait for a notification.
LEMMA StepCollects ==
  ASSUME SchedInv, app' = app, NEW t \in Task, TakeCollects(t) \/ WaitCollects(t)
  PROVE  SchedInv' /\ Passes(k, k', 0)
<1>1. t = k.cur /\ last' = last /\ ticks' = ticks /\ held' = held /\ pc[t][1] = "collect" /\ Goto(t, "run", 0)
  BY DEF TakeCollects, WaitCollects, At
<1>2. PICK y : y = k' OBVIOUS
<1>3. PICK v : Marked(k, y, t, NotWaiting, v)
  BY <1>2, Zenon DEF TakeCollects, WaitCollects, Marked
<1>4. /\ Data(y) /\ Remarked(k, y, y.state)
      /\ y.state[t] = NotWaiting /\ \A u \in Task \ {t} : y.state[u] = k.state[u]
  <2>1. Data(k) /\ NotWaiting \in {NotWaiting, Waiting, Received}
    BY DEF SchedInv
  <2>2. QED BY <1>3, <2>1, MarkDoes
<1>5. DOMAIN pc' = Task /\ (\A u \in Task \ {t} : pc'[u] = pc[u]) /\ pc'[t][1] = "run"
  BY <1>1, GotoDoes
<1>6. pc[t][1] \notin Locking /\ pc[t][1] \notin Leaving
  BY <1>1 DEF Locking, Leaving
<1>7. NotWaiting # Waiting
  BY DEF NotWaiting, Waiting
<1>8. /\ y.where = k.where /\ y.evt = k.evt /\ y.prio = k.prio /\ y.cur = k.cur /\ y.started = k.started
      /\ y.tick = k.tick /\ y.susp = k.susp /\ y.pended = k.pended /\ y.fault = k.fault
      /\ y.preempt = k.preempt /\ y.yield = k.yield /\ y.overflows = k.overflows
  BY <1>4 DEF Remarked
<1>9. QED BY <1>1, <1>2, <1>4, <1>5, <1>6, <1>7, <1>8, Stays

\* A change of the notification state or value of a task that does not wait.
LEMMA Marks ==
  ASSUME SchedInv, app' = app, last' = last, ticks' = ticks, held' = held, pc' = pc,
         NEW x \in Task, k.state[x] # Waiting, NEW q \in {NotWaiting, Received}, NEW v, NEW y, k' = y,
         Marked(k, y, x, q, v)
  PROVE  SchedInv' /\ Passes(k, k', 0)
<1>1. PICK t \in Task : t = k.cur
  BY Locked
<1>2. /\ Data(y) /\ Remarked(k, y, y.state)
      /\ y.state[x] = q /\ \A u \in Task \ {x} : y.state[u] = k.state[u]
  <2>1. Data(k) /\ q \in {NotWaiting, Waiting, Received}
    BY DEF SchedInv
  <2>2. QED BY <2>1, MarkDoes
<1>3. q # Waiting
  BY DEF NotWaiting, Waiting, Received
<1>4. \A u \in Task : y.state[u] = Waiting <=> k.state[u] = Waiting
  BY <1>2, <1>3
<1>5. DOMAIN pc' = Task
  BY Locked
<1>6. QED BY <1>1, <1>2, <1>4, <1>5, Stays DEF Remarked

\* xTaskNotifyStateClear and ulTaskNotifyValueClear.
LEMMA StepClears ==
  ASSUME SchedInv, app' = app, NEW t \in Task, NEW x \in Task,
         xTaskGenericNotifyStateClear(t, x) \/ ulTaskGenericNotifyValueClear(t, x)
  PROVE  SchedInv' /\ Passes(k, k', 0)
<1>1. last' = last /\ ticks' = ticks /\ held' = held /\ pc' = pc /\ t = k.cur
  BY DEF xTaskGenericNotifyStateClear, ulTaskGenericNotifyValueClear, InTask, At
<1>2. CASE xTaskGenericNotifyStateClear(t, x)
  <2>1. k.state[x] = Received /\ k' = [k EXCEPT !.state[x] = NotWaiting]
    BY <1>2 DEF xTaskGenericNotifyStateClear
  <2>2. k.state[x] # Waiting
    BY <2>1 DEF Received, Waiting
  <2>3. Marked(k, k', x, NotWaiting, 0)
    BY <2>1, Zenon DEF Marked
  <2>4. QED BY <1>1, <2>2, <2>3, Marks
<1>3. CASE ulTaskGenericNotifyValueClear(t, x)
  <2>1. PICK v : k' = [k EXCEPT !.value[x] = v]
    BY <1>3 DEF ulTaskGenericNotifyValueClear
  <2>2. PICK y : y = k' OBVIOUS
  <2>3. DOMAIN k = Fields /\ k.state \in [Task -> {NotWaiting, Waiting, Received}]
    BY DEF SchedInv, Data, Shape
  <2>4. Remarked(k, y, k.state)
    BY <2>1, <2>2, <2>3 DEF Remarked, Fields
  <2>5. Data(y)
    BY <2>3, <2>4, RemarkedData DEF SchedInv
  <2>6. DOMAIN pc' = Task
    BY <1>1, Locked
  <2>7. QED BY <1>1, <2>2, <2>4, <2>5, <2>6, Stays DEF Remarked
<1>4. QED BY <1>2, <1>3

(* y is x with the scheduler suspended, and perhaps other notification states, *)
(* values or remembered ticks.                                                 *)
Suspending(x, y) ==
  /\ DOMAIN y = Fields /\ y.susp = 1 /\ y.list = x.list /\ y.index = x.index /\ y.where = x.where
  /\ y.evt = x.evt /\ y.prio = x.prio /\ y.wake = x.wake /\ y.left = x.left /\ y.cur = x.cur
  /\ y.started = x.started /\ y.del = x.del /\ y.tick = x.tick /\ y.overflows = x.overflows
  /\ y.unblock = x.unblock /\ y.top = x.top /\ y.yield = x.yield /\ y.fault = x.fault
  /\ y.preempt = x.preempt

\* vTaskSuspendAll keeps the lists.
LEMMA SuspendingData ==
  ASSUME NEW x, Data(x), NEW y, Suspending(x, y), y.pended \in Nat,
         y.state \in [Task -> {NotWaiting, Waiting, Received}]
  PROVE  Data(y)
<1>1. y.cur \in Task /\ y.susp \in Nat /\ y.yield \in {0, 1} /\ y.fault \in {0, 1} /\ DOMAIN y = Fields
  BY DEF Suspending, Data, Shape
<1>2. /\ y.list = x.list /\ y.index = x.index /\ y.where = x.where /\ y.evt = x.evt /\ y.wake = x.wake
      /\ y.left = x.left /\ y.prio = x.prio /\ y.top = x.top /\ y.del = x.del /\ y.tick = x.tick
      /\ y.overflows = x.overflows /\ y.unblock = x.unblock
  BY DEF Suspending
<1>3. QED BY <1>1, <1>2, DataSame, Zenon

\* The state of the clock of a task in its own code.
LEMMA OpenTime ==
  ASSUME SchedInv, k.susp = 0
  PROVE  /\ k.pended = 0 /\ ticks = k.tick /\ k.tick \in TickType /\ last \in [Task -> TickType]
         /\ TickMod \in Nat /\ TickMod > 0 /\ MaxPended \in Nat /\ 0 \in 0 .. MaxPended
         /\ (k.tick + 0) % TickMod = k.tick /\ k.tick \in Int
<1>1. TickMod \in Nat /\ TickMod > 0 /\ MaxPended \in Nat
  BY TasksAssumption, KernelAssumption
<1>2. k.pended = 0 /\ k.tick \in TickType /\ last \in [Task -> TickType] /\ ticks = (k.tick + k.pended) % TickMod
  BY DEF SchedInv, TimeInv, Data, Shape
<1>3. (k.tick + 0) % TickMod = k.tick /\ k.tick \in Int /\ 0 \in 0 .. MaxPended
  BY <1>1, <1>2 DEF TickType
<1>4. QED BY <1>1, <1>2, <1>3

\* vTaskSuspendAll of a task, and the one in the allocation of xTaskCreate.
LEMMA StepSuspendAll ==
  ASSUME SchedInv, app' = app, NEW t \in Users, SuspendAll(t) \/ xTaskCreate(t)
  PROVE  SchedInv' /\ Passes(k, k', 0)
<1>1. t = k.cur /\ pc[t][1] = "run" /\ last' = last /\ ticks' = ticks /\ held' = held /\ t \in Task
  BY DEF SuspendAll, xTaskCreate, At, Users
<1>2. PICK y : y = k' /\ y = vTaskSuspendAll(k)
  BY DEF SuspendAll, xTaskCreate
<1>3. k.susp = 0
  BY <1>1, Locked DEF Locking
<1>4. DOMAIN k = Fields /\ k.state \in [Task -> {NotWaiting, Waiting, Received}]
  BY DEF SchedInv, Data, Shape
<1>5. Suspending(k, y) /\ y.state = k.state /\ y.pended = k.pended
  BY <1>2, <1>3, <1>4 DEF vTaskSuspendAll, Suspending, Fields
<1>6. Data(y)
  BY <1>3, <1>4, <1>5, OpenTime, SuspendingData DEF SchedInv
<1>7. DOMAIN pc' = Task /\ (\A u \in Task \ {t} : pc'[u] = pc[u]) /\ pc'[t][1] \in {"locked", "malloc"}
  <2>1. CASE SuspendAll(t)
    BY <1>1, <2>1, GotoDoes DEF SuspendAll
  <2>2. CASE xTaskCreate(t)
    BY <1>1, <2>2, GotoDoes DEF xTaskCreate
  <2>3. QED BY <2>1, <2>2
<1>8. TimeInv'
  BY <1>1, <1>2, <1>3, <1>5, OpenTime DEF TimeInv, Suspending
<1>9. /\ y.fault = 0 /\ y.preempt = 1 /\ y.started = 1 /\ y.susp = 1 /\ y.cur = k.cur /\ y.prio = k.prio
      /\ y.evt = k.evt /\ y.yield = k.yield /\ y.where = k.where /\ y.tick = k.tick
      /\ y.overflows = k.overflows
  BY <1>5 DEF Suspending, SchedInv
<1>10. QED BY <1>1, <1>2, <1>5, <1>6, <1>7, <1>8, <1>9, Locks

\* xTaskCatchUpTicks: the ticks are counted as taken and remembered.
LEMMA StepCatchUp ==
  ASSUME SchedInv, app' = app, NEW t \in Users, NEW n \in app.delays[t], xTaskCatchUpTicks(t, n)
  PROVE  SchedInv' /\ NoneJoins(k, k')
<1>1. /\ t = k.cur /\ pc[t][1] = "run" /\ last' = last /\ ticks' = (ticks + n) % TickMod /\ held' = held
      /\ t \in Task /\ n <= MaxPended
  BY DEF xTaskCatchUpTicks, At, Users
<1>2. PICK y : y = k' /\ y = [vTaskSuspendAll(k) EXCEPT !.pended = @ + n]
  BY DEF xTaskCatchUpTicks
<1>3. k.susp = 0
  BY <1>1, Locked DEF Locking
<1>4. DOMAIN k = Fields /\ k.state \in [Task -> {NotWaiting, Waiting, Received}] /\ k.pended = 0
  BY <1>3, OpenTime DEF SchedInv, Data, Shape
<1>5. n \in TickType /\ n \in Nat
  <2>1. app \in Apps
    BY DEF SchedInv
  <2>2. app.delays \in [Task -> SUBSET TickType]
    BY <2>1, KernelAssumption
  <2>3. QED BY <1>1, <2>2, TasksAssumption DEF TickType
<1>6. y.pended = n /\ y.state = k.state
  BY <1>2, <1>4, <1>5 DEF vTaskSuspendAll, Fields
<1>7. Suspending(k, y)
  BY <1>2, <1>3, <1>4 DEF vTaskSuspendAll, Suspending, Fields
<1>8. Data(y)
  BY <1>4, <1>5, <1>6, <1>7, SuspendingData DEF SchedInv
<1>9. DOMAIN pc' = Task /\ (\A u \in Task \ {t} : pc'[u] = pc[u]) /\ pc'[t][1] = "catchup"
  BY <1>1, GotoDoes DEF xTaskCatchUpTicks
<1>10. /\ y.fault = 0 /\ y.preempt = 1 /\ y.started = 1 /\ y.susp = 1 /\ y.cur = k.cur /\ y.prio = k.prio
       /\ y.evt = k.evt /\ y.yield = k.yield /\ y.where = k.where /\ y.tick = k.tick
       /\ y.overflows = k.overflows
  BY <1>7 DEF Suspending, SchedInv
<1>11. TimeInv'
  <2>1. ticks = k.tick /\ MaxPended \in Nat /\ last \in [Task -> TickType]
    BY <1>3, OpenTime
  <2>2. n \in 0 .. MaxPended
    BY <1>1, <1>5, <2>1
  <2>3. QED BY <1>1, <1>2, <1>6, <1>10, <2>1, <2>2 DEF TimeInv
<1>12. QED BY <1>1, <1>2, <1>6, <1>8, <1>9, <1>10, <1>11, Locks, ZenonT(40)

\* vTaskDelay and xTaskDelayUntil, up to xTaskResumeAll.
LEMMA StepDelays ==
  ASSUME SchedInv, app' = app, NEW t \in Users, NEW n \in app.delays[t],
         vTaskDelay(t, n) \/ xTaskDelayUntil(t, n)
  PROVE  SchedInv' /\ Passes(k, k', 0)
<1>1. t = k.cur /\ pc[t][1] = "run" /\ ticks' = ticks /\ held' = held /\ t \in Task /\ n > 0
  BY DEF vTaskDelay, xTaskDelayUntil, At, Users
<1>2. k.susp = 0
  BY <1>1, Locked DEF Locking
<1>3. DOMAIN k = Fields /\ k.state \in [Task -> {NotWaiting, Waiting, Received}] /\ k.where[k.cur] # None
  BY DEF SchedInv, Data, Shape, ItemsInv
<1>4. n \in TickType \ {0}
  <2>1. app \in Apps
    BY DEF SchedInv
  <2>2. app.delays \in [Task -> SUBSET TickType]
    BY <2>1, KernelAssumption
  <2>3. QED BY <1>1, <2>2, TasksAssumption DEF TickType
<1>5. PICK x : x = vTaskSuspendAll(k) OBVIOUS
<1>6. Suspending(k, x) /\ x.state = k.state /\ x.pended = k.pended
  BY <1>2, <1>3, <1>5 DEF vTaskSuspendAll, Suspending, Fields
<1>7. Data(x)
  BY <1>2, <1>3, <1>6, OpenTime, SuspendingData DEF SchedInv
<1>8. PICK y : y = k' OBVIOUS
<1>9. \/ y = x
      \/ \E m \in TickType \ {0} : y = prvAddCurrentTaskToDelayedList(x, m, FALSE)
  <2>1. CASE vTaskDelay(t, n)
    BY <1>4, <1>5, <1>8, <2>1 DEF vTaskDelay
  <2>2. CASE xTaskDelayUntil(t, n)
    <3>1. PICK w : w = (last[t] + n) % TickMod OBVIOUS
    <3>2. w \in TickType /\ k.tick \in TickType /\ last[t] \in TickType /\ k.tick \in Int
      BY <1>1, <1>2, <1>4, <3>1, OpenTime, TickSum
    <3>3. PICK m : m = (w - k.tick) % TickMod OBVIOUS
    <3>4. w # k.tick => m \in TickType \ {0}
      <4>1. TickMod \in Nat /\ TickMod > 0 /\ w \in Nat /\ k.tick \in Nat /\ w < TickMod /\ k.tick < TickMod
        BY <3>2, TasksAssumption DEF TickType
      <4>2. CASE w >= k.tick
        BY <3>3, <4>1, <4>2 DEF TickType
      <4>3. CASE w < k.tick
        <5>1. m = w - k.tick + TickMod
          BY <3>3, <4>1, <4>3
        <5>2. QED BY <4>1, <4>3, <5>1 DEF TickType
      <4>4. QED BY <4>1, <4>2, <4>3
    <3>5. y = x \/ (y = prvAddCurrentTaskToDelayedList(x, m, FALSE) /\ w # k.tick)
      <4>1. PICK d \in {0, 1} : d = 1 <=> (IF k.tick < last[t] THEN w < last[t] /\ w > k.tick
                                           ELSE w < last[t] \/ w > k.tick)
        OBVIOUS
      <4>2. y = IF d = 1 THEN prvAddCurrentTaskToDelayedList(x, m, FALSE) ELSE x
        BY <1>5, <1>8, <2>2, <3>1, <3>3, <4>1 DEF xTaskDelayUntil
      <4>3. d = 1 => w # k.tick
        <5>1. w \in Int /\ k.tick \in Int /\ last[t] \in Int
          BY <3>2 DEF TickType
        <5>2. QED BY <4>1, <5>1
      <4>4. QED BY <4>2, <4>3
    <3>6. QED BY <3>4, <3>5
  <2>3. QED BY <2>1, <2>2
<1>10. /\ Data(y) /\ SameRest(x, y) /\ y.yield = x.yield /\ y.evt = x.evt
       /\ \A u \in Task \ {t} : y.where[u] = x.where[u]
       /\ y.where[t] = x.where[t] \/ y.where[t] \in {Delayed(0), Delayed(1), Suspended}
  <2>1. CASE y = x
    BY <1>7, <2>1 DEF SameRest
  <2>2. ASSUME NEW m \in TickType \ {0}, y = prvAddCurrentTaskToDelayedList(x, m, FALSE)
        PROVE  /\ Data(y) /\ SameRest(x, y) /\ y.yield = x.yield /\ y.evt = x.evt
               /\ \A u \in Task \ {t} : y.where[u] = x.where[u]
               /\ y.where[t] \in {Delayed(0), Delayed(1), Suspended}
    <3>1. x.cur = t /\ x.where[x.cur] # None /\ FALSE \in BOOLEAN
      BY <1>1, <1>3, <1>6 DEF Suspending
    <3>2. /\ Data(y) /\ SameRest(x, y) /\ y.top = x.top /\ y.yield = x.yield /\ y.evt = x.evt
          /\ y.where = [x.where EXCEPT ![x.cur] = y.where[x.cur]]
          /\ y.where[x.cur] \in {Delayed(0), Delayed(1), Suspended}
      <4>1. PICK b \in BOOLEAN : y = prvAddCurrentTaskToDelayedList(x, m, b)
        BY <2>2, <3>1, Zenon
      <4>2. QED BY <1>7, <3>1, <4>1, DelayDoes
    <3>3. x.where \in [Task -> StateLists \cup {None}]
      BY <1>7 DEF Data, Shape
    <3>4. QED BY <3>1, <3>2, <3>3
  <2>3. QED BY <1>9, <2>1, <2>2
<1>11. DOMAIN pc' = Task /\ (\A u \in Task \ {t} : pc'[u] = pc[u]) /\ pc'[t][1] = "delay"
  <2>1. Goto(t, "delay", 0)
    BY DEF vTaskDelay, xTaskDelayUntil
  <2>2. QED BY <1>1, <2>1, GotoDoes
<1>12. /\ y.fault = 0 /\ y.preempt = 1 /\ y.started = 1 /\ y.susp = 1 /\ y.cur = k.cur /\ y.prio = k.prio
       /\ y.evt = k.evt /\ y.yield = k.yield /\ y.tick = k.tick /\ y.state = k.state /\ y.pended = k.pended
       /\ x.where = k.where /\ y.overflows = k.overflows
  BY <1>6, <1>10 DEF Suspending, SchedInv, SameRest
<1>13. TimeInv'
  <2>1. last' \in [Task -> TickType]
    <3>1. CASE vTaskDelay(t, n)
      BY <1>2, <3>1, OpenTime DEF vTaskDelay
    <3>2. CASE xTaskDelayUntil(t, n)
      <4>1. (last[t] + n) % TickMod \in TickType
        BY <1>1, <1>2, <1>4, OpenTime, TickSum
      <4>2. last' = [last EXCEPT ![t] = (last[t] + n) % TickMod]
        BY <3>2 DEF xTaskDelayUntil
      <4>3. QED BY <1>2, <4>1, <4>2, OpenTime
    <3>3. QED BY <3>1, <3>2
  <2>2. QED BY <1>1, <1>2, <1>8, <1>12, <2>1, OpenTime DEF TimeInv
<1>14. QED BY <1>1, <1>8, <1>10, <1>11, <1>12, <1>13, Locks

\* The first part of a wait for a notification.
LEMMA StepNotifyStarts ==
  ASSUME SchedInv, app' = app, NEW t \in Users, NEW n \in app.delays[t],
         NotifyTake(t, n) \/ \E b \in BOOLEAN : NotifyWait(t, n, b)
  PROVE  SchedInv' /\ Passes(k, k', 0)
<1>1. t = k.cur /\ pc[t][1] = "run" /\ last' = last /\ ticks' = ticks /\ held' = held /\ t \in Task
  BY DEF NotifyTake, NotifyWait, At, Users
<1>2. k.susp = 0
  BY <1>1, Locked DEF Locking
<1>3. DOMAIN k = Fields /\ k.state \in [Task -> {NotWaiting, Waiting, Received}]
  BY DEF SchedInv, Data, Shape
<1>4. n \in TickType /\ (n > 0 => n \in TickType \ {0})
  <2>1. app \in Apps
    BY DEF SchedInv
  <2>2. app.delays \in [Task -> SUBSET TickType]
    BY <2>1, KernelAssumption
  <2>3. QED BY <1>1, <2>2, TasksAssumption DEF TickType
<1>5. PICK x : x = vTaskSuspendAll(k) OBVIOUS
<1>6. Suspending(k, x) /\ x.state = k.state /\ x.pended = k.pended
  BY <1>2, <1>3, <1>5 DEF vTaskSuspendAll, Suspending, Fields
<1>7. DOMAIN x = Fields
  BY <1>6 DEF Suspending
<1>8. PICK y : y = k' OBVIOUS
<1>9. \/ y = x /\ (Goto(t, "nowait", "take") \/ Goto(t, "nowait", "wait"))
      \/ /\ \E v : y = [x EXCEPT !.state[t] = Waiting, !.value[t] = v] \/ y = [x EXCEPT !.state[t] = Waiting]
         /\ \/ Goto(t, "nowait", "take") \/ Goto(t, "nowait", "wait")
            \/ n > 0 /\ (Goto(t, "block_take", n) \/ Goto(t, "block_wait", n))
  <2>1. CASE NotifyTake(t, n)
    <3>1. CASE k.value[t] = 0
      <4>1. y = [x EXCEPT !.state[t] = Waiting]
        BY <1>5, <1>8, <2>1, <3>1, Zenon DEF NotifyTake
      <4>2. Goto(t, "nowait", "take") \/ (n > 0 /\ Goto(t, "block_take", n))
        BY <2>1, <3>1, Zenon DEF NotifyTake
      <4>3. QED BY <4>1, <4>2, Zenon
    <3>2. CASE k.value[t] # 0
      BY <1>5, <1>8, <2>1, <3>2, Zenon DEF NotifyTake
    <3>3. QED BY <3>1, <3>2, Zenon
  <2>2. ASSUME NEW b \in BOOLEAN, NotifyWait(t, n, b)
        PROVE  \/ y = x /\ Goto(t, "nowait", "wait")
               \/ /\ \E v : y = [x EXCEPT !.state[t] = Waiting, !.value[t] = v]
                  /\ Goto(t, "nowait", "wait") \/ (n > 0 /\ Goto(t, "block_wait", n))
    <3>1. CASE k.state[t] = Received
      BY <1>5, <1>8, <2>2, <3>1, Zenon DEF NotifyWait
    <3>2. CASE k.state[t] # Received
      <4>1. y = [x EXCEPT !.state[t] = Waiting, !.value[t] = IF b THEN 0 ELSE @]
        BY <1>5, <1>8, <2>2, <3>2, Zenon DEF NotifyWait
      <4>2. PICK v : v = IF b THEN 0 ELSE x.value[t] OBVIOUS
      <4>3. y = [x EXCEPT !.state[t] = Waiting, !.value[t] = v]
        BY <1>7, <4>1, <4>2 DEF Fields
      <4>4. Goto(t, "nowait", "wait") \/ (n > 0 /\ Goto(t, "block_wait", n))
        BY <2>2, <3>2, Zenon DEF NotifyWait
      <4>5. QED BY <4>3, <4>4, Zenon
    <3>3. QED BY <3>1, <3>2, Zenon
  <2>3. QED BY <2>1, <2>2, Zenon
<1>10. /\ DOMAIN pc' = Task /\ (\A u \in Task \ {t} : pc'[u] = pc[u])
       /\ pc'[t][1] \in {"nowait", "block_take", "block_wait"}
       /\ pc'[t][1] \in {"block_take", "block_wait"} =>
            /\ pc'[t][2] \in TickType \ {0}
            /\ \E v : y = [x EXCEPT !.state[t] = Waiting, !.value[t] = v] \/ y = [x EXCEPT !.state[t] = Waiting]
  <2>1. CASE Goto(t, "nowait", "take") \/ Goto(t, "nowait", "wait")
    <3>1. DOMAIN pc' = Task /\ (\A u \in Task \ {t} : pc'[u] = pc[u]) /\ pc'[t][1] = "nowait"
      BY <1>1, <2>1, GotoDoes
    <3>2. QED BY <3>1
  <2>2. CASE n > 0 /\ (Goto(t, "block_take", n) \/ Goto(t, "block_wait", n))
    <3>1. /\ DOMAIN pc' = Task /\ (\A u \in Task \ {t} : pc'[u] = pc[u])
          /\ pc'[t][1] \in {"block_take", "block_wait"} /\ pc'[t][2] = n
      BY <1>1, <2>2, GotoDoes
    <3>2. ~Goto(t, "nowait", "take") /\ ~Goto(t, "nowait", "wait")
      BY <1>1, <3>1, GotoDoes
    <3>3. \E v : y = [x EXCEPT !.state[t] = Waiting, !.value[t] = v] \/ y = [x EXCEPT !.state[t] = Waiting]
      BY <1>9, <3>2, Zenon
    <3>4. QED BY <1>4, <2>2, <3>1, <3>3
  <2>3. QED BY <1>9, <2>1, <2>2
<1>11. /\ Suspending(k, y) /\ y.pended = k.pended /\ y.state \in [Task -> {NotWaiting, Waiting, Received}]
       /\ \A u \in Task \ {t} : y.state[u] = k.state[u]
       /\ pc'[t][1] \in {"block_take", "block_wait"} => y.state[t] = Waiting
  <2>1. ASSUME NEW v, y = [x EXCEPT !.state[t] = Waiting, !.value[t] = v] \/ y = [x EXCEPT !.state[t] = Waiting]
        PROVE  /\ Suspending(k, y) /\ y.pended = k.pended /\ y.state \in [Task -> {NotWaiting, Waiting, Received}]
               /\ y.state[t] = Waiting /\ \A u \in Task \ {t} : y.state[u] = k.state[u]
    <3>1. CASE y = [x EXCEPT !.state[t] = Waiting, !.value[t] = v]
      <4>1. y.state = [k.state EXCEPT ![t] = Waiting] /\ y.pended = k.pended
        BY <1>6, <1>7, <3>1 DEF Fields
      <4>2. Suspending(k, y)
        BY <1>6, <1>7, <3>1 DEF Suspending, Fields
      <4>3. QED BY <1>1, <1>3, <4>1, <4>2
    <3>2. CASE y = [x EXCEPT !.state[t] = Waiting]
      <4>1. y.state = [k.state EXCEPT ![t] = Waiting] /\ y.pended = k.pended
        BY <1>6, <1>7, <3>2 DEF Fields
      <4>2. Suspending(k, y)
        BY <1>6, <1>7, <3>2 DEF Suspending, Fields
      <4>3. QED BY <1>1, <1>3, <4>1, <4>2
    <3>3. QED BY <2>1, <3>1, <3>2
  <2>2. CASE y = x
    <3>1. /\ Suspending(k, y) /\ y.pended = k.pended /\ y.state \in [Task -> {NotWaiting, Waiting, Received}]
          /\ \A u \in Task \ {t} : y.state[u] = k.state[u]
      BY <1>3, <1>6, <2>2
    <3>2. QED BY <1>10, <2>1, <3>1
  <2>3. CASE \E v : y = [x EXCEPT !.state[t] = Waiting, !.value[t] = v] \/ y = [x EXCEPT !.state[t] = Waiting]
    BY <2>1, <2>3
  <2>4. QED BY <1>9, <2>2, <2>3, Zenon
<1>12. Data(y)
  <2>1. k.pended \in Nat /\ Data(k)
    BY <1>2, OpenTime DEF SchedInv
  <2>2. QED BY <1>11, <2>1, SuspendingData
<1>13. /\ y.fault = 0 /\ y.preempt = 1 /\ y.started = 1 /\ y.susp = 1 /\ y.cur = k.cur /\ y.prio = k.prio
       /\ y.evt = k.evt /\ y.yield = k.yield /\ y.where = k.where /\ y.tick = k.tick
       /\ y.overflows = k.overflows
  BY <1>11 DEF Suspending, SchedInv
<1>14. TimeInv'
  BY <1>1, <1>2, <1>8, <1>11, <1>13, OpenTime DEF TimeInv
<1>15. /\ \A u \in Task \ {t} : y.where[u] = k.where[u] /\ y.state[u] = k.state[u]
       /\ y.where[t] = k.where[t]
       /\ pc'[t][1] \in {"block_take", "block_wait"} => y.state[t] = Waiting /\ pc'[t][2] \in TickType \ {0}
       /\ pc'[t][1] \in {"delay", "locked", "catchup", "malloc", "block_take", "block_wait", "nowait", "lock"}
       /\ y.state[t] = Waiting => k.state[t] = Waiting \/ pc'[t][1] \in {"block_take", "block_wait", "nowait"}
       /\ pc[t][1] \in {"run", "suspend_all"} /\ DOMAIN pc' = Task /\ \A u \in Task \ {t} : pc'[u] = pc[u]
  BY <1>1, <1>10, <1>11, <1>13
<1>16. SchedInv' /\ NoneJoins(k, k') /\ (y.pended = k.pended => Passes(k, k', 0))
  BY <1>1, <1>8, <1>12, <1>13, <1>14, <1>15, Locks, SMTT(30)
<1>17. QED BY <1>11, <1>16

\* The middle of a wait: the task leaves the ready list, also when an interrupt
\* has already answered; its event item then says so.
LEMMA StepNotifyBlocks ==
  ASSUME SchedInv, app' = app, NEW t \in Users, NotifyBlocks(t)
  PROVE  SchedInv' /\ Passes(k, k', 0)
<1>1. /\ t = k.cur /\ pc[t][1] \in {"block_take", "block_wait"} /\ last' = last /\ ticks' = ticks
      /\ held' = held /\ t \in Task
  BY DEF NotifyBlocks, At, Users
<1>2. k.susp = 1 /\ pc[t][1] \in Locking
  BY <1>1, Locked DEF Locking
<1>3. PICK n \in TickType \ {0} : n = pc[t][2]
  BY <1>1 DEF SchedInv, PlacesInv
<1>4. PICK y : y = k' OBVIOUS
<1>5. PICK b \in BOOLEAN : y = prvAddCurrentTaskToDelayedList(k, n, b)
  BY <1>3, <1>4, Zenon DEF NotifyBlocks
<1>6. /\ Data(y) /\ SameRest(k, y) /\ y.top = k.top /\ y.yield = k.yield /\ y.evt = k.evt
      /\ y.where = [k.where EXCEPT ![k.cur] = y.where[k.cur]]
      /\ y.where[k.cur] \in {Delayed(0), Delayed(1), Suspended}
  BY <1>5, DelayDoes DEF SchedInv, ItemsInv
<1>7. (\A u \in Task \ {t} : y.where[u] = k.where[u]) /\ y.where[t] \in {Delayed(0), Delayed(1), Suspended}
  <2>1. k.where \in [Task -> StateLists \cup {None}]
    BY DEF SchedInv, Data, Shape
  <2>2. QED BY <1>1, <1>6, <2>1
<1>8. /\ y.prio = k.prio /\ y.state = k.state /\ y.cur = k.cur /\ y.started = k.started /\ y.tick = k.tick
      /\ y.susp = k.susp /\ y.pended = k.pended /\ y.fault = k.fault /\ y.preempt = k.preempt
      /\ y.overflows = k.overflows
  BY <1>6 DEF SameRest
<1>9. DOMAIN pc' = Task /\ (\A u \in Task \ {t} : pc'[u] = pc[u]) /\ pc'[t][1] = "blocked"
  <2>1. Goto(t, "blocked", "take") \/ Goto(t, "blocked", "wait")
    BY DEF NotifyBlocks
  <2>2. QED BY <1>1, <2>1, GotoDoes
<1>10. PlacesInv'
  <2>1. "blocked" \in Locking /\ "block_take" \in Locking /\ "block_wait" \in Locking
    BY DEF Locking
  <2>2. QED BY <1>1, <1>2, <1>4, <1>8, <1>9, <2>1 DEF SchedInv, PlacesInv
<1>11. t # Idle /\ Idle \in Task
  BY Locked DEF Users
<1>12. ItemsInv'
  <2>1. y.where[t] # None
    BY <1>7, ListNames
  <2>2. \A u \in Task : k.where[u] # None => y.where[u] # None
    BY <1>7, <2>1
  <2>3. Parked(y)
    <3>1. k.evt[t] \notin EventLists
      <4>1. k.where[t] = Ready(k.prio[t])
        BY <1>1 DEF SchedInv, RunsInv, Leaving
      <4>2. k.where[t] \notin DelayedLists \cup {Suspended}
        BY <4>1, ListNames DEF DelayedLists
      <4>3. QED BY <1>1, <4>2 DEF SchedInv, ItemsInv, Parked
    <3>2. QED BY <1>1, <1>6, <1>7, <1>8, <2>2, <3>1 DEF SchedInv, ItemsInv, Parked
  <2>4. QED BY <1>1, <1>4, <1>7, <1>8, <1>11, <2>1, <2>3 DEF SchedInv, ItemsInv
<1>13. TimeInv'
  BY <1>1, <1>4, <1>8 DEF SchedInv, TimeInv
<1>14. t \notin held
  BY <1>1 DEF SchedInv, HeldInv
<1>15. HeldInv'
  <2>1. held \subseteq Task
    BY DEF SchedInv, HeldInv, Users
  <2>2. QED BY <1>1, <1>4, <1>6, <1>7, <1>8, <1>14, <2>1 DEF SchedInv, HeldInv
<1>16. RunsInv'
  <2>1. ASSUME y.yield = 0, NEW u \in Task, y.where[u] = Ready(y.prio[u]) PROVE y.prio[u] <= y.prio[t]
    <3>1. u # t
      BY <1>7, <2>1, ListNames
    <3>2. k.where[u] = Ready(k.prio[u]) /\ k.yield = 0
      BY <1>6, <1>7, <1>8, <2>1, <3>1
    <3>3. pc[t][1] \notin Yielding /\ pc[t][1] # "created"
      BY <1>1 DEF Yielding
    <3>4. QED BY <1>1, <1>8, <3>2, <3>3 DEF SchedInv, RunsInv
  <2>2. pc'[t][1] \in Leaving
    BY <1>9 DEF Leaving
  <2>3. QED BY <1>1, <1>4, <1>8, <1>9, <2>1, <2>2 DEF RunsInv
<1>17. NotesInv'
  <2>1. k.state[t] # Waiting => k.evt[t] = Pending
    BY <1>1 DEF SchedInv, NotesInv
  <2>2. \A u \in Users : u \in Task
    BY DEF Users
  <2>3. \A u \in Users \ held : pc'[u][1] \in {"blocked", "handover", "collect"} /\ k.state[u] # Waiting =>
          y.where[u] = Ready(k.prio[u]) \/ k.evt[u] = Pending
    BY <1>7, <1>9, <2>1, <2>2 DEF SchedInv, NotesInv
  <2>4. \A u \in Task : pc'[u][1] \in {"block_take", "block_wait"} /\ k.state[u] # Waiting => k.evt[u] = Pending
    BY <1>9 DEF SchedInv, NotesInv
  <2>5. QED BY <1>1, <1>4, <1>6, <1>8, <2>3, <2>4 DEF NotesInv
<1>18. Passes(k, k', 0)
  <2>1. NoneJoins(k, y) /\ Data(k)
    BY <1>6, <1>8 DEF NoneJoins, SchedInv
  <2>2. QED BY <1>4, <1>8, <2>1, ClockStays
<1>19. QED BY <1>4, <1>6, <1>8, <1>10, <1>12, <1>13, <1>15, <1>16, <1>17, <1>18 DEF SchedInv

\* The steps that end in xTaskResumeAll.
LEMMA StepResumes ==
  ASSUME SchedInv, app' = app, NEW t \in Users,
         \/ ResumeAll(t) \/ DelayResumes(t) \/ NotifyResumes(t)
         \/ /\ At(t, "malloc") /\ k' = xTaskResumeAll(k).k /\ Goto(t, "create", 0)
            /\ UNCHANGED <<last, ticks, held>>
  PROVE  SchedInv' /\ Passes(k, k', 0)
<1>1. t = k.cur /\ last' = last /\ ticks' = ticks /\ held' = held /\ t \in Task
  BY DEF ResumeAll, DelayResumes, NotifyResumes, At, Users
<1>2. PICK r : r = xTaskResumeAll(k) OBVIOUS
<1>3. k' = r.k
  BY <1>2 DEF ResumeAll, DelayResumes, NotifyResumes
<1>4. CASE \/ ResumeAll(t)
           \/ At(t, "malloc") /\ k' = xTaskResumeAll(k).k /\ Goto(t, "create", 0)
  <2>1. pc[t][1] \in {"locked", "catchup", "malloc"} /\ (Goto(t, "run", 0) \/ Goto(t, "create", 0))
    BY <1>4 DEF ResumeAll, At
  <2>2. pc[t][1] \in Locking
    BY <2>1 DEF Locking
  <2>3. DOMAIN pc' = Task /\ (\A u \in Task \ {t} : pc'[u] = pc[u]) /\ pc'[t][1] \in {"run", "create"}
    BY <1>1, <2>1, GotoDoes
  <2>4. k.where[t] = Ready(k.prio[t])
    BY <1>1, <2>1 DEF SchedInv, RunsInv, Leaving
  <2>5. QED BY <1>1, <1>2, <1>3, <2>2, <2>3, <2>4, Resumes
<1>5. CASE DelayResumes(t)
  <2>1. pc[t][1] = "delay"
    BY <1>5 DEF DelayResumes, At
  <2>2. pc[t][1] \in Locking
    BY <2>1 DEF Locking
  <2>3. Goto(t, IF r.yielded THEN "run" ELSE "yield", 0)
    BY <1>2, <1>5 DEF DelayResumes
  <2>4. PICK p : p = IF r.yielded THEN "run" ELSE "yield" OBVIOUS
  <2>5. DOMAIN pc' = Task /\ (\A u \in Task \ {t} : pc'[u] = pc[u]) /\ pc'[t][1] = p
    BY <1>1, <2>3, <2>4, GotoDoes
  <2>6. ~r.yielded => pc'[t][1] \in Yielding
    BY <2>4, <2>5 DEF Yielding
  <2>7. QED BY <1>1, <1>2, <1>3, <2>1, <2>2, <2>4, <2>5, <2>6, Resumes
<1>6. CASE NotifyResumes(t)
  <2>1. \/ pc[t][1] = "blocked" /\ Goto(t, IF r.yielded THEN "collect" ELSE "handover", pc[t][2])
        \/ pc[t][1] = "nowait" /\ Goto(t, "collect", pc[t][2])
    BY <1>2, <1>6 DEF NotifyResumes, At
  <2>2. pc[t][1] \in Locking
    BY <2>1 DEF Locking
  <2>3. CASE pc[t][1] = "blocked" /\ Goto(t, IF r.yielded THEN "collect" ELSE "handover", pc[t][2])
    <3>1. PICK p : p = IF r.yielded THEN "collect" ELSE "handover" OBVIOUS
    <3>2. DOMAIN pc' = Task /\ (\A u \in Task \ {t} : pc'[u] = pc[u]) /\ pc'[t][1] = p
      BY <1>1, <2>3, <3>1, GotoDoes
    <3>3. ~r.yielded => pc'[t][1] \in Yielding
      BY <3>1, <3>2 DEF Yielding
    <3>4. QED BY <1>1, <1>2, <1>3, <2>2, <2>3, <3>1, <3>2, <3>3, Resumes
  <2>4. CASE pc[t][1] = "nowait" /\ Goto(t, "collect", pc[t][2])
    <3>1. DOMAIN pc' = Task /\ (\A u \in Task \ {t} : pc'[u] = pc[u]) /\ pc'[t][1] = "collect"
      BY <1>1, <2>4, GotoDoes
    <3>2. k.where[t] = Ready(k.prio[t])
      BY <1>1, <2>4 DEF SchedInv, RunsInv, Leaving
    <3>3. QED BY <1>1, <1>2, <1>3, <2>2, <2>4, <3>1, <3>2, Resumes
  <2>5. QED BY <2>1, <2>3, <2>4
<1>7. QED BY <1>4, <1>5, <1>6

\* A task created while the scheduler runs: it is ready, and may be above the
\* running one until that one looks.
LEMMA StepCreates ==
  ASSUME SchedInv, app' = app, NEW t \in Users, At(t, "create"), last' = last, ticks' = ticks, held' = held,
         NEW x \in Task \ Created(k), NEW p \in Priorities,
         k' = prvAddNewTaskToReadyList(k, x, p), Goto(t, "created", p)
  PROVE  SchedInv' /\ Passes(k, k', 0)
<1>1. t = k.cur /\ pc[t][1] = "create" /\ t \in Task
  BY DEF At, Users
<1>2. k.susp = 0
  BY <1>1, Locked DEF Locking
<1>3. PICK y : y = k' OBVIOUS
<1>4. x \in Task /\ k.where[x] = None
  BY DEF Created
<1>5. Created(k) # {} /\ k.started = 1 /\ Data(k)
  <2>1. Idle \in Created(k)
    BY Locked, ListNames DEF Created
  <2>2. QED BY <2>1 DEF SchedInv
<1>6. /\ Data(y) /\ y.prio = [k.prio EXCEPT ![x] = p] /\ y.state = [k.state EXCEPT ![x] = NotWaiting]
      /\ y.where = [k.where EXCEPT ![x] = Ready(p)] /\ y.evt = k.evt
      /\ y.started = k.started /\ y.tick = k.tick
      /\ y.susp = k.susp /\ y.pended = k.pended /\ y.fault = k.fault /\ y.preempt = k.preempt
      /\ y.yield = k.yield /\ y.cur = k.cur /\ y.overflows = k.overflows
  BY <1>3, <1>4, <1>5, CreateDoes
<1>7. /\ y.prio[x] = p /\ y.where[x] = Ready(p) /\ y.state[x] = NotWaiting
      /\ \A u \in Task \ {x} : y.prio[u] = k.prio[u] /\ y.where[u] = k.where[u] /\ y.state[u] = k.state[u]
  <2>1. /\ k.prio \in [Task -> Priorities] /\ k.where \in [Task -> StateLists \cup {None}]
        /\ k.state \in [Task -> {NotWaiting, Waiting, Received}]
    BY <1>5 DEF Data, Shape
  <2>2. QED BY <1>4, <1>6, <2>1
<1>8. DOMAIN pc' = Task /\ (\A u \in Task \ {t} : pc'[u] = pc[u]) /\ pc'[t][1] = "created" /\ pc'[t][2] = p
  BY <1>1, GotoDoes
<1>9. \A u \in Task : pc[u][1] \notin Locking /\ pc'[u][1] \notin Locking
  <2>1. "created" \notin Locking
    BY DEF Locking
  <2>2. QED BY <1>2, <1>8, <2>1, Locked
<1>10. PlacesInv'
  <2>1. \A u \in Task : pc'[u][1] = "created" => pc'[u][2] \in Priorities
    BY <1>8 DEF SchedInv, PlacesInv
  <2>2. "block_take" \in Locking /\ "block_wait" \in Locking
    BY DEF Locking
  <2>3. QED BY <1>1, <1>2, <1>3, <1>6, <1>8, <1>9, <2>1, <2>2 DEF PlacesInv
<1>11. x # k.cur /\ x # Idle /\ x \notin held
  <2>1. k.where[k.cur] # None /\ k.where[Idle] # None
    BY Locked, ListNames DEF SchedInv, ItemsInv
  <2>2. \A u \in held : k.where[u] # None
    BY ListNames DEF SchedInv, HeldInv
  <2>3. QED BY <1>4, <2>1, <2>2
<1>12. Idle \in Task /\ NotWaiting # Waiting /\ \A q : Ready(q) # None
  BY Locked, ListNames DEF NotWaiting, Waiting
<1>13. ItemsInv'
  <2>1. ASSUME NEW u \in Task
        PROVE  /\ y.evt[u] # None => y.where[u] # None /\ y.state[u] # Waiting
               /\ y.evt[u] = Pending => y.susp = 1
               /\ y.evt[u] \in EventLists => y.where[u] \in DelayedLists \cup {Suspended}
    <3>1. CASE u = x
      <4>1. k.evt[x] = None
        BY <1>4 DEF SchedInv, ItemsInv, Parked
      <4>2. QED BY <1>6, <3>1, <4>1, ListNames
    <3>2. CASE u # x
      BY <1>6, <1>7, <3>2 DEF SchedInv, ItemsInv, Parked
    <3>3. QED BY <3>1, <3>2
  <2>2. Parked(y)
    BY <2>1 DEF Parked
  <2>3. QED BY <1>1, <1>3, <1>6, <1>7, <1>11, <1>12, <2>2 DEF SchedInv, ItemsInv
<1>14. TimeInv'
  BY <1>3, <1>6 DEF SchedInv, TimeInv
<1>15. HeldInv'
  <2>1. held \subseteq Task /\ k.cur \notin held
    BY <1>1 DEF SchedInv, HeldInv, Users
  <2>2. QED BY <1>3, <1>6, <1>7, <1>11, <2>1 DEF SchedInv, HeldInv
<1>16. RunsInv'
  <2>1. k.where[t] = Ready(k.prio[t])
    BY <1>1 DEF SchedInv, RunsInv, Leaving
  <2>2. y.where[t] = Ready(y.prio[t])
    BY <1>1, <1>7, <1>11, <2>1
  <2>3. ASSUME y.yield = 0, NEW u \in Task, y.where[u] = Ready(y.prio[u])
        PROVE  y.prio[u] <= y.prio[t] \/ y.prio[u] <= p
    <3>1. CASE u = x
      <4>1. p \in Int
        BY TasksAssumption DEF Priorities
      <4>2. QED BY <1>7, <3>1, <4>1
    <3>2. CASE u # x
      <4>1. k.where[u] = Ready(k.prio[u]) /\ k.yield = 0
        BY <1>6, <1>7, <2>3, <3>2
      <4>2. k.prio[u] <= k.prio[t]
        BY <1>1, <4>1 DEF SchedInv, RunsInv, Yielding
      <4>3. QED BY <1>1, <1>7, <1>11, <3>2, <4>2
    <3>3. QED BY <3>1, <3>2
  <2>4. QED BY <1>1, <1>3, <1>6, <1>8, <2>2, <2>3 DEF RunsInv
<1>17. NotesInv'
  <2>1. \A u \in Task : pc'[u][1] \notin {"block_take", "block_wait"}
    BY <1>9 DEF Locking
  <2>2. ASSUME NEW u \in Users \ held, pc'[u][1] \in {"blocked", "handover", "collect"}, y.state[u] # Waiting
        PROVE  y.where[u] = Ready(y.prio[u]) \/ y.evt[u] = Pending
    <3>1. u \in Task /\ pc[u] = pc'[u]
      BY <1>8, <2>2 DEF Users
    <3>2. CASE u = x
      BY <1>7, <3>2
    <3>3. CASE u # x
      BY <1>6, <1>7, <2>2, <3>1, <3>3 DEF SchedInv, NotesInv
    <3>4. QED BY <3>2, <3>3
  <2>3. QED BY <1>3, <2>1, <2>2 DEF NotesInv
<1>18. Passes(k, k', 0)
  <2>1. NoneJoins(k, y)
    BY <1>6, <1>7, <1>12 DEF NoneJoins
  <2>2. QED BY <1>3, <1>5, <1>6, <2>1, ClockStays
<1>19. QED BY <1>3, <1>6, <1>10, <1>13, <1>14, <1>15, <1>16, <1>17, <1>18 DEF SchedInv

\* xTaskCreate while the scheduler runs.
LEMMA StepCreateGoesOn ==
  ASSUME SchedInv, app' = app, NEW t \in Users, CreateGoesOn(t)
  PROVE  SchedInv' /\ Passes(k, k', 0)
<1>1. t = k.cur /\ last' = last /\ ticks' = ticks /\ held' = held /\ t \in Task
  BY DEF CreateGoesOn, At, Users
<1>2. Alike(k, k)
  BY DEF Alike, SchedInv
<1>3. CASE At(t, "malloc") /\ k' = xTaskResumeAll(k).k /\ Goto(t, "create", 0)
  BY <1>1, <1>3, StepResumes
<1>4. CASE \E x \in Task \ Created(k), p \in Priorities :
             At(t, "create") /\ k' = prvAddNewTaskToReadyList(k, x, p) /\ Goto(t, "created", p)
  BY <1>1, <1>4, StepCreates
<1>5. CASE At(t, "create") /\ k' = k /\ Goto(t, "run", 0)
  <2>1. pc[t][1] = "create" /\ pc[t][1] \notin Locking /\ pc[t][1] \notin Leaving
    BY <1>5 DEF At, Locking, Leaving
  <2>2. DOMAIN pc' = Task /\ (\A u \in Task \ {t} : pc'[u] = pc[u]) /\ pc'[t][1] = "run"
    BY <1>1, <1>5, GotoDoes
  <2>3. QED BY <1>1, <1>2, <1>5, <2>1, <2>2, Stays DEF Alike
<1>6. CASE /\ At(t, "created") /\ Goto(t, "run", 0)
           /\ k' = IF k.prio[t] < pc[t][2] THEN YieldIfPreempting(k) ELSE k
  <2>1. pc[t][1] = "created" /\ pc[t][1] \notin Locking /\ pc[t][1] \notin Leaving
    BY <1>6 DEF At, Locking, Leaving
  <2>2. DOMAIN pc' = Task /\ (\A u \in Task \ {t} : pc'[u] = pc[u]) /\ pc'[t][1] = "run"
    BY <1>1, <1>6, GotoDoes
  <2>3. CASE k.prio[t] < pc[t][2]
    <3>1. k' = vTaskSwitchContext(k)
      BY <1>6, <2>3 DEF YieldIfPreempting, SchedInv
    <3>2. QED BY <1>1, <1>2, <2>1, <2>2, <3>1, Switches
  <2>4. CASE ~(k.prio[t] < pc[t][2])
    <3>1. k' = k
      BY <1>6, <2>4
    <3>2. QED BY <1>1, <1>2, <2>1, <2>2, <2>4, <3>1, Stays DEF Alike
  <2>5. QED BY <2>3, <2>4
<1>7. QED BY <1>3, <1>4, <1>5, <1>6 DEF CreateGoesOn

(* What holds of the record z in the middle of a step that leaves every task  *)
(* at its place, with the tasks H stopped, whether or not a switch follows.   *)
Between(z, H) ==
  /\ Data(z) /\ z.fault = 0 /\ z.preempt = 1 /\ z.started = 1 /\ z.cur = k.cur /\ z.susp = k.susp
  /\ H \subseteq held /\ Parked(z)
  /\ z.where[z.cur] # None /\ z.where[Idle] = Ready(0) /\ z.prio[Idle] = 0 /\ z.state[Idle] # Waiting
  /\ \A u \in H : z.where[u] = Suspended /\ z.evt[u] = None /\ z.state[u] # Waiting
  /\ pc[k.cur][1] \notin Leaving => z.where[k.cur] = Ready(z.prio[k.cur])
  /\ \A u \in Users \ H :
       pc[u][1] \in {"blocked", "handover", "collect"} /\ z.state[u] # Waiting =>
         z.where[u] = Ready(z.prio[u]) \/ z.evt[u] = Pending
  /\ \A u \in Task :
       pc[u][1] \in {"block_take", "block_wait"} /\ z.state[u] # Waiting => z.evt[u] = Pending

(* Nobody above the running task is ready, unless a switch is pending. *)
Lowest(z) ==
  z.yield = 0 /\ pc[k.cur][1] \notin Yielding =>
    \A u \in Task : z.where[u] = Ready(z.prio[u]) =>
      \/ z.prio[u] <= z.prio[k.cur]
      \/ pc[k.cur][1] = "created" /\ z.prio[u] <= pc[k.cur][2]

(* The places of a blocking call of queue.c before and after the scheduler is  *)
(* suspended, and while it is: a task goes from one to another of its kind.    *)
Plain == {"run", "again", "failed", "suspend_all", "look"}
Inside == {"lock", "place", "unlock_tx", "unlock_rx", "resume_all"}
GoesOn(p, p1) ==
  \/ p1 = p
  \/ p[1] \in Plain /\ p1[1] \in Plain
  \/ p[1] \in Inside /\ p1[1] \in Inside /\ (p[1] \in Leaving => p1[1] \in Leaving)

(* y is z but for the running task, the pending switch and the round of its list. *)
Settled(z, y) ==
  /\ y.where = z.where /\ y.evt = z.evt /\ y.prio = z.prio /\ y.state = z.state /\ y.susp = z.susp
  /\ y.tick = z.tick /\ y.overflows = z.overflows /\ y.pended = z.pended /\ y.list = z.list

\* A step that keeps every task at its place, or moves it on in a call of queue.c,
\* and ends with or without a switch.
LEMMA Settles ==
  ASSUME SchedInv, NEW z, NEW H, Between(z, H), k' = vTaskSwitchContext(z) \/ (k' = z /\ Lowest(z)),
         app' = app, last' = last, held' = H, DOMAIN pc' = Task, \A u \in Task : GoesOn(pc[u], pc'[u]),
         z.pended \in 0 .. MaxPended, z.susp = 0 => z.pended = 0, ticks' = (z.tick + z.pended) % TickMod
  PROVE  SchedInv' /\ Settled(z, k')
<1>1. PICK y : y = k' OBVIOUS
<1>2. Data(z) /\ z.where[Idle] = Ready(0)
  BY DEF Between
<1>3. /\ Data(y) /\ y.where = z.where /\ y.evt = z.evt /\ y.prio = z.prio /\ y.state = z.state
      /\ y.started = z.started /\ y.tick = z.tick /\ y.susp = z.susp
      /\ y.pended = z.pended /\ y.fault = z.fault /\ y.preempt = z.preempt
      /\ y.overflows = z.overflows /\ y.list = z.list
  <2>1. CASE k' = z
    BY <1>1, <1>2, <2>1
  <2>2. CASE k' = vTaskSwitchContext(z)
    <3>1. Data(y) /\ Switched(z, y)
      BY <1>1, <1>2, <2>2, SwitchData
    <3>2. QED BY <3>1 DEF Switched
  <2>3. QED BY <2>1, <2>2
<1>4. y.cur \in Task /\ k.cur \in Task /\ z.cur = k.cur /\ z.susp = k.susp /\ DOMAIN pc = Task
  BY <1>3, Locked DEF Data, Shape, Between
<1>5. \/ y.cur = k.cur /\ Lowest(y) /\ y.where[y.cur] # None
      \/ k.susp = 0 /\ OnTop(y)
  <2>1. CASE k' = z /\ Lowest(z)
    BY <1>1, <1>4, <2>1 DEF Between
  <2>2. CASE k' = vTaskSwitchContext(z)
    <3>1. /\ z.susp = 0 => y.yield = 0 /\ OnTop(y)
          /\ z.susp # 0 => y.yield = 1 /\ y.cur = z.cur
      BY <1>1, <1>2, <2>2, SwitchData
    <3>2. z.where[z.cur] # None
      BY DEF Between
    <3>3. QED BY <1>3, <1>4, <3>1, <3>2 DEF Lowest
  <2>3. QED BY <2>1, <2>2
<1>6. y.where[y.cur] # None /\ (k.susp = 0 /\ OnTop(y) => y.where[y.cur] # Suspended)
  BY <1>5, ListNames DEF OnTop
<1>20. \A u \in Task : /\ pc'[u][1] \in Locking <=> pc[u][1] \in Locking
                       /\ pc'[u][1] \notin Leaving => pc[u][1] \notin Leaving
                       /\ pc'[u][1] \in Yielding <=> pc[u][1] \in Yielding
  <2>1. \A p \in Plain : p \notin Locking /\ p \notin Leaving /\ p \notin Yielding
    BY DEF Plain, Locking, Leaving, Yielding
  <2>2. \A p \in Inside : p \in Locking /\ p \notin Yielding
    BY DEF Inside, Locking, Yielding
  <2>3. QED BY <2>1, <2>2 DEF GoesOn
<1>21. \A u \in Task :
         /\ pc'[u][1] \in {"block_take", "block_wait", "created", "blocked", "handover", "collect"} => pc'[u] = pc[u]
         /\ pc[u][1] \in {"created", "suspend"} => pc'[u] = pc[u]
  BY DEF GoesOn, Plain, Inside
<1>7. PlacesInv'
  <2>0. \A u \in Task : /\ pc'[u][1] \in {"block_take", "block_wait"} => pc'[u][2] \in TickType \ {0}
                        /\ pc'[u][1] = "created" => pc'[u][2] \in Priorities
    BY <1>21 DEF SchedInv, PlacesInv
  <2>1. CASE y.cur = k.cur
    <3>1. \A u \in Task : pc'[u][1] \in Locking => u = k.cur
      BY <1>20 DEF SchedInv, PlacesInv
    <3>2. k.susp = IF pc'[k.cur][1] \in Locking THEN 1 ELSE 0
      BY <1>4, <1>20 DEF SchedInv, PlacesInv
    <3>3. QED BY <1>1, <1>3, <1>4, <2>0, <2>1, <3>1, <3>2 DEF PlacesInv
  <2>2. CASE k.susp = 0
    <3>1. \A u \in Task : pc'[u][1] \notin Locking
      BY <1>20, <2>2, Locked
    <3>2. QED BY <1>1, <1>3, <1>4, <2>0, <2>2, <3>1 DEF PlacesInv
  <2>3. QED BY <1>5, <2>1, <2>2
<1>8. ItemsInv'
  BY <1>1, <1>3, <1>6 DEF Between, ItemsInv, Parked
<1>9. TimeInv'
  <2>1. last \in [Task -> TickType]
    BY DEF SchedInv, TimeInv
  <2>2. QED BY <1>1, <1>3, <2>1 DEF TimeInv
<1>10. HeldInv'
  <2>1. H \subseteq Users
    BY DEF Between, SchedInv, HeldInv
  <2>2. y.cur \in H => pc'[y.cur][1] = "suspend"
    <3>1. CASE y.cur = k.cur
      BY <1>4, <1>21, <3>1 DEF Between, SchedInv, HeldInv
    <3>2. CASE k.susp = 0 /\ OnTop(y)
      BY <1>3, <1>6, <3>2 DEF Between
    <3>3. QED BY <1>5, <3>1, <3>2
  <2>3. QED BY <1>1, <1>3, <2>1, <2>2 DEF Between, HeldInv
<1>11. RunsInv'
  <2>1. CASE y.cur = k.cur /\ Lowest(y)
    <3>1. pc'[y.cur][1] \notin Leaving => y.where[y.cur] = Ready(y.prio[y.cur])
      BY <1>3, <1>4, <1>20, <2>1 DEF Between
    <3>2. pc'[y.cur][1] \notin Yielding => pc[k.cur][1] \notin Yielding
      BY <1>4, <1>20, <2>1
    <3>3. pc[k.cur][1] = "created" => pc'[k.cur] = pc[k.cur]
      BY <1>4, <1>21
    <3>4. QED BY <1>1, <2>1, <3>1, <3>2, <3>3 DEF RunsInv, Lowest
  <2>2. CASE OnTop(y)
    BY <1>1, <2>2 DEF RunsInv, OnTop
  <2>3. QED BY <1>5, <2>1, <2>2
<1>12. NotesInv'
  <2>1. \A u \in Users : u \in Task
    BY DEF Users
  <2>2. QED BY <1>1, <1>3, <1>21, <2>1 DEF Between, NotesInv
<1>13. app \in Apps /\ y.fault = 0 /\ y.preempt = 1 /\ y.started = 1
  BY <1>3 DEF SchedInv, Between
<1>14. QED BY <1>1, <1>3, <1>7, <1>8, <1>9, <1>10, <1>11, <1>12, <1>13 DEF SchedInv, Settled

\* The state before a step is one of its middle states.
LEMMA NowBetween ==
  ASSUME SchedInv
  PROVE  /\ Between(k, held) /\ Lowest(k) /\ k.pended \in 0 .. MaxPended /\ (k.susp = 0 => k.pended = 0)
         /\ ticks = (k.tick + k.pended) % TickMod
<1>1. Between(k, held)
  BY DEF Between, SchedInv, ItemsInv, HeldInv, RunsInv, NotesInv
<1>2. Lowest(k)
  BY DEF Lowest, SchedInv, RunsInv
<1>3. QED BY <1>1, <1>2 DEF SchedInv, TimeInv

\* Nobody moves.
LEMMA AllStay ==
  ASSUME SchedInv, pc' = pc
  PROVE  DOMAIN pc' = Task /\ \A u \in Task : GoesOn(pc[u], pc'[u])
BY Locked DEF GoesOn

\* A task that is woken: it is ready now, or waits for xTaskResumeAll.
LEMMA WokenIs ==
  ASSUME SchedInv, NEW x \in Task, NEW z, Data(z), z.prio = k.prio, z.cur = k.cur, z.started = k.started,
         z.susp = k.susp, z.fault = k.fault, z.preempt = k.preempt,
         \A u \in Task \ {x} : z.where[u] = k.where[u] /\ z.evt[u] = k.evt[u] /\ z.state[u] = k.state[u],
         z.state[x] # Waiting,
         \/ /\ z.where[x] = Ready(k.prio[x]) /\ z.evt[x] = None
            /\ pc[x][1] \notin {"block_take", "block_wait"}
         \/ k.susp = 1 /\ z.where[x] = k.where[x] /\ k.where[x] # None /\ z.evt[x] = Pending
  PROVE  /\ Between(z, held \ {x})
         /\ (z.yield = 0 => k.yield = 0 /\ (z.where[x] # k.where[x] => ~(k.prio[x] > k.prio[k.cur])))
            => Lowest(z)
<1>1. /\ k.cur \in Task /\ Idle \in Task /\ k.fault = 0 /\ k.preempt = 1 /\ k.started = 1
      /\ \A p : Ready(p) # None
  BY Locked, ListNames DEF SchedInv
<1>2. /\ Parked(k)
      /\ k.where[k.cur] # None /\ k.where[Idle] = Ready(0) /\ k.prio[Idle] = 0 /\ k.state[Idle] # Waiting
  BY DEF SchedInv, ItemsInv
<1>3. held \subseteq Users /\ held \subseteq Task
      /\ \A u \in held : k.where[u] = Suspended /\ k.evt[u] = None /\ k.state[u] # Waiting
  BY DEF SchedInv, HeldInv, Users
<1>4. Parked(z)
  <2>1. ASSUME NEW u \in Task
        PROVE  /\ z.evt[u] # None => z.where[u] # None /\ z.state[u] # Waiting
               /\ z.evt[u] = Pending => z.susp = 1
               /\ z.evt[u] \in EventLists => z.where[u] \in DelayedLists \cup {Suspended}
    <3>1. CASE u # x
      BY <1>2, <3>1 DEF Parked
    <3>2. CASE u = x
      BY <1>1, <3>2, ListNames
    <3>3. QED BY <3>1, <3>2
  <2>2. QED BY <2>1 DEF Parked
<1>5. z.where[z.cur] # None /\ z.where[Idle] = Ready(0) /\ z.prio[Idle] = 0 /\ z.state[Idle] # Waiting
  BY <1>1, <1>2
<1>6. \A u \in held \ {x} : z.where[u] = Suspended /\ z.evt[u] = None /\ z.state[u] # Waiting
  BY <1>3
<1>7. pc[k.cur][1] \notin Leaving =>
        z.where[k.cur] = Ready(z.prio[k.cur])
  BY <1>1 DEF SchedInv, RunsInv
<1>8. \A u \in Users \ (held \ {x}) :
        pc[u][1] \in {"blocked", "handover", "collect"} /\ z.state[u] # Waiting =>
          z.where[u] = Ready(z.prio[u]) \/ z.evt[u] = Pending
  BY DEF SchedInv, NotesInv, Users
<1>9. \A u \in Task :
        pc[u][1] \in {"block_take", "block_wait"} /\ z.state[u] # Waiting => z.evt[u] = Pending
  BY DEF SchedInv, NotesInv
<1>10. Between(z, held \ {x})
  BY <1>1, <1>4, <1>5, <1>6, <1>7, <1>8, <1>9 DEF Between
<1>11. ASSUME z.yield = 0 => k.yield = 0 /\ (z.where[x] # k.where[x] => ~(k.prio[x] > k.prio[k.cur]))
       PROVE  Lowest(z)
  <2>1. ASSUME z.yield = 0, pc[k.cur][1] \notin Yielding,
               NEW u \in Task, z.where[u] = Ready(z.prio[u])
        PROVE  \/ z.prio[u] <= z.prio[k.cur]
               \/ pc[k.cur][1] = "created" /\ z.prio[u] <= pc[k.cur][2]
    <3>1. k.prio[u] \in Int /\ k.prio[k.cur] \in Int
      BY <1>1, TasksAssumption DEF SchedInv, Data, Shape, Priorities
    <3>2. CASE z.where[u] = k.where[u]
      BY <1>11, <2>1, <3>2 DEF SchedInv, RunsInv
    <3>3. CASE z.where[u] # k.where[u]
      BY <1>11, <2>1, <3>1, <3>3
    <3>4. QED BY <3>2, <3>3
  <2>2. QED BY <2>1 DEF Lowest
<1>12. QED BY <1>10, <1>11

\* What the state of a task says of the time, in every state.
LEMMA KernelTime ==
  ASSUME SchedInv
  PROVE  /\ k.pended \in 0 .. MaxPended /\ (k.susp = 0 => k.pended = 0)
         /\ ticks = (k.tick + k.pended) % TickMod /\ k.where[k.cur] # None /\ Data(k)
BY DEF SchedInv, TimeInv, ItemsInv

\* A task that waits for a notification is not one that vTaskSuspend stopped.
LEMMA WaitersAreFree ==
  ASSUME SchedInv, NEW x \in Task, k.state[x] = Waiting
  PROVE  held \ {x} = held /\ k.evt[x] = None
<1>1. x \notin held
  BY DEF SchedInv, HeldInv
<1>2. k.evt[x] = None
  BY DEF SchedInv, ItemsInv, Parked
<1>3. QED BY <1>1, <1>2

\* vTaskResume readies the task, and gives way to it if it is above.
LEMMA StepResume ==
  ASSUME SchedInv, app' = app, NEW t \in Task, NEW x \in Task, vTaskResume(t, x)
  PROVE  SchedInv' /\ Passes(k, k', 0)
<1>1. /\ t = k.cur /\ pc[t][1] \in {"run", "locked"} /\ x # t /\ k.where[x] # None
      /\ k.where[x] = Suspended /\ k.state[x] # Waiting /\ k.evt[x] = None
      /\ k' = YieldIfAbove(prvAddTaskToReadyList(RemoveState(k, x), x), x)
      /\ held' = held \ {x} /\ pc' = pc /\ last' = last /\ ticks' = ticks
  BY DEF vTaskResume, InTask, At, Created, prvTaskIsTaskSuspended
<1>2. PICK z : z = prvAddTaskToReadyList(RemoveState(k, x), x)
  OBVIOUS
<1>3. /\ Data(z) /\ SameRest(k, z) /\ z.yield = k.yield /\ z.evt = k.evt
      /\ z.where = [k.where EXCEPT ![x] = Ready(k.prio[x])]
  BY <1>1, <1>2, KernelTime, ReadyData
<1>4. /\ z.prio = k.prio /\ z.cur = k.cur /\ z.started = k.started /\ z.state = k.state
      /\ z.susp = k.susp /\ z.fault = k.fault /\ z.preempt = k.preempt
      /\ z.tick = k.tick /\ z.pended = k.pended /\ z.overflows = k.overflows
  BY <1>3 DEF SameRest
<1>5. z.where[x] = Ready(k.prio[x]) /\ \A u \in Task \ {x} : z.where[u] = k.where[u]
  BY <1>3 DEF SchedInv, Data, Shape
<1>6. pc[x][1] \notin {"block_take", "block_wait"}
  BY <1>1 DEF SchedInv, PlacesInv, Locking
<1>7. /\ Between(z, held \ {x})
      /\ (z.yield = 0 => k.yield = 0 /\ (z.where[x] # k.where[x] => ~(k.prio[x] > k.prio[k.cur])))
         => Lowest(z)
  BY <1>1, <1>3, <1>4, <1>5, <1>6, WokenIs
<1>8. k' = vTaskSwitchContext(z) \/ (k' = z /\ ~(k.prio[x] > k.prio[k.cur]))
  <2>1. k.preempt = 1 /\ k.prio[x] \in Int /\ k.prio[k.cur] \in Int
    BY Locked, TasksAssumption DEF SchedInv, Data, Shape, Priorities
  <2>2. QED BY <1>1, <1>2, <1>4, <2>1 DEF YieldIfAbove, YieldIfPreempting
<1>9. k' = vTaskSwitchContext(z) \/ (k' = z /\ Lowest(z))
  BY <1>3, <1>7, <1>8
<1>10. SchedInv' /\ Settled(z, k')
  <2>1. DOMAIN pc' = Task /\ \A u \in Task : GoesOn(pc[u], pc'[u])
    BY <1>1, AllStay
  <2>2. QED BY <1>1, <1>4, <1>7, <1>9, <2>1, KernelTime, Settles
<1>11. NoneJoins(k, k') /\ Data(k)
  BY <1>3, <1>4, <1>10 DEF NoneJoins, Settled, SchedInv
<1>12. QED BY <1>4, <1>10, <1>11, ClockStays DEF Settled

\* An interrupt readies a task or leaves it to xTaskResumeAll, and notes that it
\* is above the running one; a switch may follow.
LEMMA IsrWakes ==
  ASSUME SchedInv, app' = app, last' = last, ticks' = ticks, pc' = pc, NEW x \in Task,
         k.where[x] # None, k.evt[x] = None, held' = held \ {x},
         NEW n, Data(n), n.prio = k.prio, n.cur = k.cur, n.started = k.started, n.susp = k.susp,
         n.fault = k.fault, n.preempt = k.preempt, n.tick = k.tick, n.pended = k.pended,
         n.where = k.where, n.evt = k.evt, \A u \in Task \ {x} : n.state[u] = k.state[u], n.state[x] # Waiting,
         n.yield = 0 => k.yield = 0,
         NEW z, z = ReadyOrPend(n, x),
         NEW y, DOMAIN y = Fields, y.list = z.list, y.index = z.index, y.where = z.where, y.evt = z.evt,
         y.wake = z.wake, y.left = z.left, SameRest(z, y), y.top = z.top, y.unblock = z.unblock,
         y.yield \in {0, 1}, y.yield = 0 => n.yield = 0,
         y.yield = 0 /\ k.susp = 0 => ~(k.prio[x] > k.prio[k.cur]),
         k' = y \/ k' = vTaskSwitchContext(y)
  PROVE  SchedInv'
<1>1. \/ k.susp = 0 /\ z = prvAddTaskToReadyList(RemoveState(n, x), x)
      \/ k.susp = 1 /\ z = vListInsertEnd(n, Pending, x)
  BY Locked DEF ReadyOrPend
<1>2. /\ Data(z) /\ SameRest(n, z) /\ z.yield = n.yield
      /\ \A u \in Task \ {x} : z.where[u] = k.where[u] /\ z.evt[u] = k.evt[u]
      /\ \/ k.susp = 0 /\ z.where[x] = Ready(k.prio[x]) /\ z.evt[x] = None
         \/ k.susp = 1 /\ z.where[x] = k.where[x] /\ z.evt[x] = Pending
  <2>1. DOMAIN n.where = Task /\ DOMAIN n.evt = Task
    BY DEF Data, Shape
  <2>2. CASE k.susp = 0 /\ z = prvAddTaskToReadyList(RemoveState(n, x), x)
    <3>1. /\ Data(z) /\ SameRest(n, z) /\ z.yield = n.yield /\ z.evt = n.evt
          /\ z.where = [n.where EXCEPT ![x] = Ready(n.prio[x])]
      BY <2>2, ReadyData, SMTT(30)
    <3>2. QED BY <2>1, <2>2, <3>1
  <2>3. CASE k.susp = 1 /\ z = vListInsertEnd(n, Pending, x)
    <3>1. /\ Data(z) /\ SameRest(n, z) /\ z.yield = n.yield /\ z.where = n.where
          /\ z.evt = [n.evt EXCEPT ![x] = Pending]
      BY <2>3, PendData, SMTT(30)
    <3>2. QED BY <2>1, <2>3, <3>1
  <2>4. QED BY <1>1, <2>2, <2>3
<1>3. /\ z.prio = k.prio /\ z.cur = k.cur /\ z.started = k.started /\ z.state = n.state
      /\ z.susp = k.susp /\ z.fault = k.fault /\ z.preempt = k.preempt
      /\ z.tick = k.tick /\ z.pended = k.pended
  BY <1>2 DEF SameRest
<1>4. /\ y.prio = k.prio /\ y.cur = k.cur /\ y.started = k.started /\ y.state = n.state
      /\ y.susp = k.susp /\ y.fault = k.fault /\ y.preempt = k.preempt
      /\ y.tick = k.tick /\ y.pended = k.pended
  BY <1>3 DEF SameRest
<1>5. Data(y)
  <2>1. /\ y.prio = z.prio /\ y.del = z.del /\ y.tick = z.tick /\ y.overflows = z.overflows
        /\ y.state = z.state /\ y.cur = z.cur /\ y.susp = z.susp /\ y.pended = z.pended /\ y.fault = z.fault
    BY DEF SameRest
  <2>2. /\ y.state \in [Task -> {NotWaiting, Waiting, Received}] /\ y.cur \in Task /\ y.susp \in Nat
        /\ y.pended \in Nat /\ y.fault \in {0, 1}
    BY <1>2, <2>1 DEF Data, Shape
  <2>3. QED BY <1>2, <2>1, <2>2, DataSame
<1>6. /\ \A u \in Task \ {x} : y.where[u] = k.where[u] /\ y.evt[u] = k.evt[u] /\ y.state[u] = k.state[u]
      /\ y.state[x] # Waiting
      /\ \/ /\ y.where[x] = Ready(k.prio[x]) /\ y.evt[x] = None
            /\ pc[x][1] \notin {"block_take", "block_wait"}
         \/ k.susp = 1 /\ y.where[x] = k.where[x] /\ k.where[x] # None /\ y.evt[x] = Pending
  <2>1. k.susp = 0 => pc[x][1] \notin {"block_take", "block_wait"}
    BY Locked DEF Locking
  <2>2. QED BY <1>2, <1>4, <2>1
<1>7. /\ Between(y, held \ {x})
      /\ (y.yield = 0 => k.yield = 0 /\ (y.where[x] # k.where[x] => ~(k.prio[x] > k.prio[k.cur])))
         => Lowest(y)
  BY <1>4, <1>5, <1>6, WokenIs
<1>8. Lowest(y)
  BY <1>2, <1>7
<1>9. DOMAIN pc' = Task /\ \A u \in Task : GoesOn(pc[u], pc'[u])
  BY AllStay
<1>10. QED BY <1>4, <1>7, <1>8, <1>9, KernelTime, Settles

\* xTaskResumeFromISR.
LEMMA StepResumeFromISR ==
  ASSUME SchedInv, app' = app, NEW x \in Task, xTaskResumeFromISR(x)
  PROVE  SchedInv'
<1>1. /\ k.where[x] # None /\ k.evt[x] = None /\ k.state[x] # Waiting
      /\ held' = held \ {x} /\ pc' = pc /\ last' = last /\ ticks' = ticks
  BY DEF xTaskResumeFromISR, Created, prvTaskIsTaskSuspended
<1>2. PICK n : n = IF k.susp = 0 /\ Above(x) THEN [k EXCEPT !.yield = 1] ELSE k
  OBVIOUS
<1>3. PICK z : z = ReadyOrPend(n, x)
  OBVIOUS
<1>4. k' = z \/ k' = vTaskSwitchContext(z)
  BY <1>2, <1>3 DEF xTaskResumeFromISR, EndOfIsr
<1>5. Data(k) /\ DOMAIN k = Fields /\ k.yield \in {0, 1} /\ Shape(k)
  BY DEF SchedInv, Data, Shape
<1>6. /\ DOMAIN n = Fields /\ n.list = k.list /\ n.index = k.index /\ n.where = k.where /\ n.evt = k.evt
      /\ n.wake = k.wake /\ n.left = k.left /\ n.prio = k.prio /\ n.top = k.top /\ n.del = k.del
  BY <1>2, <1>5 DEF Fields
<1>7. /\ n.tick = k.tick /\ n.overflows = k.overflows /\ n.unblock = k.unblock /\ n.state = k.state
      /\ n.cur = k.cur /\ n.susp = k.susp /\ n.pended = k.pended /\ n.fault = k.fault
      /\ n.started = k.started /\ n.preempt = k.preempt
  BY <1>2, <1>5 DEF Fields
<1>8. /\ n.yield \in {0, 1} /\ (n.yield = 0 => k.yield = 0)
      /\ (n.yield = 0 /\ k.susp = 0 => ~(k.prio[x] > k.prio[k.cur]))
  BY <1>2, <1>5 DEF Fields, Above
<1>9. Data(n)
  <2>1. /\ n.state \in [Task -> {NotWaiting, Waiting, Received}] /\ n.cur \in Task /\ n.susp \in Nat
        /\ n.pended \in Nat /\ n.fault \in {0, 1}
    BY <1>5, <1>7 DEF Shape
  <2>2. QED BY <1>5, <1>6, <1>7, <1>8, <2>1, DataSame
<1>10. Data(z) /\ z.yield = n.yield /\ SameRest(n, z)
  <2>1. k.susp = 0 \/ k.susp = 1
    BY Locked
  <2>2. CASE k.susp = 0
    <3>1. z = prvAddTaskToReadyList(RemoveState(n, x), x)
      BY <1>3, <1>7, <2>2 DEF ReadyOrPend
    <3>2. n.where[x] # None
      BY <1>1, <1>6
    <3>3. /\ Data(z) /\ SameRest(n, z) /\ z.yield = n.yield /\ z.evt = n.evt
          /\ z.where = [n.where EXCEPT ![x] = Ready(n.prio[x])]
      BY <1>9, <3>1, <3>2, ReadyData
    <3>4. QED BY <3>3
  <2>3. CASE k.susp = 1
    <3>1. z = vListInsertEnd(n, Pending, x)
      BY <1>3, <1>7, <2>3 DEF ReadyOrPend
    <3>2. n.evt[x] = None
      BY <1>1, <1>6
    <3>3. /\ Data(z) /\ SameRest(n, z) /\ z.yield = n.yield /\ z.where = n.where
          /\ z.evt = [n.evt EXCEPT ![x] = Pending]
      BY <1>9, <3>1, <3>2, PendData
    <3>4. QED BY <3>3
  <2>4. QED BY <2>1, <2>2, <2>3
<1>11. DOMAIN z = Fields /\ z.yield \in {0, 1} /\ SameRest(z, z)
  BY <1>10 DEF Data, Shape, SameRest
<1>12. z.yield = 0 => n.yield = 0 /\ (k.susp = 0 => ~(k.prio[x] > k.prio[k.cur]))
  BY <1>8, <1>10
<1>13. \A u \in Task \ {x} : n.state[u] = k.state[u]
  BY <1>7
<1>14. n.state[x] # Waiting
  BY <1>1, <1>7
<1>15. QED BY <1>1, <1>3, <1>4, <1>6, <1>7, <1>8, <1>9, <1>11, <1>12, <1>13, <1>14, IsrWakes

\* A notification by an interrupt.
LEMMA IsrNotification ==
  ASSUME SchedInv, app' = app, NEW x \in Task, NEW n, NEW v, Marked(k, n, x, Received, v), IsrNotifies(n, x)
  PROVE  SchedInv'
<1>1. /\ k.where[x] # None /\ k.fault = 0
      /\ held' = held /\ pc' = pc /\ last' = last /\ ticks' = ticks
  BY DEF IsrNotifies, CanNotify, Created
<1>2. Received \in {NotWaiting, Received} /\ Received \in {NotWaiting, Waiting, Received} /\ Received # Waiting
  BY DEF Received, Waiting
<1>3. CASE k.state[x] # Waiting
  <2>1. k' = n
    BY <1>3 DEF IsrNotifies
  <2>2. QED BY <1>1, <1>2, <1>3, <2>1, Marks
<1>4. CASE k.state[x] = Waiting
  <2>1. held \ {x} = held /\ k.evt[x] = None
    BY <1>4, WaitersAreFree
  <2>2. /\ Data(n) /\ Remarked(k, n, n.state)
        /\ n.state[x] = Received /\ \A u \in Task \ {x} : n.state[u] = k.state[u]
    BY <1>2, MarkDoes DEF SchedInv
  <2>3. /\ n.where = k.where /\ n.evt = k.evt /\ n.prio = k.prio /\ n.cur = k.cur
        /\ n.started = k.started /\ n.tick = k.tick /\ n.susp = k.susp /\ n.pended = k.pended
        /\ n.yield = k.yield /\ n.fault = k.fault /\ n.preempt = k.preempt
    BY <2>2 DEF Remarked
  <2>4. PICK z : z = ReadyOrPend(n, x)
    OBVIOUS
  <2>5. PICK y : y = NoteHigher(z, x)
    OBVIOUS
  <2>6. configASSERT(n, k.evt[x] = None) = n
    BY <2>1 DEF configASSERT
  <2>7. k' = y \/ k' = vTaskSwitchContext(y)
    BY <1>4, <2>4, <2>5, <2>6 DEF IsrNotifies, EndOfIsr, IsrReadies
  <2>8. Data(z) /\ z.yield = n.yield /\ SameRest(n, z)
    <3>1. k.susp = 0 \/ k.susp = 1
      BY Locked
    <3>2. CASE k.susp = 0
      <4>1. z = prvAddTaskToReadyList(RemoveState(n, x), x)
        BY <2>3, <2>4, <3>2 DEF ReadyOrPend
      <4>2. n.where[x] # None
        BY <1>1, <2>3
      <4>3. /\ Data(z) /\ SameRest(n, z) /\ z.yield = n.yield /\ z.evt = n.evt
            /\ z.where = [n.where EXCEPT ![x] = Ready(n.prio[x])]
        BY <2>2, <4>1, <4>2, ReadyData
      <4>4. QED BY <4>3
    <3>3. CASE k.susp = 1
      <4>1. z = vListInsertEnd(n, Pending, x)
        BY <2>3, <2>4, <3>3 DEF ReadyOrPend
      <4>2. n.evt[x] = None
        BY <2>1, <2>3
      <4>3. /\ Data(z) /\ SameRest(n, z) /\ z.yield = n.yield /\ z.where = n.where
            /\ z.evt = [n.evt EXCEPT ![x] = Pending]
        BY <2>2, <4>1, <4>2, PendData
      <4>4. QED BY <4>3
    <3>4. QED BY <3>1, <3>2, <3>3
  <2>9. DOMAIN z = Fields /\ z.yield \in {0, 1} /\ z.prio = k.prio /\ z.cur = k.cur
    BY <2>3, <2>8 DEF Data, Shape, SameRest
  <2>10. y = [z EXCEPT !.yield = IF z.prio[x] > z.prio[z.cur] THEN 1 ELSE @]
    BY <2>5 DEF NoteHigher
  <2>11. /\ DOMAIN y = Fields /\ y.list = z.list /\ y.index = z.index /\ y.where = z.where /\ y.evt = z.evt
         /\ y.wake = z.wake /\ y.left = z.left /\ y.top = z.top /\ y.unblock = z.unblock
    BY <2>9, <2>10 DEF Fields
  <2>12. SameRest(z, y)
    BY <2>9, <2>10 DEF Fields, SameRest
  <2>13. y.yield = IF k.prio[x] > k.prio[k.cur] THEN 1 ELSE z.yield
    BY <2>9, <2>10 DEF Fields
  <2>14. /\ y.yield \in {0, 1} /\ (y.yield = 0 => n.yield = 0)
         /\ (y.yield = 0 /\ k.susp = 0 => ~(k.prio[x] > k.prio[k.cur])) /\ (n.yield = 0 => k.yield = 0)
    BY <2>3, <2>8, <2>9, <2>13
  <2>15. n.state[x] # Waiting /\ held' = held \ {x}
    BY <1>1, <1>2, <2>1, <2>2
  <2>16. QED BY <1>1, <2>1, <2>2, <2>3, <2>4, <2>7, <2>11, <2>12, <2>14, <2>15, IsrWakes
<1>5. QED BY <1>3, <1>4

\* What a notification makes of task x differs in its state and value only.
LEMMA NotifiedIs ==
  ASSUME NEW x, NEW n \in Notified(x)
  PROVE  \E v : n = [k EXCEPT !.state[x] = Received, !.value[x] = v]
<1>1. PICK v \in NotifiedValues(x) : n = [k EXCEPT !.state[x] = Received, !.value[x] = v]
  BY DEF Notified
<1>2. QED BY <1>1, Zenon

\* xTaskGenericNotifyFromISR and vTaskGenericNotifyGiveFromISR.
LEMMA StepIsrNotifies ==
  ASSUME SchedInv, app' = app, NEW x \in Task,
         xTaskGenericNotifyFromISR(x) \/ vTaskGenericNotifyGiveFromISR(x)
  PROVE  SchedInv'
<1>1. CASE xTaskGenericNotifyFromISR(x)
  <2>1. PICK n \in Notified(x) : IsrNotifies(n, x)
    BY <1>1 DEF xTaskGenericNotifyFromISR
  <2>2. PICK v : n = [k EXCEPT !.state[x] = Received, !.value[x] = v]
    BY <2>1, NotifiedIs
  <2>3. Marked(k, n, x, Received, v)
    BY <2>2, Zenon DEF Marked
  <2>4. QED BY <2>1, <2>3, IsrNotification
<1>2. CASE vTaskGenericNotifyGiveFromISR(x)
  <2>1. PICK n : /\ n = [k EXCEPT !.state[x] = Received, !.value[x] = @ + 1]
                 /\ IsrNotifies(n, x)
    BY <1>2, Zenon DEF vTaskGenericNotifyGiveFromISR
  <2>2. PICK v : v = [k EXCEPT !.state[x] = Received].value[x] + 1
    OBVIOUS
  <2>3. n = [k EXCEPT !.state[x] = Received, !.value[x] = v]
    BY <2>1, <2>2
  <2>4. Marked(k, n, x, Received, v)
    BY <2>3, Zenon DEF Marked
  <2>5. QED BY <2>1, <2>4, IsrNotification
<1>3. QED BY <1>1, <1>2

\* xTaskGenericNotify: a waiting task is readied, and the caller gives way to it if it is above.
LEMMA StepNotify ==
  ASSUME SchedInv, app' = app, NEW t \in Task, NEW x \in Task, xTaskGenericNotify(t, x)
  PROVE  SchedInv' /\ Passes(k, k', 0)
<1>1. /\ t = k.cur /\ pc[t][1] \in {"run", "locked"} /\ k.where[x] # None
      /\ held' = held /\ pc' = pc /\ last' = last /\ ticks' = ticks
  BY DEF xTaskGenericNotify, InTask, At, CanNotify, Created
<1>2. PICK n \in Notified(x) :
        k' = IF k.state[x] = Waiting
             THEN YieldIfAbove(configASSERT(prvAddTaskToReadyList(RemoveState(n, x), x),
                                            prvAddTaskToReadyList(RemoveState(n, x), x).evt[x] = None), x)
             ELSE n
  BY DEF xTaskGenericNotify
<1>3. PICK v : n = [k EXCEPT !.state[x] = Received, !.value[x] = v]
  BY <1>2, NotifiedIs
<1>4. Marked(k, n, x, Received, v)
  BY <1>3, Zenon DEF Marked
<1>5. Received \in {NotWaiting, Received} /\ Received \in {NotWaiting, Waiting, Received} /\ Received # Waiting
  BY DEF Received, Waiting
<1>6. CASE k.state[x] # Waiting
  <2>1. k' = n
    BY <1>2, <1>6
  <2>2. QED BY <1>1, <1>4, <1>5, <1>6, <2>1, Marks
<1>7. CASE k.state[x] = Waiting
  <2>1. held \ {x} = held /\ k.evt[x] = None
    BY <1>7, WaitersAreFree
  <2>2. /\ Data(n) /\ Remarked(k, n, n.state)
        /\ n.state[x] = Received /\ \A u \in Task \ {x} : n.state[u] = k.state[u]
    BY <1>4, <1>5, MarkDoes DEF SchedInv
  <2>3. /\ n.where = k.where /\ n.evt = k.evt /\ n.prio = k.prio /\ n.cur = k.cur
        /\ n.started = k.started /\ n.tick = k.tick /\ n.susp = k.susp /\ n.pended = k.pended
        /\ n.yield = k.yield /\ n.fault = k.fault /\ n.preempt = k.preempt
        /\ n.overflows = k.overflows
    BY <2>2 DEF Remarked
  <2>4. PICK z : z = prvAddTaskToReadyList(RemoveState(n, x), x)
    OBVIOUS
  <2>5. n.where[x] # None
    BY <1>1, <2>3
  <2>6. /\ Data(z) /\ SameRest(n, z) /\ z.yield = n.yield /\ z.evt = n.evt
        /\ z.where = [n.where EXCEPT ![x] = Ready(n.prio[x])]
    BY <2>2, <2>4, <2>5, ReadyData
  <2>7. /\ z.prio = k.prio /\ z.cur = k.cur /\ z.started = k.started /\ z.state = n.state
        /\ z.susp = k.susp /\ z.fault = k.fault /\ z.preempt = k.preempt
        /\ z.tick = k.tick /\ z.pended = k.pended /\ z.overflows = k.overflows
    BY <2>3, <2>6 DEF SameRest
  <2>8. DOMAIN n.where = Task
    BY <2>2 DEF Data, Shape
  <2>9. z.where[x] = Ready(k.prio[x]) /\ \A u \in Task \ {x} : z.where[u] = k.where[u]
    BY <2>3, <2>6, <2>8
  <2>10. pc[x][1] \notin {"block_take", "block_wait"}
    BY <1>1 DEF SchedInv, PlacesInv, Locking
  <2>11. /\ \A u \in Task \ {x} : z.where[u] = k.where[u] /\ z.evt[u] = k.evt[u] /\ z.state[u] = k.state[u]
         /\ z.state[x] # Waiting /\ z.evt[x] = None
    BY <1>5, <2>1, <2>2, <2>3, <2>6, <2>7, <2>9
  <2>12. /\ Between(z, held \ {x})
         /\ (z.yield = 0 => k.yield = 0 /\ (z.where[x] # k.where[x] => ~(k.prio[x] > k.prio[k.cur])))
            => Lowest(z)
    BY <2>6, <2>7, <2>9, <2>10, <2>11, WokenIs
  <2>13. configASSERT(z, z.evt[x] = None) = z
    BY <2>1, <2>11 DEF configASSERT
  <2>14. k' = YieldIfAbove(z, x)
    BY <1>2, <1>7, <2>4, <2>13
  <2>15. k' = vTaskSwitchContext(z) \/ (k' = z /\ ~(k.prio[x] > k.prio[k.cur]))
    <3>1. k.preempt = 1 /\ k.prio[x] \in Int /\ k.prio[k.cur] \in Int
      BY Locked, TasksAssumption DEF SchedInv, Data, Shape, Priorities
    <3>2. QED BY <2>7, <2>14, <3>1 DEF YieldIfAbove, YieldIfPreempting
  <2>16. k' = vTaskSwitchContext(z) \/ (k' = z /\ Lowest(z))
    BY <2>3, <2>6, <2>12, <2>15
  <2>17. Between(z, held)
    BY <2>1, <2>12
  <2>18. DOMAIN pc' = Task /\ \A u \in Task : GoesOn(pc[u], pc'[u])
    BY <1>1, AllStay
  <2>19. SchedInv' /\ Settled(z, k')
    BY <1>1, <2>7, <2>16, <2>17, <2>18, KernelTime, Settles
  <2>20. NoneJoins(k, k') /\ Data(k)
    BY <1>5, <2>2, <2>3, <2>6, <2>7, <2>19 DEF NoneJoins, Settled, SchedInv
  <2>21. QED BY <2>7, <2>19, <2>20, ClockStays DEF Settled
<1>8. QED BY <1>6, <1>7

\* vTaskPrioritySet: a ready task changes its list, and a switch follows when the
\* running task may no longer be the highest.
LEMMA StepPrioritySet ==
  ASSUME SchedInv, app' = app, NEW t \in Task, NEW x \in Task, NEW p \in Priorities, vTaskPrioritySet(t, x, p)
  PROVE  SchedInv' /\ Passes(k, k', 0)
<1>1. /\ t = k.cur /\ pc[t][1] \in {"run", "locked"} /\ x # Idle /\ p # k.prio[x]
      /\ held' = held /\ pc' = pc /\ last' = last /\ ticks' = ticks /\ k' = PrioritySet(x, p)
  BY DEF vTaskPrioritySet, InTask, At
<1>2. PICK s : s = [k EXCEPT !.prio[x] = p]
  OBVIOUS
<1>3. PICK z : z = IF k.where[x] = Ready(k.prio[x]) THEN prvAddTaskToReadyList(RemoveState(s, x), x) ELSE s
  OBVIOUS
<1>4. Reprio(k, s, x, p) /\ Data(k)
  BY <1>2, Zenon DEF Reprio, SchedInv
<1>5. /\ Data(z) /\ z.prio = [k.prio EXCEPT ![x] = p] /\ z.state = k.state /\ z.cur = k.cur
      /\ z.started = k.started /\ z.tick = k.tick /\ z.overflows = k.overflows /\ z.susp = k.susp
      /\ z.pended = k.pended
      /\ z.fault = k.fault /\ z.preempt = k.preempt /\ z.yield = k.yield /\ z.evt = k.evt
      /\ \A u \in Task \ {x} : z.where[u] = k.where[u]
      /\ z.where[x] = IF k.where[x] = Ready(k.prio[x]) THEN Ready(p) ELSE k.where[x]
  BY <1>3, <1>4, PrioData
<1>6. PICK yields \in BOOLEAN :
        yields = IF p > k.prio[x] THEN x # k.cur /\ p > k.prio[k.cur] ELSE x = k.cur
  OBVIOUS
<1>7. k' = IF yields THEN vTaskSwitchContext(z) ELSE z
  <2>1. k' = IF yields THEN YieldIfPreempting(z) ELSE z
    BY <1>1, <1>2, <1>3, <1>6 DEF PrioritySet
  <2>2. z.preempt = 1
    BY <1>5 DEF SchedInv
  <2>3. QED BY <2>1, <2>2 DEF YieldIfPreempting
<1>8. /\ z.prio[x] = p /\ \A u \in Task \ {x} : z.prio[u] = k.prio[u]
      /\ k.prio[x] \in Int /\ k.prio[t] \in Int /\ p \in Int
  BY <1>1, <1>4, <1>5, TasksAssumption DEF Data, Shape, Priorities
<1>9. Between(z, held)
  <2>1. /\ k.cur \in Task /\ Idle \in Task /\ k.fault = 0 /\ k.preempt = 1 /\ k.started = 1
        /\ \A q : Ready(q) # None /\ Ready(q) # Suspended
    BY Locked, ListNames DEF SchedInv
  <2>2. \A u \in Task : /\ z.where[u] = None <=> k.where[u] = None
                        /\ k.where[u] \in DelayedLists => z.where[u] = k.where[u]
                        /\ k.where[u] = Suspended => z.where[u] = Suspended
                        /\ k.where[u] = Ready(k.prio[u]) => z.where[u] = Ready(z.prio[u])
    <3>1. \A q : Ready(q) \notin DelayedLists
      BY ListNames DEF DelayedLists
    <3>2. QED BY <1>5, <1>8, <2>1, <3>1
  <2>3. Parked(z)
    BY <1>5, <2>2 DEF SchedInv, ItemsInv, Parked
  <2>4. z.where[z.cur] # None /\ z.where[Idle] = Ready(0) /\ z.prio[Idle] = 0 /\ z.state[Idle] # Waiting
    BY <1>1, <1>5, <1>8, <2>1, <2>2 DEF SchedInv, ItemsInv
  <2>5. \A u \in held : z.where[u] = Suspended /\ z.evt[u] = None /\ z.state[u] # Waiting
    BY <1>5, <2>2 DEF SchedInv, HeldInv, Users
  <2>6. z.where[k.cur] = Ready(z.prio[k.cur])
    BY <1>1, <2>1, <2>2 DEF SchedInv, RunsInv, Leaving
  <2>7. \A u \in Users \ held :
          pc[u][1] \in {"blocked", "handover", "collect"} /\ z.state[u] # Waiting =>
            z.where[u] = Ready(z.prio[u]) \/ z.evt[u] = Pending
    BY <1>5, <2>2 DEF SchedInv, NotesInv, Users
  <2>8. \A u \in Task :
          pc[u][1] \in {"block_take", "block_wait"} /\ z.state[u] # Waiting => z.evt[u] = Pending
    BY <1>5 DEF SchedInv, NotesInv
  <2>9. QED BY <1>5, <2>1, <2>3, <2>4, <2>5, <2>6, <2>7, <2>8 DEF Between
<1>10. ~yields => Lowest(z)
  <2>1. ASSUME ~yields, z.yield = 0, NEW u \in Task, z.where[u] = Ready(z.prio[u])
        PROVE  z.prio[u] <= z.prio[t]
    <3>1. \/ p > k.prio[x] /\ x = t
          \/ p > k.prio[x] /\ p <= k.prio[t]
          \/ p < k.prio[x] /\ x # t
      BY <1>1, <1>6, <1>8, <2>1
    <3>2. k.where[u] = Ready(k.prio[u]) => k.prio[u] <= k.prio[t]
      BY <1>1, <1>5, <2>1 DEF SchedInv, RunsInv, Yielding
    <3>3. k.prio[u] \in Int
      BY <1>4, TasksAssumption DEF Data, Shape, Priorities
    <3>4. CASE u # x
      BY <1>5, <1>8, <2>1, <3>1, <3>2, <3>3, <3>4
    <3>5. CASE u = x
      <4>1. CASE k.where[x] = Ready(k.prio[x])
        BY <1>1, <1>8, <3>1, <3>2, <3>5, <4>1
      <4>2. CASE k.where[x] # Ready(k.prio[x])
        <5>1. k.where[x] = Ready(p)
          BY <1>5, <1>8, <2>1, <3>5, <4>2
        <5>2. QED BY <1>4, <4>2, <5>1 DEF Data, Right
      <4>3. QED BY <4>1, <4>2
    <3>6. QED BY <3>4, <3>5
  <2>2. QED BY <1>1, <2>1 DEF Lowest
<1>11. k' = vTaskSwitchContext(z) \/ (k' = z /\ Lowest(z))
  BY <1>7, <1>10
<1>12. DOMAIN pc' = Task /\ \A u \in Task : GoesOn(pc[u], pc'[u])
  BY <1>1, AllStay
<1>13. SchedInv' /\ Settled(z, k')
  BY <1>1, <1>5, <1>9, <1>11, <1>12, KernelTime, Settles
<1>14. NoneJoins(k, k')
  BY <1>5, <1>13 DEF NoneJoins, Settled
<1>15. QED BY <1>4, <1>5, <1>13, <1>14, ClockStays DEF Settled

\* The tick interrupt while the scheduler is suspended: the tick is remembered.
LEMMA TickPended ==
  ASSUME SchedInv, app' = app, TickInterrupt, k.susp = 1
  PROVE  SchedInv' /\ Passes(k, k', 1)
<1>1. /\ k.pended < MaxPended /\ ticks' = (ticks + 1) % TickMod /\ pc' = pc /\ last' = last /\ held' = held
  BY DEF TickInterrupt
<1>2. PICK z : z = [k EXCEPT !.pended = @ + 1]
  OBVIOUS
<1>3. k' = z
  BY <1>2 DEF TickInterrupt, xTaskIncrementTick
<1>4. DOMAIN k = Fields /\ Data(k) /\ Shape(k)
  BY DEF SchedInv, Data, Shape
<1>5. /\ DOMAIN z = Fields /\ z.list = k.list /\ z.index = k.index /\ z.where = k.where /\ z.evt = k.evt
      /\ z.wake = k.wake /\ z.left = k.left /\ z.prio = k.prio /\ z.top = k.top /\ z.del = k.del
      /\ z.pended = k.pended + 1
  BY <1>2, <1>4 DEF Fields
<1>6. /\ z.tick = k.tick /\ z.overflows = k.overflows /\ z.unblock = k.unblock /\ z.state = k.state
      /\ z.cur = k.cur /\ z.susp = k.susp /\ z.fault = k.fault /\ z.yield = k.yield
      /\ z.started = k.started /\ z.preempt = k.preempt
  BY <1>2, <1>4 DEF Fields
<1>7. z.pended \in Nat /\ z.pended \in 0 .. MaxPended /\ MaxPended \in Nat
  BY <1>1, <1>5, KernelTime, KernelAssumption
<1>8. Data(z)
  <2>1. /\ z.state \in [Task -> {NotWaiting, Waiting, Received}] /\ z.cur \in Task /\ z.susp \in Nat
        /\ z.yield \in {0, 1} /\ z.fault \in {0, 1}
    BY <1>4, <1>6 DEF Shape
  <2>2. QED BY <1>4, <1>5, <1>6, <1>7, <2>1, DataSame
<1>9. Between(z, held)
  <2>1. k.fault = 0 /\ k.preempt = 1 /\ k.started = 1
    BY DEF SchedInv
  <2>2. /\ Parked(z)
        /\ z.where[z.cur] # None /\ z.where[Idle] = Ready(0) /\ z.prio[Idle] = 0 /\ z.state[Idle] # Waiting
    BY <1>5, <1>6 DEF SchedInv, ItemsInv, Parked
  <2>3. \A u \in held : z.where[u] = Suspended /\ z.evt[u] = None /\ z.state[u] # Waiting
    BY <1>5, <1>6 DEF SchedInv, HeldInv
  <2>4. pc[k.cur][1] \notin Leaving =>
          z.where[k.cur] = Ready(z.prio[k.cur])
    BY <1>5 DEF SchedInv, RunsInv
  <2>5. /\ \A u \in Users \ held :
             pc[u][1] \in {"blocked", "handover", "collect"} /\ z.state[u] # Waiting =>
               z.where[u] = Ready(z.prio[u]) \/ z.evt[u] = Pending
        /\ \A u \in Task :
             pc[u][1] \in {"block_take", "block_wait"} /\ z.state[u] # Waiting => z.evt[u] = Pending
    BY <1>5, <1>6 DEF SchedInv, NotesInv
  <2>6. QED BY <1>6, <1>8, <2>1, <2>2, <2>3, <2>4, <2>5 DEF Between
<1>10. Lowest(z)
  BY <1>5, <1>6 DEF SchedInv, RunsInv, Lowest
<1>11. ticks' = (z.tick + z.pended) % TickMod
  <2>1. k.tick \in Int /\ k.pended \in Int /\ TickMod \in Nat \ {0}
    BY <1>4, KernelTime, TasksAssumption DEF Shape, TickType
  <2>2. ticks = (k.tick + k.pended) % TickMod
    BY KernelTime
  <2>3. PICK a \in Int : a = k.tick + k.pended
    BY <2>1
  <2>4. ((a % TickMod) + 1) % TickMod = (a + 1) % TickMod
    BY <2>1, ModNext
  <2>5. a + 1 = z.tick + z.pended
    BY <1>5, <1>6, <2>1, <2>3
  <2>6. QED BY <1>1, <2>2, <2>3, <2>4, <2>5
<1>12. z.susp = 0 => z.pended = 0
  BY <1>6
<1>13. DOMAIN pc' = Task /\ \A u \in Task : GoesOn(pc[u], pc'[u])
  BY <1>1, AllStay
<1>14. SchedInv'
  BY <1>1, <1>3, <1>7, <1>9, <1>10, <1>11, <1>12, <1>13, Settles
<1>15. Passes(k, z, 1)
  <2>1. NoneJoins(k, z) /\ z.pended + 0 = k.pended + 1 /\ 0 \in Nat
    BY <1>4, <1>5, <1>6 DEF NoneJoins, Shape
  <2>2. Later(k, z, 0)
    BY <1>4, <1>6, LaterNow
  <2>3. QED BY <2>1, <2>2 DEF Passes
<1>16. QED BY <1>3, <1>14, <1>15

\* The tick interrupt: the tasks whose time has come are ready, and a switch
\* follows when one of them is above the running task.
LEMMA TickCounted ==
  ASSUME SchedInv, app' = app, TickInterrupt, k.susp = 0
  PROVE  SchedInv' /\ Passes(k, k', 1)
<1>1. /\ ticks' = (ticks + 1) % TickMod /\ pc' = pc /\ last' = last /\ held' = held
  BY DEF TickInterrupt
<1>2. PICK r : r = xTaskIncrementTick(k)
  OBVIOUS
<1>3. k' = IF r.switch THEN vTaskSwitchContext(r.k) ELSE r.k
  BY <1>2 DEF TickInterrupt
<1>4. Data(k) /\ k.preempt = 1 /\ k.fault = 0 /\ k.started = 1 /\ k.cur \in Task
  BY Locked DEF SchedInv
<1>5. PICK z : z = r.k
  OBVIOUS
<1>6. /\ Data(z) /\ SameTasks(k, z) /\ z.tick = (k.tick + 1) % TickMod
      /\ z.yield = k.yield /\ Moves(k, z) /\ OneLater(k, z) /\ r.switch \in BOOLEAN
      /\ k.preempt = 1 /\ ~r.switch => Quiet(k, z) /\ k.yield = 0
  BY <1>2, <1>4, <1>5, TickDoes
<1>7. /\ z.prio = k.prio /\ z.state = k.state /\ z.cur = k.cur /\ z.started = k.started /\ z.susp = 0
      /\ z.pended = 0 /\ z.fault = 0 /\ z.preempt = 1 /\ z.started = 1
  BY <1>4, <1>6, KernelTime DEF SameTasks
<1>8. \A u \in Task : /\ k.evt[u] # Pending /\ z.evt[u] \in {k.evt[u], None}
                      /\ \/ z.where[u] = k.where[u] /\ z.evt[u] = k.evt[u]
                         \/ k.where[u] \in DelayedLists /\ z.where[u] = Ready(k.prio[u]) /\ z.evt[u] = None
  <2>1. \A u \in Task : k.evt[u] # Pending
    BY DEF SchedInv, ItemsInv, Parked
  <2>2. QED BY <1>6, <2>1 DEF Moves
<1>9. \A u \in Task : /\ k.where[u] = Suspended => z.where[u] = Suspended
                      /\ k.where[u] = Ready(k.prio[u]) => z.where[u] = Ready(k.prio[u])
                      /\ k.where[u] # None => z.where[u] # None
  BY <1>8, ListNames
<1>10. Between(z, held)
  <2>1. Idle \in Task /\ k.where[Idle] = Ready(0) /\ k.prio[Idle] = 0 /\ k.state[Idle] # Waiting
    BY Locked DEF SchedInv, ItemsInv
  <2>2. Parked(z)
    <3>1. ASSUME NEW u \in Task
          PROVE  /\ z.evt[u] # None => z.where[u] # None /\ z.state[u] # Waiting
                 /\ z.evt[u] = Pending => z.susp = 1
                 /\ z.evt[u] \in EventLists => z.where[u] \in DelayedLists \cup {Suspended}
      <4>1. CASE z.where[u] = k.where[u] /\ z.evt[u] = k.evt[u]
        BY <1>7, <1>8, <4>1 DEF SchedInv, ItemsInv, Parked
      <4>2. CASE z.evt[u] = None
        BY <4>2, ListNames
      <4>3. QED BY <1>8, <4>1, <4>2
    <3>2. QED BY <3>1 DEF Parked
  <2>3. z.where[z.cur] # None /\ z.where[Idle] = Ready(0) /\ z.prio[Idle] = 0 /\ z.state[Idle] # Waiting
    BY <1>4, <1>7, <1>9, <2>1, KernelTime
  <2>4. \A u \in held : z.where[u] = Suspended /\ z.evt[u] = None /\ z.state[u] # Waiting
    BY <1>7, <1>8, <1>9, ListNames DEF SchedInv, HeldInv, Users
  <2>5. pc[k.cur][1] \notin Leaving =>
          z.where[k.cur] = Ready(z.prio[k.cur])
    BY <1>4, <1>7, <1>9 DEF SchedInv, RunsInv
  <2>6. \A u \in Users \ held :
          pc[u][1] \in {"blocked", "handover", "collect"} /\ z.state[u] # Waiting =>
            z.where[u] = Ready(z.prio[u]) \/ z.evt[u] = Pending
    <3>1. \A u \in Users \ held :
            pc[u][1] \in {"blocked", "handover", "collect"} /\ k.state[u] # Waiting =>
              k.where[u] = Ready(k.prio[u]) \/ k.evt[u] = Pending
      BY DEF SchedInv, NotesInv
    <3>2. \A u \in Users : u \in Task
      BY DEF Users
    <3>3. QED BY <1>7, <1>8, <1>9, <3>1, <3>2
  <2>7. \A u \in Task : pc[u][1] \notin {"block_take", "block_wait"}
    BY Locked DEF Locking
  <2>8. QED BY <1>6, <1>7, <2>2, <2>3, <2>4, <2>5, <2>6, <2>7 DEF Between
<1>11. ~r.switch => Lowest(z)
  <2>1. ASSUME ~r.switch, z.yield = 0, pc[k.cur][1] \notin Yielding,
               NEW u \in Task, z.where[u] = Ready(z.prio[u])
        PROVE  \/ z.prio[u] <= z.prio[k.cur]
               \/ pc[k.cur][1] = "created" /\ z.prio[u] <= pc[k.cur][2]
    <3>1. k.prio[u] \in Int /\ k.prio[k.cur] \in Int
      BY <1>4, TasksAssumption DEF Data, Shape, Priorities
    <3>2. CASE z.where[u] = k.where[u]
      BY <1>6, <1>7, <2>1, <3>2 DEF SchedInv, RunsInv
    <3>3. CASE z.where[u] # k.where[u]
      <4>1. ~(k.prio[u] > k.prio[k.cur])
        BY <1>4, <1>6, <2>1, <3>3 DEF Quiet
      <4>2. QED BY <1>7, <3>1, <4>1
    <3>4. QED BY <3>2, <3>3
  <2>2. QED BY <2>1 DEF Lowest
<1>12. k' = vTaskSwitchContext(z) \/ (k' = z /\ Lowest(z))
  BY <1>3, <1>5, <1>6, <1>11
<1>13. ticks' = (z.tick + z.pended) % TickMod /\ z.pended \in 0 .. MaxPended
  <2>1. k.tick \in Int /\ TickMod \in Nat \ {0} /\ MaxPended \in Nat /\ ticks = k.tick
    BY OpenTime, TasksAssumption
  <2>2. z.tick \in TickType
    BY <1>6 DEF Data, Shape
  <2>3. (z.tick + z.pended) % TickMod = z.tick
    BY <1>7, <2>1, <2>2 DEF TickType
  <2>4. QED BY <1>1, <1>6, <1>7, <2>1, <2>3
<1>14. DOMAIN pc' = Task /\ \A u \in Task : GoesOn(pc[u], pc'[u])
  BY <1>1, AllStay
<1>15. SchedInv' /\ Settled(z, k')
  BY <1>1, <1>7, <1>10, <1>12, <1>13, <1>14, Settles
<1>16. PICK y : y = k' OBVIOUS
<1>17. Passes(k, y, 1)
  <2>1. NoneJoins(k, y)
    BY <1>7, <1>8, <1>15, <1>16 DEF NoneJoins, Settled
  <2>2. k.pended = 0 /\ y.pended = 0 /\ y.pended + 1 = k.pended + 1 /\ 1 \in Nat
    BY <1>7, <1>15, <1>16, KernelTime DEF Settled
  <2>3. Shape(k)
    BY <1>4 DEF Data
  <2>4. Later(k, k, 0) /\ k.tick \in Int /\ k.overflows \in Int
    BY <2>3, LaterNow
  <2>5. OneLater(k, y)
    BY <1>6, <1>15, <1>16 DEF OneLater, Settled
  <2>6. PICK m \in Nat : m = 0
    OBVIOUS
  <2>7. Later(k, y, m + 1)
    BY <2>4, <2>5, <2>6, LaterOn
  <2>8. QED BY <2>1, <2>2, <2>6, <2>7 DEF Passes
<1>18. QED BY <1>15, <1>16, <1>17

\* The tick interrupt.
LEMMA StepTick ==
  ASSUME SchedInv, app' = app, TickInterrupt
  PROVE  SchedInv' /\ Passes(k, k', 1)
BY TickPended, TickCounted, Locked

\* The first critical section of vTaskSuspend: the task is out of every other list,
\* and the caller has still to look at the delayed list.
LEMMA StepSuspend ==
  ASSUME SchedInv, app' = app, NEW t \in Task, NEW x \in Task, vTaskSuspend(t, x)
  PROVE  SchedInv' /\ Passes(k, k', 0)
<1>1. /\ t = k.cur /\ pc[t][1] \in {"run", "locked"} /\ x # Idle /\ k.where[x] # None /\ k' = SuspendedTask(x)
      /\ (x = t => pc[t][1] = "run") /\ held' = held \cup {x} /\ last' = last /\ ticks' = ticks
  BY DEF vTaskSuspend, InTask, At, Created
<1>2. PICK w : w = vListInsertEnd(RemoveEvent(RemoveState(k, x), x), Suspended, x)
  OBVIOUS
<1>3. Data(k) /\ k.fault = 0 /\ k.preempt = 1 /\ k.started = 1 /\ app \in Apps
  BY DEF SchedInv
<1>4. /\ Data(w) /\ SameRest(k, w) /\ SameMarks(k, w)
      /\ w.where = [k.where EXCEPT ![x] = Suspended] /\ w.evt = [k.evt EXCEPT ![x] = None]
  BY <1>1, <1>2, <1>3, SuspendDoes
<1>5. PICK q : q = IF w.state[x] = Waiting THEN NotWaiting ELSE w.state[x]
  OBVIOUS
<1>6. PICK y : y = k' OBVIOUS
<1>7. Marked(w, y, x, q, 0)
  <2>1. y = [w EXCEPT !.state[x] = q]
    BY <1>1, <1>2, <1>5, <1>6 DEF SuspendedTask
  <2>2. QED BY <2>1, Zenon DEF Marked
<1>8. q \in {NotWaiting, Waiting, Received} /\ q # Waiting
  BY <1>4, <1>5 DEF Data, Shape, NotWaiting, Waiting
<1>9. /\ Data(y) /\ Remarked(w, y, y.state)
      /\ y.state[x] = q /\ \A u \in Task \ {x} : y.state[u] = w.state[u]
  BY <1>4, <1>7, <1>8, MarkDoes
<1>10. /\ y.prio = k.prio /\ y.cur = k.cur /\ y.started = k.started /\ w.state = k.state
       /\ y.susp = k.susp /\ y.fault = k.fault /\ y.preempt = k.preempt /\ y.yield = k.yield
       /\ y.tick = k.tick /\ y.pended = k.pended /\ y.where = w.where /\ y.evt = w.evt
       /\ y.overflows = k.overflows
  BY <1>4, <1>9 DEF SameRest, SameMarks, Remarked
<1>11. /\ y.where[x] = Suspended /\ y.evt[x] = None /\ y.state[x] # Waiting
       /\ \A u \in Task \ {x} : y.where[u] = k.where[u] /\ y.evt[u] = k.evt[u] /\ y.state[u] = k.state[u]
  <2>1. DOMAIN k.where = Task /\ DOMAIN k.evt = Task
    BY <1>3 DEF Data, Shape
  <2>2. QED BY <1>4, <1>8, <1>9, <1>10, <2>1
<1>12. /\ DOMAIN pc' = Task /\ (\A u \in Task \ {t} : pc'[u] = pc[u])
       /\ \/ x = t /\ pc'[t][1] = "suspend"
          \/ x # t /\ pc[t][1] = "run" /\ pc'[t][1] = "reset"
          \/ x # t /\ pc[t][1] = "locked" /\ pc'[t][1] = "resetlocked"
  <2>1. PICK p : p = IF x = t THEN "suspend" ELSE IF At(t, "run") THEN "reset" ELSE "resetlocked"
    OBVIOUS
  <2>2. Goto(t, p, 0)
    BY <2>1 DEF vTaskSuspend
  <2>3. DOMAIN pc' = Task /\ (\A u \in Task \ {t} : pc'[u] = pc[u]) /\ pc'[t][1] = p
    BY <2>2, GotoDoes
  <2>4. At(t, "run") <=> pc[t][1] = "run"
    BY <1>1, <1>3 DEF At
  <2>5. CASE x = t
    BY <2>1, <2>3, <2>5
  <2>6. CASE x # t /\ pc[t][1] = "run"
    BY <2>1, <2>3, <2>4, <2>6
  <2>7. CASE x # t /\ pc[t][1] = "locked"
    BY <2>1, <2>3, <2>4, <2>7
  <2>8. QED BY <1>1, <2>5, <2>6, <2>7
<1>13. /\ "run" \notin Locking /\ "locked" \in Locking /\ "suspend" \notin Locking
       /\ "reset" \notin Locking /\ "resetlocked" \in Locking /\ "block_take" \in Locking /\ "block_wait" \in Locking
  BY DEF Locking
<1>14. PlacesInv'
  <2>1. pc'[t][1] \in Locking <=> pc[t][1] \in Locking
    BY <1>1, <1>12, <1>13
  <2>2. ASSUME NEW u \in Task
        PROVE  /\ pc'[u][1] \in {"block_take", "block_wait"} => pc'[u][2] \in TickType \ {0}
               /\ pc'[u][1] = "created" => pc'[u][2] \in Priorities
    BY <1>12 DEF SchedInv, PlacesInv
  <2>3. \A u \in Task : pc'[u][1] \in Locking => u = k.cur
    BY <1>1, <1>12 DEF SchedInv, PlacesInv
  <2>4. k.susp = IF pc[t][1] \in Locking THEN 1 ELSE 0
    BY <1>1 DEF SchedInv, PlacesInv
  <2>5. QED BY <1>1, <1>6, <1>10, <1>12, <2>1, <2>2, <2>3, <2>4 DEF PlacesInv
<1>15. ItemsInv'
  <2>1. Suspended # None /\ None # Pending /\ Idle \in Task
    BY ListNames, Locked
  <2>2. ASSUME NEW u \in Task
        PROVE  /\ y.evt[u] # None => y.where[u] # None /\ y.state[u] # Waiting
               /\ y.evt[u] = Pending => y.susp = 1
               /\ y.evt[u] \in EventLists => y.where[u] \in DelayedLists \cup {Suspended}
    <3>1. CASE u = x
      BY <1>11, <3>1, ListNames
    <3>2. CASE u # x
      BY <1>10, <1>11, <3>2 DEF SchedInv, ItemsInv, Parked
    <3>3. QED BY <3>1, <3>2
  <2>3. y.where[y.cur] # None /\ y.where[Idle] = Ready(0) /\ y.prio[Idle] = 0 /\ y.state[Idle] # Waiting
    BY <1>1, <1>10, <1>11, <2>1 DEF SchedInv, ItemsInv
  <2>4. QED BY <1>6, <2>2, <2>3 DEF ItemsInv, Parked
<1>16. TimeInv'
  BY <1>1, <1>6, <1>10 DEF SchedInv, TimeInv
<1>17. t \notin held /\ held \subseteq Users /\ held \subseteq Task
  BY <1>1 DEF SchedInv, HeldInv, Users
<1>18. HeldInv'
  <2>1. x \in Users /\ (held \cup {x}) \subseteq Users
    BY <1>1, <1>17 DEF Users
  <2>2. t \in held \cup {x} => pc'[t][1] = "suspend"
    BY <1>12, <1>17
  <2>3. \A u \in held \cup {x} : y.where[u] = Suspended /\ y.evt[u] = None /\ y.state[u] # Waiting
    BY <1>11, <1>17 DEF SchedInv, HeldInv
  <2>4. QED BY <1>1, <1>6, <1>10, <2>1, <2>2, <2>3 DEF HeldInv
<1>19. RunsInv'
  <2>1. k.where[t] = Ready(k.prio[t])
    BY <1>1 DEF SchedInv, RunsInv, Leaving
  <2>2. x # t => y.where[t] = Ready(y.prio[t])
    BY <1>10, <1>11, <2>1
  <2>3. ASSUME y.yield = 0, x # t, NEW u \in Task, y.where[u] = Ready(y.prio[u])
        PROVE  y.prio[u] <= y.prio[t]
    <3>1. u # x
      BY <1>11, <2>3, ListNames
    <3>2. QED BY <1>1, <1>10, <1>11, <2>3, <3>1 DEF SchedInv, RunsInv, Yielding
  <2>4. QED BY <1>1, <1>6, <1>10, <1>12, <2>2, <2>3 DEF RunsInv, Leaving, Yielding
<1>20. NotesInv'
  <2>1. \A u \in Task : pc'[u][1] \notin {"block_take", "block_wait"}
    BY <1>1, <1>12, <1>13 DEF SchedInv, PlacesInv
  <2>2. ASSUME NEW u \in Users \ (held \cup {x}), pc'[u][1] \in {"blocked", "handover", "collect"},
               y.state[u] # Waiting
        PROVE  y.where[u] = Ready(y.prio[u]) \/ y.evt[u] = Pending
    <3>1. u \in Task /\ u # x /\ pc[u] = pc'[u]
      BY <1>12, <2>2 DEF Users
    <3>2. QED BY <1>10, <1>11, <2>2, <3>1 DEF SchedInv, NotesInv
  <2>3. QED BY <1>1, <1>6, <2>1, <2>2 DEF NotesInv
<1>21. Passes(k, k', 0)
  <2>1. NoneJoins(k, y)
    BY <1>10, <1>11 DEF NoneJoins
  <2>2. QED BY <1>3, <1>6, <1>10, <2>1, ClockStays
<1>22. QED BY <1>3, <1>6, <1>9, <1>10, <1>14, <1>15, <1>16, <1>18, <1>19, <1>20, <1>21 DEF SchedInv

\* Every call of tasks.c keeps the scheduler's invariant, lets no task join a list
\* of those that wait, and, except for xTaskCatchUpTicks, keeps the clock going.
LEMMA CallKeeps ==
  ASSUME SchedInv, app' = app, NEW t \in Users, Call(t)
  PROVE  /\ SchedInv' /\ NoneJoins(k, k')
         /\ "xTaskCatchUpTicks" \notin app.calls[t] => Passes(k, k', 0)
<1>1. t \in Task
  BY DEF Users
<1>2. CASE \/ taskYIELD(t) \/ SuspendAll(t) \/ ResumeAll(t) \/ SuspendEnds(t)
           \/ DelayResumes(t) \/ Yields(t) \/ xTaskCreate(t) \/ CreateGoesOn(t)
  <2>1. SchedInv' /\ Passes(k, k', 0)
    BY <1>1, <1>2, StepYield, StepSuspendAll, StepResumes, StepSuspendEnds, StepGivesWay, StepCreateGoesOn
  <2>2. QED BY <2>1 DEF Passes
<1>3. CASE \/ NotifyBlocks(t) \/ NotifyResumes(t) \/ NotifyHandsOver(t)
           \/ TakeCollects(t) \/ WaitCollects(t)
  <2>1. SchedInv' /\ Passes(k, k', 0)
    BY <1>1, <1>3, StepNotifyBlocks, StepResumes, StepGivesWay, StepCollects
  <2>2. QED BY <2>1 DEF Passes
<1>4. CASE \E n \in app.delays[t] : \/ vTaskDelay(t, n) \/ xTaskDelayUntil(t, n) \/ NotifyTake(t, n)
                                    \/ \E b \in BOOLEAN : NotifyWait(t, n, b)
  <2>1. SchedInv' /\ Passes(k, k', 0)
    BY <1>4, StepDelays, StepNotifyStarts
  <2>2. QED BY <2>1 DEF Passes
<1>5. CASE \E n \in app.delays[t] : xTaskCatchUpTicks(t, n)
  <2>1. SchedInv' /\ NoneJoins(k, k')
    BY <1>5, StepCatchUp
  <2>2. "xTaskCatchUpTicks" \in app.calls[t]
    BY <1>5 DEF xTaskCatchUpTicks
  <2>3. QED BY <2>1, <2>2
<1>6. CASE \E x \in Task : \/ vTaskSuspend(t, x) \/ vTaskResume(t, x) \/ xTaskGenericNotify(t, x)
                           \/ xTaskGenericNotifyStateClear(t, x) \/ ulTaskGenericNotifyValueClear(t, x)
                           \/ \E p \in Priorities : vTaskPrioritySet(t, x, p)
  <2>1. SchedInv' /\ Passes(k, k', 0)
    BY <1>1, <1>6, StepSuspend, StepResume, StepNotify, StepClears, StepPrioritySet
  <2>2. QED BY <2>1 DEF Passes
<1>7. QED BY <1>2, <1>3, <1>4, <1>5, <1>6 DEF Call

\* Every step of the scheduler keeps its invariant.
LEMMA SchedNext ==
  ASSUME SchedInv, [Next]_vars
  PROVE  SchedInv'
<1>1. CASE UNCHANGED vars
  BY <1>1 DEF vars, SchedInv, PlacesInv, ItemsInv, Parked, TimeInv, HeldInv, RunsInv, NotesInv
<1>2. CASE Next
  <2>1. app' = app
    BY <1>2 DEF Next
  <2>2. CASE Interrupt
    BY <2>1, <2>2, StepTick, StepResumeFromISR, StepIsrNotifies DEF Interrupt
  <2>3. CASE prvIdleTask
    BY <2>1, <2>3, StepYield, TasksAssumption
  <2>4. CASE \E t \in Users : Call(t)
    BY <2>1, <2>4, CallKeeps
  <2>5. QED BY <1>2, <2>2, <2>3, <2>4 DEF Next
<1>3. QED BY <1>1, <1>2
-----------------------------------------------------------------------------
(* What follows from the invariant *)

\* The scheduler's invariant holds in every state.
THEOREM SchedInvariant == Spec => []SchedInv
<1>1. Init => SchedInv
  BY SchedInit
<1>2. SchedInv /\ [Next]_vars => SchedInv'
  BY SchedNext
<1>3. QED BY <1>1, <1>2, PTL DEF Spec

\* A list that holds each of its members once has one place for each task whose
\* item names it, and none for the others.
LEMMA OnePlace ==
  ASSUME NEW s \in Seq(Task), \A i, j \in DOMAIN s : s[i] = s[j] => i = j, NEW t
  PROVE  Cardinality({i \in DOMAIN s : s[i] = t}) = IF \E i \in DOMAIN s : s[i] = t THEN 1 ELSE 0
<1>1. CASE \E i \in DOMAIN s : s[i] = t
  <2>1. PICK i \in DOMAIN s : s[i] = t
    BY <1>1
  <2>2. {j \in DOMAIN s : s[j] = t} = {i}
    BY <2>1
  <2>3. QED BY <1>1, <2>2, FS_Singleton
<1>2. CASE ~\E i \in DOMAIN s : s[i] = t
  <2>1. {j \in DOMAIN s : s[j] = t} = {}
    BY <1>2
  <2>2. QED BY <1>2, <2>1, FS_EmptySet
<1>3. QED BY <1>1, <1>2

\* The lists of list.c agree with the items of the tasks.
LEMMA ListsDoAgree ==
  ASSUME SchedInv
  PROVE  ListsAgree
<1>1. ASSUME NEW l \in Lists
      PROVE  /\ \A t \in Task : Cardinality({i \in DOMAIN k.list[l] : k.list[l][i] = t})
                                  = IF l \in {k.where[t], k.evt[t]} THEN 1 ELSE 0
             /\ k.index[l] \in 0 .. Len(k.list[l])
  <2>1. k.list[l] \in Seq(Task) /\ k.index[l] \in Nat /\ Shape(k) /\ Agree(k)
    BY DEF SchedInv, Data, Shape
  <2>2. /\ k.index[l] <= Len(k.list[l])
        /\ \A i, j \in DOMAIN k.list[l] : k.list[l][i] = k.list[l][j] => i = j
        /\ \A t \in Task : (\E i \in DOMAIN k.list[l] : k.list[l][i] = t) <=> Holds(k, l, t)
    BY <2>1 DEF Agree
  <2>3. ASSUME NEW t \in Task
        PROVE  Holds(k, l, t) <=> l \in {k.where[t], k.evt[t]}
    <3>1. k.where[t] \in StateLists \cup {None} /\ k.evt[t] \in EventLists \cup {Pending, None}
      BY <2>1 DEF Shape
    <3>2. CASE l \in StateLists
      BY <3>1, <3>2, ListNames DEF Holds
    <3>3. CASE l \notin StateLists
      BY <3>1, <3>3, ListNames DEF Holds
    <3>4. QED BY <3>2, <3>3
  <2>4. ASSUME NEW t \in Task
        PROVE  Cardinality({i \in DOMAIN k.list[l] : k.list[l][i] = t})
                 = IF l \in {k.where[t], k.evt[t]} THEN 1 ELSE 0
    <3>1. Cardinality({i \in DOMAIN k.list[l] : k.list[l][i] = t})
            = IF \E i \in DOMAIN k.list[l] : k.list[l][i] = t THEN 1 ELSE 0
      BY <2>1, <2>2, OnePlace
    <3>2. QED BY <2>2, <2>3, <3>1
  <2>5. k.index[l] \in 0 .. Len(k.list[l])
    BY <2>1, <2>2
  <2>6. QED BY <2>4, <2>5
<1>2. QED BY <1>1 DEF ListsAgree

\* The scheduler's data are sound for every application, set of tasks and
\* priorities: every list agrees with the items of the tasks, the search for the
\* task to run starts high enough, and no configASSERT of tasks.c fails.
THEOREM DataSound == Spec => []SchedulerIsSound
<1>1. SchedInv => SchedulerIsSound
  <2>1. SUFFICES ASSUME SchedInv PROVE SchedulerIsSound
    OBVIOUS
  <2>2. TypeOK
    <3>1. /\ k.cur \in Task /\ k.prio \in [Task -> Priorities]
          /\ k.tick \in TickType /\ k.unblock \in TickType /\ k.overflows \in 0 .. OverflowMod - 1
          /\ k.where \in [Task -> StateLists \cup {None}]
          /\ k.evt \in [Task -> EventLists \cup {Pending, None}]
          /\ k.yield \in {0, 1} /\ k.state \in [Task -> {NotWaiting, Waiting, Received}]
      BY <2>1 DEF SchedInv, Data, Shape
    <3>2. k.susp \in 0 .. 1
      BY <2>1, Locked
    <3>3. k.pended \in 0 .. MaxPended /\ last \in [Task -> TickType] /\ held \subseteq Users
      BY <2>1 DEF SchedInv, TimeInv, HeldInv
    <3>4. QED BY <3>1, <3>2, <3>3 DEF TypeOK
  <2>3. ListsAgree
    BY <2>1, ListsDoAgree
  <2>4. TopIsHighest
    <3>1. ASSUME NEW p \in Priorities, k.list[Ready(p)] # <<>>
          PROVE  p <= k.top
      <4>1. Ready(p) \in Lists /\ Ready(p) \in StateLists
        BY ListNames
      <4>2. k.list[Ready(p)] \in Seq(Task)
        BY <2>1, <4>1 DEF SchedInv, Data, Shape
      <4>3. 1 \in DOMAIN k.list[Ready(p)] /\ k.list[Ready(p)][1] \in Task
        BY <3>1, <4>2
      <4>4. PICK t \in Task : t = k.list[Ready(p)][1]
        BY <4>3
      <4>5. Holds(k, Ready(p), t)
        BY <2>1, <4>1, <4>3, <4>4 DEF SchedInv, Data, Agree
      <4>6. k.where[t] = Ready(p)
        BY <4>1, <4>5 DEF Holds
      <4>7. QED BY <2>1, <4>6 DEF SchedInv, Data, Right
    <3>2. QED BY <3>1 DEF TopIsHighest
  <2>5. NoAssertFails
    BY <2>1 DEF SchedInv, NoAssertFails
  <2>6. QED BY <2>2, <2>3, <2>4, <2>5 DEF SchedulerIsSound
<1>2. QED BY <1>1, SchedInvariant, PTL

\* A task in its own code, with no switch pending, is ready and no ready task is above it.
THEOREM HighestRuns == Spec => []HighestReadyRuns
<1>1. SchedInv => HighestReadyRuns
  BY DEF SchedInv, RunsInv, HighestReadyRuns, Leaving, Yielding
<1>2. QED BY <1>1, SchedInvariant, PTL

\* A delayed task is woken by the tick it asked for, across the wrap of the tick count.
THEOREM DelaysAreExact == Spec => []WakesOnTime
<1>1. SchedInv => WakesOnTime
  <2>1. SUFFICES ASSUME SchedInv, NEW t \in Task, NEW away, away = (k.wake[t] - k.tick) % TickMod
                 PROVE  /\ k.where[t] = Delayed(k.del) =>
                             k.wake[t] > k.tick /\ k.left[t] = away /\ k.unblock <= k.wake[t]
                        /\ k.where[t] = Delayed(1 - k.del) => k.wake[t] <= k.tick /\ k.left[t] = away
    BY DEF WakesOnTime
  <2>2. k.wake[t] \in TickType /\ k.tick \in TickType /\ TickMod \in Nat \ {0}
    BY <2>1, TasksAssumption DEF SchedInv, Data, Shape
  <2>3. ASSUME k.where[t] = Delayed(k.del)
        PROVE  k.wake[t] > k.tick /\ k.left[t] = away /\ k.unblock <= k.wake[t]
    <3>1. k.wake[t] > k.tick /\ k.unblock <= k.wake[t] /\ k.left[t] = k.wake[t] - k.tick
      BY <2>1, <2>3 DEF SchedInv, Data, Early, Left
    <3>2. (k.wake[t] - k.tick) % TickMod = k.wake[t] - k.tick
      BY <2>2, <3>1 DEF TickType
    <3>3. QED BY <2>1, <3>1, <3>2
  <2>4. ASSUME k.where[t] = Delayed(1 - k.del)
        PROVE  k.wake[t] <= k.tick /\ k.left[t] = away
    <3>1. k.wake[t] < k.tick /\ k.left[t] = k.wake[t] - k.tick + TickMod
      BY <2>1, <2>4 DEF SchedInv, Data, Left
    <3>2. k.left[t] \in 0 .. TickMod - 1 /\ k.wake[t] - k.tick \in Int
      BY <2>2, <3>1 DEF TickType
    <3>3. PICK d \in Int, r \in 0 .. TickMod - 1 :
            r = (k.wake[t] - k.tick) % TickMod /\ k.wake[t] - k.tick = TickMod * d + r
      BY <2>2, <3>2, Turns
    <3>4. r = TickMod * (-1 - d) + k.left[t] /\ -1 - d \in Int
      BY <2>2, <3>1, <3>2, <3>3 DEF TickType
    <3>5. r = k.left[t]
      BY <2>2, <3>2, <3>3, <3>4, OneRest
    <3>6. QED BY <2>1, <2>2, <3>1, <3>3, <3>5 DEF TickType
  <2>5. QED BY <2>3, <2>4
<1>2. QED BY <1>1, SchedInvariant, PTL

\* Every tick interrupt is counted, at once or by xTaskResumeAll.
THEOREM TicksAreKept == Spec => []NoTickIsLost
<1>1. SchedInv => NoTickIsLost
  BY DEF SchedInv, TimeInv, NoTickIsLost
<1>2. QED BY <1>1, SchedInvariant, PTL

\* A notified task is on its way to the ready list, whether the notification came
\* before it blocked, while the scheduler was suspended or after.
THEOREM NotificationsArrive == Spec => []NoNotificationIsLost
<1>1. SchedInv => NoNotificationIsLost
  <2>1. Received # Waiting
    BY DEF Received, Waiting
  <2>2. QED BY <2>1 DEF SchedInv, NotesInv, NoNotificationIsLost
<1>2. QED BY <1>1, SchedInvariant, PTL

\* A task vTaskSuspend stopped stays in xSuspendedTaskList, and can be resumed.
THEOREM SuspendedStays == Spec => []SuspendedStaysOut
<1>1. SchedInv => SuspendedStaysOut
  BY DEF SchedInv, HeldInv, SuspendedStaysOut, prvTaskIsTaskSuspended
<1>2. QED BY <1>1, SchedInvariant, PTL
=============================================================================
