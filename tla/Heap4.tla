------------------------------- MODULE Heap4 --------------------------------
(* The allocator of the kernel (MemMang/heap_4.c): blocks that fill ucHeap    *)
(* from end to end, each with a header; the free ones are linked in the order *)
(* of their addresses and merged with their neighbours.                       *)
EXTENDS Integers, FiniteSets, FiniteSetsExt, Functions

CONSTANTS
  Client,     \* the tasks that allocate
  Requests,   \* the sizes they ask pvPortMalloc for
  Arrays,     \* the <<xNum, xSize>> they ask pvPortCalloc for
  HeapSize,   \* configTOTAL_HEAP_SIZE
  Bases,      \* where the linker can put ucHeap, an array of bytes
  Align,      \* portBYTE_ALIGNMENT
  LinkSize,   \* sizeof(BlockLink_t)
  SizeMod     \* 2^32, one more than the largest size_t

ASSUME HeapAssumption ==
  /\ Align \in Nat \ {0} /\ LinkSize \in Nat \ {0} /\ Bases \subseteq Nat
  /\ HeapSize \in Nat /\ SizeMod \in Nat /\ 2 * HeapSize < SizeMod /\ SizeMod % (2 * Align) = 0
  /\ Requests \subseteq 0 .. SizeMod - 1
  /\ Arrays \subseteq (0 .. SizeMod - 1) \X (0 .. SizeMod - 1)

VARIABLES
  ucHeap,  \* the address of the heap (never changes)
  heap,    \* link: xStart and the headers in ucHeap; pxEnd; free and min:
           \* xFreeBytesRemaining and xMinimumEverFreeBytesRemaining; live: the
           \* successful allocations less the successful frees
  holds,   \* what each task holds: the pointers it got, with the sizes asked for
  doing,   \* what each task is in the middle of
  halted   \* "no", or why prvHalt stopped the hart
heapVars == <<ucHeap, heap, holds, doing, halted>>

Null == -2
xStart == -1  \* the address of a header that is not in ucHeap
InHeap(a) == a \in ucHeap .. ucHeap + HeapSize - 1
Header(next, size, alloc) == [next |-> next, size |-> size, alloc |-> alloc]
Written(link, a, header) == [x \in DOMAIN link \cup {a} |-> IF x = a THEN header ELSE link[x]]
-----------------------------------------------------------------------------
xHeapStructSize == ((LinkSize + Align - 1) \div Align) * Align

(* The heap has room for a block and the end marker, wherever it is linked    *)
(* (configTOTAL_HEAP_SIZE is 10 KB).                                          *)
ASSUME HeapIsLarge == 2 * (xHeapStructSize + Align) <= HeapSize

(* prvHeapInit: one free block from the first aligned address to the end      *)
(* marker.                                                                    *)
uxStartAddress == ((ucHeap + Align - 1) \div Align) * Align
uxEndAddress == ((ucHeap + HeapSize - xHeapStructSize) \div Align) * Align
prvHeapInit(h) ==
  LET size == uxEndAddress - uxStartAddress
      link == [a \in {xStart, uxStartAddress, uxEndAddress} |->
                 IF a = xStart THEN Header(uxStartAddress, 0, 0)
                 ELSE IF a = uxStartAddress THEN Header(uxEndAddress, size, 0) ELSE Header(Null, 0, 0)]
  IN [h EXCEPT !.link = link, !.pxEnd = uxEndAddress, !.free = size, !.min = size]

\* Slip: the size is rounded up without a look at the overflow.
RoundsOver(n) == IF n = 0 THEN 0
                 ELSE (((n + xHeapStructSize + Align - 1) \div Align) * Align) % SizeMod

(* The size of the block for a request of n bytes: 0 when n is 0 and where    *)
(* the sum does not fit in a size_t.                                          *)
WantedSize(n) ==
  LET w == ((n + xHeapStructSize + Align - 1) \div Align) * Align
  IN IF n = 0 \/ w >= SizeMod THEN 0 ELSE w

(* The headers of the free list: xStart and the free blocks. *)
Linked(h) == {a \in DOMAIN h.link : h.link[a].next # Null}

(* First fit: the header in front of the block found, or of the end marker. *)
pxPreviousBlock(h, wanted) ==
  LET walk[a \in Linked(h)] ==
        LET b == h.link[a].next
        IN IF h.link[b].size < wanted /\ h.link[b].next # Null THEN walk[b] ELSE a
  IN walk[xStart]

(* The headers after the block behind prev was taken out of the free list,    *)
(* split if more than two headers' worth of it is left, and marked.           *)
TakeOut(h, prev, wanted) ==
  LET b == h.link[prev].next
      rest == h.link[b].size - wanted
  IN IF rest > 2 * xHeapStructSize
     THEN [Written(h.link, b + wanted, Header(h.link[b].next, rest, 0)) EXCEPT
             ![prev].next = b + wanted, ![b] = Header(Null, wanted, 1)]
     ELSE [h.link EXCEPT ![prev].next = h.link[b].next, ![b].next = Null, ![b].alloc = 1]

(* What pvPortMalloc does to the heap, the pointer it returns, and whether    *)
(* its assertions hold.                                                       *)
pvPortMalloc(n) ==
  LET h == IF heap.pxEnd = Null THEN prvHeapInit(heap) ELSE heap
      wanted == WantedSize(n)
      prev == pxPreviousBlock(h, wanted)
      b == h.link[prev].next
      link == TakeOut(h, prev, wanted)
      free == h.free - link[b].size
  IN IF wanted >= SizeMod \div 2 \/ wanted = 0 \/ wanted > h.free \/ b = h.pxEnd
     THEN [h |-> h, pv |-> Null, sound |-> TRUE]
     ELSE [h |-> [h EXCEPT !.link = link, !.free = free, !.live = @ + 1,
                           !.min = IF free < @ THEN free ELSE @],
           pv |-> b + xHeapStructSize,
           sound |-> /\ InHeap(b) /\ InHeap(b + xHeapStructSize) /\ h.link[b].size >= wanted
                     /\ (b + wanted) % Align = 0 /\ (b + xHeapStructSize) % Align = 0]

(* The last header of the free list in front of an address. *)
pxIterator(h, b) ==
  LET walk[a \in Linked(h)] == IF h.link[a].next < b THEN walk[h.link[a].next] ELSE a
  IN walk[xStart]

\* Slip: the block is not merged with the one behind it.
NoMergeBehind(h, b) ==
  LET it == pxIterator(h, b)
      joins == it # xStart /\ it + h.link[it].size = b
      size == h.link[b].size + (IF joins THEN h.link[it].size ELSE 0)
  IN IF joins THEN [Restrict(h.link, DOMAIN h.link \ {b}) EXCEPT ![it] = Header(h.link[it].next, size, 0)]
     ELSE [h.link EXCEPT ![it].next = b, ![b] = Header(h.link[it].next, size, 0)]

(* The headers after b was linked behind the last free block below it, it,    *)
(* and merged with it and with the next one where they touch.                 *)
prvInsertBlockIntoFreeList(h, b) ==
  LET it == pxIterator(h, b)
      next == h.link[it].next
      front == it + h.link[it].size = b
      behind == b + h.link[b].size = next /\ next # h.pxEnd
      at == IF front THEN it ELSE b
      size == h.link[b].size + (IF front THEN h.link[it].size ELSE 0)
                             + (IF behind THEN h.link[next].size ELSE 0)
      gone == (IF front THEN {b} ELSE {}) \cup (IF behind THEN {next} ELSE {})
      merged == [Restrict(h.link, DOMAIN h.link \ gone) EXCEPT
                   ![at] = Header(IF behind THEN h.link[next].next ELSE next, size, 0)]
  IN IF front THEN merged ELSE [merged EXCEPT ![it].next = b]

(* What vPortFree does to the heap with the scheduler suspended. *)
FreeBlock(b) ==
  [heap EXCEPT !.link = prvInsertBlockIntoFreeList(heap, b),
               !.free = @ + heap.link[b].size, !.live = @ - 1]

(* The walk of vPortGetHeapStats: number, largest and smallest of the free    *)
(* blocks (portMAX_DELAY is the largest number).                              *)
vPortGetHeapStats(h) ==
  LET walk[a \in Linked(h) \cup {h.pxEnd}] ==
        IF a = h.pxEnd THEN [n |-> 0, max |-> 0, min |-> SizeMod - 1]
        ELSE LET r == walk[h.link[a].next]
                 s == h.link[a].size
             IN [n |-> r.n + 1, max |-> IF s > r.max THEN s ELSE r.max,
                 min |-> IF s < r.min THEN s ELSE r.min]
  IN walk[h.link[xStart].next]
-----------------------------------------------------------------------------
NoCall == [op |-> "none", at |-> Null, size |-> 0]
MayCall(t) == doing[t] = NoCall /\ halted = "no"
Empty == [link |-> <<>>, pxEnd |-> Null, free |-> 0, min |-> 0, live |-> 0]

HeapInit ==
  /\ ucHeap \in Bases
  /\ heap = Empty
  /\ holds = [t \in Client |-> {}] /\ doing = [t \in Client |-> NoCall] /\ halted = "no"

(* The task gets its pointer, or goes on to vApplicationMallocFailedHook. *)
Gets(t, n) ==
  \E r \in {pvPortMalloc(n)} :
    /\ heap' = r.h
    /\ halted' = IF r.sound THEN "no" ELSE "!ASSERT"
    /\ IF r.pv = Null
       THEN doing' = [doing EXCEPT ![t] = [op |-> "failed", at |-> Null, size |-> n]] /\ UNCHANGED holds
       ELSE holds' = [holds EXCEPT ![t] = @ \cup {[at |-> r.pv, size |-> n]}] /\ UNCHANGED doing
    /\ UNCHANGED ucHeap

Malloc(t) == MayCall(t) /\ \E n \in Requests : Gets(t, n)

(* pvPortCalloc: an array too large for a size_t is refused without a word. *)
Calloc(t) ==
  /\ MayCall(t)
  /\ \E a \in Arrays :
       IF a[1] > 0 /\ a[2] > (SizeMod - 1) \div a[1] THEN UNCHANGED heapVars ELSE Gets(t, a[1] * a[2])

(* vPortFree asserts and clears the bit with the scheduler running... *)
FreeMarks(t) ==
  /\ MayCall(t)
  /\ \E r \in holds[t] :
       LET b == r.at - xHeapStructSize
       IN /\ holds' = [holds EXCEPT ![t] = @ \ {r}]
          /\ IF ~InHeap(b) \/ b \notin DOMAIN heap.link \/ heap.link[b].alloc = 0 \/ heap.link[b].next # Null
             THEN halted' = "!ASSERT" /\ UNCHANGED <<heap, doing>>
             ELSE /\ heap' = [heap EXCEPT !.link[b].alloc = 0]
                  /\ doing' = [doing EXCEPT ![t] = [op |-> "free", at |-> b, size |-> r.size]]
                  /\ UNCHANGED halted
  /\ UNCHANGED ucHeap

(* ...and puts the block back with the scheduler suspended. *)
FreeInserts(t) ==
  /\ doing[t].op = "free" /\ halted = "no"
  /\ heap' = FreeBlock(doing[t].at)
  /\ doing' = [doing EXCEPT ![t] = NoCall]
  /\ UNCHANGED <<ucHeap, holds, halted>>

(* vApplicationMallocFailedHook: the other tasks run while the marker is      *)
(* printed, until the interrupts are off.                                     *)
vApplicationMallocFailedHook(t) ==
  /\ doing[t].op = "failed" /\ halted = "no"
  /\ halted' = "!HEAP"
  /\ UNCHANGED <<ucHeap, heap, holds, doing>>

(* vPortHeapResetState, between one run of the scheduler and the next: the    *)
(* tasks are gone and what they held with them.  The headers stay in memory,  *)
(* but with pxEnd cleared the next pvPortMalloc sets all of them again.       *)
vPortHeapResetState ==
  /\ \A t \in Client : MayCall(t)
  /\ heap' = Empty
  /\ holds' = [t \in Client |-> {}]
  /\ UNCHANGED <<ucHeap, doing, halted>>

HeapNext ==
  \/ vPortHeapResetState
  \/ \E t \in Client : Malloc(t) \/ Calloc(t) \/ FreeMarks(t) \/ FreeInserts(t)
                       \/ vApplicationMallocFailedHook(t)
HeapSpec == HeapInit /\ [][HeapNext]_heapVars
-----------------------------------------------------------------------------
Up == heap.pxEnd # Null
Blocks == DOMAIN heap.link \ {xStart, heap.pxEnd}
FreeBlocks == {b \in Blocks : heap.link[b].alloc = 0 /\ \A t \in Client : doing[t].at # b}
End(b) == b + heap.link[b].size

TypeOK ==
  /\ ucHeap \in Bases
  /\ \A a \in DOMAIN heap.link : heap.link[a] \in [next : {Null} \cup Nat, size : Nat, alloc : {0, 1}]
  /\ heap.pxEnd \in {Null} \cup Nat /\ heap.free \in Nat /\ heap.min \in Nat /\ heap.live \in Nat
  /\ \A t \in Client : /\ doing[t].op \in {"none", "free", "failed"}
                       /\ \A r \in holds[t] : r \in [at : Nat, size : Nat]
  /\ halted \in {"no", "!ASSERT", "!HEAP"}

(* The blocks fill the heap: each one starts where another ends, from the     *)
(* first aligned byte to the end marker, however they are split and merged.   *)
BlocksTile ==
  Up => /\ \A b \in Blocks : heap.link[b].size >= xHeapStructSize
        /\ {End(b) : b \in Blocks} \cup {uxStartAddress} = Blocks \cup {heap.pxEnd}

(* The free list holds every free block once, in the order of the addresses,  *)
(* and no two of them touch; a block whose bit vPortFree has cleared and that *)
(* it has not linked yet is not taken for a free one.                         *)
FreeListIsOrdered ==
  Up => /\ {heap.link[b].next : b \in FreeBlocks \cup {xStart}} = FreeBlocks \cup {heap.pxEnd}
        /\ \A b \in FreeBlocks : heap.link[b].next > End(b) \/ heap.link[b].next = heap.pxEnd

(* xFreeBytesRemaining is the number of bytes in free blocks, which           *)
(* pvPortMalloc relies on before it searches; the minimum is never above it;  *)
(* the counters of calls differ by the blocks in use.                         *)
FreeBytesAreExact ==
  Up => /\ heap.free = Cardinality(UNION {b .. End(b) - 1 : b \in FreeBlocks})
        /\ heap.min <= heap.free
        /\ heap.live = Cardinality(Blocks \ FreeBlocks)

(* When nothing is in use the heap is one block again: nothing stays          *)
(* fragmented or leaks.                                                       *)
AllFreeIsWhole ==
  Up /\ (\A t \in Client : holds[t] = {} /\ doing[t].op # "free") =>
    /\ Blocks = {uxStartAddress}
    /\ heap.free = uxEndAddress - uxStartAddress

(* What vPortGetHeapStats reports is what the headers say. *)
StatsAreTrue ==
  Up => LET s == vPortGetHeapStats(heap)
            sizes == {heap.link[b].size : b \in FreeBlocks}
        IN /\ s.n = Cardinality(FreeBlocks)
           /\ s.max = (IF sizes = {} THEN 0 ELSE Max(sizes))
           /\ s.min = (IF sizes = {} THEN SizeMod - 1 ELSE Min(sizes))

(* As long as tasks free only what they hold, no assertion of heap_4.c fails, *)
(* whatever another task does between the two halves of vPortFree.            *)
NoAssertionFails == halted # "!ASSERT"

(* The heap of heap_4.c is sound after any order of splits, merges and frees   *)
(* by several tasks: its blocks, its free list, its counters and statistics.   *)
HeapIsSound ==
  /\ TypeOK /\ BlocksTile /\ FreeListIsOrdered /\ FreeBytesAreExact
  /\ AllFreeIsWhole /\ StatsAreTrue /\ NoAssertionFails

(* A request fails, and with it the system, only if no free block holds it. *)
FailsOnlyWhenFull ==
  [][\A t \in Client : doing'[t].op = "failed" /\ doing[t].op # "failed" =>
       \/ doing'[t].size = 0
       \/ \A b \in FreeBlocks' : heap'.link[b].size < doing'[t].size + xHeapStructSize]_heapVars

(* Tasks get disjoint, aligned ranges of ucHeap, as large as they asked for. *)
Served == INSTANCE Arena WITH Sizes <- Requests \cup {a[1] * a[2] : a \in Arrays}
ServesRanges == Served!Spec

(* What pvPortMalloc and vPortFree promise their callers: ranges of their own, *)
(* and no failure while a free block would do.                                 *)
ServesClients == ServesRanges /\ FailsOnlyWhenFull
-----------------------------------------------------------------------------
(* The inductive invariant *)

Within(h) == DOMAIN h.link \ {xStart, h.pxEnd}
Listed(h) == Linked(h) \ {xStart}
Behind(h, b) == b + h.link[b].size
Bytes(h, B) == UNION {b .. Behind(h, b) - 1 : b \in B}

(* The headers: every block has its own aligned bytes in front of the end     *)
(* marker, and starts and ends where another one ends and starts.             *)
Tiled(h) ==
  /\ IsFiniteSet(DOMAIN h.link) /\ xStart \in DOMAIN h.link /\ h.pxEnd \in DOMAIN h.link
  /\ h.pxEnd = uxEndAddress /\ h.link[h.pxEnd] = Header(Null, 0, 0)
  /\ uxStartAddress \in Within(h)
  /\ \A b \in Within(h) :
       /\ h.link[b] \in [next : {Null} \cup Nat, size : Nat, alloc : {0, 1}]
       /\ b \in Nat /\ b % Align = 0 /\ h.link[b].size % Align = 0 /\ h.link[b].size >= xHeapStructSize
       /\ b >= uxStartAddress /\ Behind(h, b) \in Within(h) \cup {h.pxEnd} /\ Behind(h, b) <= h.pxEnd
  /\ \A a, b \in Within(h) : a < b => Behind(h, a) <= b
  /\ \A c \in Within(h) \cup {h.pxEnd} : c = uxStartAddress \/ \E a \in Within(h) : Behind(h, a) = c

(* The free list, from xStart to the end marker. *)
InOrder(h) ==
  /\ h.link[xStart] \in [next : Nat, size : {0}, alloc : {0}]
  /\ \A a \in Linked(h) :
       /\ h.link[a].alloc = 0
       /\ a < h.link[a].next /\ h.link[a].next \in Listed(h) \cup {h.pxEnd}
       /\ \A b \in Listed(h) : a < b => h.link[a].next <= b
  /\ \A a \in Listed(h) : h.link[a].next > Behind(h, a) \/ h.link[a].next = h.pxEnd

Freeing(t) == doing[t].op = "free"
BlockOf(r) == r.at - xHeapStructSize

(* Who has the other blocks: those with the bit set belong to the tasks that  *)
(* hold them, those without it to the tasks that are freeing them.            *)
Owned(h) ==
  /\ \A t \in Client : \A r \in holds[t] :
       /\ r \in [at : Nat, size : Nat] /\ BlockOf(r) \in Within(h)
       /\ h.link[BlockOf(r)].alloc = 1 /\ h.link[BlockOf(r)].next = Null
       /\ r.size + xHeapStructSize <= h.link[BlockOf(r)].size
  /\ \A t, u \in Client : \A r \in holds[t], s \in holds[u] : r.at = s.at => t = u /\ r = s
  /\ \A t \in Client : Freeing(t) =>
       /\ doing[t].at \in Within(h) /\ h.link[doing[t].at].alloc = 0 /\ h.link[doing[t].at].next = Null
       /\ \A u \in Client : Freeing(u) /\ doing[u].at = doing[t].at => t = u
  /\ \A b \in Within(h) \ Listed(h) :
       IF h.link[b].alloc = 1 THEN \E t \in Client : \E r \in holds[t] : BlockOf(r) = b
       ELSE \E t \in Client : Freeing(t) /\ doing[t].at = b

Counted(h) ==
  /\ h.free = Cardinality(Bytes(h, Listed(h))) /\ h.min \in Nat /\ h.min <= h.free
  /\ h.live = Cardinality(Within(h) \ Listed(h))

CallsInv ==
  /\ ucHeap \in Bases /\ halted \in {"no", "!HEAP"}
  /\ DOMAIN holds = Client /\ DOMAIN doing = Client
  /\ \A t \in Client : doing[t] = NoCall \/ Freeing(t) \/ (doing[t].op = "failed" /\ doing[t].at = Null)

HeapInv ==
  /\ CallsInv
  /\ DOMAIN heap = {"link", "pxEnd", "free", "min", "live"}
  /\ IF Up THEN Tiled(heap) /\ InOrder(heap) /\ Owned(heap) /\ Counted(heap)
     ELSE heap = Empty /\ \A t \in Client : holds[t] = {} /\ doing[t] = NoCall
=============================================================================
