------------------------------- MODULE Arena --------------------------------
(* What heap_4.c promises: pvPortMalloc hands out aligned ranges of bytes     *)
(* that lie in ucHeap and that nobody else holds, however many tasks call it. *)
EXTENDS Integers

CONSTANTS Client, Bases, HeapSize, Align, Sizes

VARIABLES
  ucHeap,  \* the address of the heap
  holds    \* the ranges each client holds

Bytes(r) == r.at .. r.at + r.size - 1
Free(r) == \A c \in Client : \A s \in holds[c] : Bytes(s) \cap Bytes(r) = {}

Init == ucHeap \in Bases /\ holds = [c \in Client |-> {}]

Take(c) ==
  \E at \in ucHeap .. ucHeap + HeapSize - 1, size \in Sizes :
    LET r == [at |-> at, size |-> size]
    IN /\ at % Align = 0 /\ at + size <= ucHeap + HeapSize /\ Free(r)
       /\ holds' = [holds EXCEPT ![c] = @ \cup {r}]

Give(c) == \E r \in holds[c] : holds' = [holds EXCEPT ![c] = @ \ {r}]

(* vPortHeapResetState *)
Forget == holds' = [c \in Client |-> {}]

Next == UNCHANGED ucHeap /\ (Forget \/ \E c \in Client : Take(c) \/ Give(c))
Spec == Init /\ [][Next]_<<ucHeap, holds>>
=============================================================================
