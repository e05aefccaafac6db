-------------------------------- MODULE Fifo --------------------------------
(* What a queue promises: items come out in the order in which they were put  *)
(* in, each once, and what is handed out is the item at the head.             *)
EXTENDS Integers, Sequences

CONSTANTS Item, Length

VARIABLES
  items,  \* the items in the queue, the oldest first
  got     \* the item handed out last

Init == items = <<>> /\ got \in Item

Put(i) == Len(items) < Length /\ items' = Append(items, i) /\ UNCHANGED got
PutFront(i) == Len(items) < Length /\ items' = <<i>> \o items /\ UNCHANGED got
Overwrite(i) == Length = 1 /\ items' = <<i>> /\ UNCHANGED got
Take == items # <<>> /\ got' = Head(items) /\ items' = Tail(items)
Look == items # <<>> /\ got' = Head(items) /\ UNCHANGED items
Clear == items' = <<>> /\ UNCHANGED got

Next == Take \/ Look \/ Clear \/ \E i \in Item : Put(i) \/ PutFront(i) \/ Overwrite(i)
Spec == Init /\ [][Next]_<<items, got>>
=============================================================================
