------------------------------ MODULE MCQueue ------------------------------
(* Applications of two tasks and an interrupt handler on one queue: every way *)
(* to put in and take out two different items, without waiting; a sender and  *)
(* a receiver that wait, either above the other; two receivers and two        *)
(* senders that wait; a semaphore; a receiver that is suspended, resumed and  *)
(* given another priority while it waits.                                     *)
EXTENDS Queue, TLC

CONSTANTS a, b, idle

MCTask == {a, b, idle}
MCEventLists == {Rx, Tx}

App(a_, b_, isr, pa, pb, length, da, db) ==
  [boot |-> <<<<a, pa>>, <<b, pb>>>>, calls |-> (a :> a_) @@ (b :> b_) @@ (idle :> {}), isr |-> isr,
   delays |-> (a :> da) @@ (b :> db) @@ (idle :> {}), length |-> length, size |-> 1, items |-> {1}]

Puts == {"back", "front", "overwrite"}
Storage(length) == [App(Puts \cup {"reset"}, {"receive", "peek"}, Puts \cup {"receive"}, 1, 1, length, {0}, {0})
                      EXCEPT !.items = {1, 2}]
ReceiverAbove == App({"back", "reset"}, {"receive"}, {"back", "receive"}, 0, 1, 1, {2}, {0, 1})
SenderAbove == App({"back"}, {"receive"}, {"receive"}, 1, 0, 2, {0, 1}, {2})
Receivers == App({"receive", "peek"}, {"receive"}, {"back"}, 0, 1, 2, {2}, {2})
Senders == App({"back"}, {"back"}, {"receive"}, 0, 1, 2, {2}, {2})
Semaphore == [App({"back"}, {"receive"}, {"back"}, 1, 1, 1, {0}, {1, 2}) EXCEPT !.size = 0]
Suspending == App({"back", "vTaskSuspend", "vTaskResume", "vTaskPrioritySet"}, {"receive"}, {"back"},
                  1, 1, 1, {0}, {2})

MCApps == {Storage(1), Storage(2), ReceiverAbove, SenderAbove, Receivers, Senders, Semaphore,
           Suspending}
=============================================================================
