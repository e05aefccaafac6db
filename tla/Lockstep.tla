------------------------------ MODULE Lockstep ------------------------------
(***************************************************************************)
(* What a stepped co-simulation test promises: the host opens a round, the *)
(* firmware answers it, the host checks it, and only then is the next      *)
(* round opened.  Neither side ever runs ahead of the other by more than   *)
(* the round in progress, and no round is answered or checked twice.       *)
(***************************************************************************)
EXTENDS Naturals

CONSTANT Rounds

VARIABLES
  opened,    \* rounds the host has opened
  answered,  \* rounds the firmware has answered
  checked    \* rounds the host has found correct

vars == <<opened, answered, checked>>

Init == opened = 0 /\ answered = 0 /\ checked = 0

Open ==
  /\ opened = checked /\ opened < Rounds
  /\ opened' = opened + 1
  /\ UNCHANGED <<answered, checked>>

Answer ==
  /\ answered < opened
  /\ answered' = answered + 1
  /\ UNCHANGED <<opened, checked>>

Check ==
  /\ checked < answered
  /\ checked' = checked + 1
  /\ UNCHANGED <<opened, answered>>

Next == Open \/ Answer \/ Check

Spec == Init /\ [][Next]_vars
=============================================================================
