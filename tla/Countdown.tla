----------------------------- MODULE Countdown ------------------------------
(***************************************************************************)
(* What the timer of the machine is for: once a program has set it, it     *)
(* sounds an alarm after `left` beats of its clock and then every `period` *)
(* beats, and looking at it does not disturb it.  Pit implements this with *)
(* two chained counters.                                                   *)
(***************************************************************************)
EXTENDS Naturals

VARIABLES
  event,   \* what happened last: "set", "look", "beat" or "alarm"
  on,      \* the timer is set and keeps the time
  left, period

vars == <<event, on, left, period>>

Init == on = FALSE /\ event = "set"

(* The program writes to the timer, or the machine is reset.               *)
Set ==
  /\ event' = "set"
  /\ on' \in BOOLEAN /\ left' \in Nat /\ period' \in Nat

Look ==
  /\ event' = "look"
  /\ UNCHANGED <<on, left, period>>

Beat ==
  /\ on /\ on'
  /\ UNCHANGED period
  /\ \/ left > 1 /\ left' = left - 1 /\ event' = "beat"
     \/ left = 1 /\ left' = period /\ event' = "alarm"

(* Until it is set, what a beat does is not specified.                     *)
Unset ==
  /\ ~on
  /\ event' \in {"beat", "alarm"}
  /\ on' \in BOOLEAN /\ left' \in Nat /\ period' \in Nat

Next == Set \/ Look \/ Beat \/ Unset

Spec == Init /\ [][Next]_vars
=============================================================================
