----------------------------- MODULE Keystrokes -----------------------------
(***************************************************************************)
(* What typing promises: the program that scans the key matrix sees one    *)
(* stroke after another.  A stroke lasts Rounds rounds of the main loop    *)
(* and is a key, or shift and, a round later, the key that goes with it,   *)
(* or both at once (BREAK); everything goes up together.                   *)
(***************************************************************************)
EXTENDS Integers

CONSTANTS Keys, Shift, Rounds

VARIABLES matrix,   \* the keys that are down
          left      \* rounds the stroke still lasts, 0 between strokes

vars == <<matrix, left>>

Strokes == {{key} : key \in Keys} \cup {{Shift, key} : key \in Keys}

Init == matrix = {} /\ left = 0

Begin == left < 2 /\ left' = Rounds /\ matrix' \in Strokes

Hold == left > 1 /\ left' = left - 1 /\ matrix' = matrix

ShiftedKey ==
  /\ left = Rounds /\ left' = left - 1
  /\ matrix = {Shift} /\ \E key \in Keys : matrix' = {Shift, key}

Lift == left = 1 /\ left' = 0 /\ matrix' = {}

Next == Begin \/ Hold \/ ShiftedKey \/ Lift

Spec == Init /\ [][Next]_vars
=============================================================================
