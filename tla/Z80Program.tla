----------------------------- MODULE Z80Program -----------------------------
(***************************************************************************)
(* What a Z80 program may rely on: its instructions are executed one after *)
(* the other, as if there were no interrupts.  Only a HALT is left by one. *)
(***************************************************************************)
CONSTANTS
  Start(_),     \* the CPU with a program loaded
  Norm(_),      \* what a program sees of a CPU
  Executed(_),  \* the CPU after its next instruction
  Woken(_)      \* a halted CPU past its HALT

VARIABLES
  program,
  v             \* the CPU as the program sees it

Run == \E s \in {Executed(v)} : v' = Norm(s) /\ UNCHANGED program
Wake == v.HALT = 1 /\ v' = Woken(v) /\ UNCHANGED program

Init == v = Norm(Start(program))
Next == Run \/ Wake

(* A program goes on for as long as it does not halt.                      *)
Spec == Init /\ [][Next]_<<program, v>> /\ WF_<<program, v>>(Run)
=============================================================================
