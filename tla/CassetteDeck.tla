---------------------------- MODULE CassetteDeck ----------------------------
(***************************************************************************)
(* What the Z80 program may rely on when it reads a tape: the tape moves   *)
(* only while the deck turns, by exactly the time the CPU spends meanwhile *)
(* (a pause costs nothing and loses nothing), and the program hears the    *)
(* bit that lies at the position the tape has reached, silence from the    *)
(* end on.  Module Cmt implements this with a wrapping cycle counter and a *)
(* window of the tape file.                                                *)
(***************************************************************************)
EXTENDS Integers

CONSTANTS
  Tapes, Length,   \* the tapes and how many words each has
  WordTicks,       \* CPU cycles a word lasts
  BitTicks,        \* CPU cycles a bit lasts
  Steps,           \* cycles that may pass at once
  Blank, Silent,
  NotRead          \* the signal is not being listened to

VARIABLES
  tape,     \* the tape in the deck
  present,  \* there is one
  playable, \* it has not run out
  running, pos, heard

vars == <<tape, present, playable, running, pos, heard>>

(* The leader starts with a word that is heard as no signal at all.        *)
WordAt(p) == IF p \div WordTicks = 0 THEN Blank
             ELSE [tape |-> tape, word |-> p \div WordTicks]
BitAt(p) == (p % WordTicks) \div BitTicks

AtRest == ~playable /\ ~running /\ pos = 0

Init == ~present /\ AtRest

(* The CPU executes, or does something else with the deck not concerned.   *)
Advance ==
  /\ heard' = NotRead
  /\ UNCHANGED <<tape, present, playable, running>>
  /\ pos' \in {pos} \cup (IF running THEN {pos + d : d \in Steps} ELSE {})

Insert ==
  /\ tape' \in Tapes
  /\ present' /\ playable' /\ running' /\ pos' = 0
  /\ heard' = NotRead

(* Starting and pausing leave the tape where it is.                        *)
Toggle ==
  /\ playable /\ running' = ~running
  /\ UNCHANGED <<tape, present, playable, pos>> /\ heard' = NotRead

(* The machine is reset, or a file that should be the next tape cannot be  *)
(* opened.                                                                 *)
Remove == ~present' /\ AtRest' /\ heard' = NotRead

Listen ==
  /\ present
  /\ \/ /\ ~running /\ heard' = Silent
        /\ UNCHANGED <<tape, present, playable, running, pos>>
     \/ /\ running /\ pos < Length[tape] * WordTicks
        /\ heard' = [word |-> WordAt(pos), bit |-> BitAt(pos)]
        /\ UNCHANGED <<tape, present, playable, running, pos>>
     \/ /\ running /\ pos >= Length[tape] * WordTicks
        /\ heard' = Silent
        /\ present' /\ AtRest' /\ tape' = tape

(* What is heard without a tape is not specified.                          *)
ListenToNothing == ~present /\ ~present' /\ AtRest'

Next == Advance \/ Insert \/ Toggle \/ Remove \/ Listen \/ ListenToNothing

Spec == Init /\ [][Next]_vars
=============================================================================
