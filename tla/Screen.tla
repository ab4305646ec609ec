------------------------------- MODULE Screen -------------------------------
(***************************************************************************)
(* The screen of Mzscrn.cpp: a thread of its own copies the video RAM to   *)
(* the panel, strip by strip, when the main loop has asked it to and no    *)
(* menu is open.  Nothing but two flags connects the two.                  *)
(***************************************************************************)
EXTENDS Integers

CONSTANTS Strips,       \* number of strips a screen is drawn in
          Pictures,     \* what a strip can show
          Cleared       \* what it shows of cleared video RAM

ASSUME StripAssumption == Strips \in Nat \ {0} /\ Cleared \in Pictures

Strip == 1 .. Strips
Screens == [Strip -> Pictures]
Blank(picture) == [s \in Strip |-> picture]

VARIABLES vram,         \* the video RAM
          shown,        \* what the panel shows, "menu" or "black" too
          needUpdate,   \* needScreenUpdateFlag
          valid,        \* screnUpdateValidFlag
          drawing,      \* the strip the thread draws next, 0 when it waits
          asked         \* history: video RAM is as when it was asked for

screenVars == <<vram, shown, needUpdate, valid, drawing, asked>>

ScreenInit ==
  /\ vram = Blank(Cleared) /\ shown = Blank("black")
  /\ needUpdate = FALSE /\ valid = TRUE /\ drawing = 0 /\ asked = FALSE

\* The program writes video RAM.
Writes == /\ \E s \in Strip, p \in Pictures : vram' = [vram EXCEPT ![s] = p]
          /\ asked' = (asked /\ vram' = vram)
          /\ UNCHANGED <<shown, needUpdate, valid, drawing>>

update_scrn == /\ needUpdate' = TRUE /\ asked' = TRUE
               /\ UNCHANGED <<vram, shown, valid, drawing>>

\* A menu asks the thread to stand still, and does not see whether it does.
MenuShown == /\ valid' = FALSE /\ shown' = Blank("menu") /\ asked' = FALSE
             /\ UNCHANGED <<vram, needUpdate, drawing>>

\* The panel is cleared; a reset has cleared video RAM as well.
MenuClosed(cleared) ==
  /\ valid' = TRUE /\ shown' = Blank("black")
  /\ vram' = IF cleared THEN Blank(Cleared) ELSE vram
  /\ UNCHANGED <<needUpdate, drawing, asked>>

-----------------------------------------------------------------------------
(* update_scrn_thread.                                                     *)

ThreadStarts ==
  /\ drawing = 0 /\ needUpdate /\ valid
  /\ needUpdate' = FALSE /\ drawing' = 1
  /\ UNCHANGED <<vram, shown, valid, asked>>

NextStrip == IF drawing = Strips THEN 0 ELSE drawing + 1

\* Mutant: the request is taken back when the screen is drawn.
DrawsAndForgets ==
  /\ drawing # 0
  /\ shown' = [shown EXCEPT ![drawing] = vram[drawing]] /\ drawing' = NextStrip
  /\ needUpdate' = (needUpdate /\ NextStrip # 0)
  /\ UNCHANGED <<vram, valid, asked>>

ThreadDraws ==
  /\ drawing # 0
  /\ shown' = [shown EXCEPT ![drawing] = vram[drawing]] /\ drawing' = NextStrip
  /\ UNCHANGED <<vram, needUpdate, valid, asked>>

Thread == ThreadStarts \/ ThreadDraws
=============================================================================
