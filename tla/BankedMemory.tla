---------------------------- MODULE BankedMemory ----------------------------
(***************************************************************************)
(* What a program running on the emulated MZ-700 may rely on: three        *)
(* separate memories (monitor ROM, video RAM, 64K RAM) and two bank        *)
(* switches.  `lo` selects what is seen at 0000H-0FFFH, `hi` what is seen  *)
(* at D000H-FFFFH.  A store reaches exactly the memory that is selected,   *)
(* is lost when that is the ROM, and never shows in another memory.        *)
(* MemBank implements this with a flat buffer and a table of 32 pages.     *)
(***************************************************************************)
EXTENDS Naturals

CONSTANTS
  PageSize,     \* bytes in a page (800H)
  WorkClear,    \* bytes a reset clears from 1000H (200H)
  ScreenClear,  \* bytes of text and of colour a reset clears (400H)
  Byte, Zero, White,
  Mmio,         \* stands for whatever a device register answers
  Rom700        \* the ROM contents recognised as an MZ-700 monitor

VARIABLES rom, vram, ram, lo, hi, mode, taping, bus

vars == <<rom, vram, ram, lo, hi, mode, taping, bus>>

Offset == 0 .. PageSize - 1
Memory(n) == [0 .. n - 1 -> [Offset -> Byte]]

(* What answers an access to page p of the Z80's address space.            *)
Selected(p) ==
  CASE p < 2 /\ lo = "rom" -> "rom"
    [] p \in 26 .. 27 /\ hi = "io" -> "vram"
    [] p > 27 /\ hi = "io" -> "mmio"
    [] OTHER -> "ram"

(* Wait states: 1 for ROM, 42 for video RAM, none while the tape turns.    *)
Wait(p) ==
  CASE taping = 1 -> 0
    [] taping = 0 /\ Selected(p) = "rom" -> 1
    [] taping = 0 /\ Selected(p) = "vram" -> 42
    [] OTHER -> 0

Seen(p, o) ==
  CASE Selected(p) = "rom" -> rom[p][o]
    [] Selected(p) = "vram" -> vram[p - 26][o]
    [] Selected(p) = "mmio" -> Mmio
    [] OTHER -> ram[p][o]

Init ==
  /\ rom \in Memory(2) /\ vram \in Memory(2) /\ ram \in Memory(32)
  /\ lo = "rom" /\ hi = "io"
  /\ mode = (IF rom[0][0] \in Rom700 THEN 700 ELSE 80)
  /\ taping = 0
  /\ bus = [val |-> Zero, wait |-> 0]

Read(p, o) ==
  /\ bus' = [val |-> Seen(p, o), wait |-> Wait(p)]
  /\ UNCHANGED <<rom, vram, ram, lo, hi, mode, taping>>

Write(p, o, v) ==
  /\ bus' = [val |-> v, wait |-> IF Selected(p) = "vram" THEN Wait(p) ELSE 0]
  /\ vram' = IF Selected(p) = "vram" THEN [vram EXCEPT ![p - 26][o] = v] ELSE vram
  /\ ram' = IF Selected(p) = "ram" THEN [ram EXCEPT ![p][o] = v] ELSE ram
  /\ UNCHANGED <<rom, lo, hi, mode, taping>>

Switch(l, h) ==
  /\ lo' = l /\ hi' = h
  /\ UNCHANGED <<bus, taping, mode, rom, vram, ram>>

(* A reset with a new ROM: everything but the cleared areas survives.      *)
Reset ==
  /\ rom' \in Memory(2)
  /\ mode' = IF rom'[0][0] \in Rom700 THEN 700 ELSE 80
  /\ ram' = [p \in 0 .. 31 |-> [o \in Offset |->
               IF p = 2 /\ o < WorkClear THEN Zero ELSE ram[p][o]]]
  /\ vram' = [p \in 0 .. 1 |-> [o \in Offset |->
                CASE o >= ScreenClear -> vram[p][o]
                  [] o < ScreenClear /\ p = 0 -> Zero
                  [] OTHER -> IF mode' = 700 THEN White ELSE Zero]]
  /\ lo' = "rom" /\ hi' = "io" /\ taping' = 0
  /\ UNCHANGED bus

(* A program image put straight into RAM, whatever the banks select: no    *)
(* other memory changes.                                                   *)
Load ==
  /\ UNCHANGED <<bus, lo, hi, mode, taping>>
  /\ UNCHANGED <<rom, vram>>
  /\ ram' \in Memory(32)

Tape ==
  /\ taping' \in {0, 1}
  /\ UNCHANGED <<bus, lo, hi, mode, rom, vram, ram>>

Next ==
  \/ \E l \in {"rom", "ram"}, h \in {"io", "ram"} : Switch(l, h)
  \/ Tape
  \/ Load
  \/ Reset
  \/ \E p \in 0 .. 31, o \in Offset : Read(p, o)
  \/ \E p \in 0 .. 31, o \in Offset, v \in Byte : Write(p, o, v)

Spec == Init /\ [][Next]_vars
=============================================================================
