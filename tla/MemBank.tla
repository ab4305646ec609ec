------------------------------ MODULE MemBank -------------------------------
(***************************************************************************)
(* The memory of the emulated machine as MZhw.cpp keeps it: one flat       *)
(* buffer `mem` (ROM, ROM2, video RAM, 64K RAM one behind the other), and, *)
(* for each of the 32 pages of 800H bytes of the Z80's address space, a    *)
(* bank entry `memctrl[i]` and a pointer `memptr[i]` derived from it.      *)
(* Every offset the code uses is a whole number of pages, so a pointer is  *)
(* a buffer and a page of it, and an address x is the pair of x >> 11 and  *)
(* x & 7FFH.                                                               *)
(***************************************************************************)
EXTENDS Naturals

CONSTANTS
  PageSize,     \* 800H
  WorkClear,    \* 200H: bytes of the monitor's work area mz_reset clears
  ScreenClear,  \* 400H: bytes of text and of colour mz_reset clears
  Byte,         \* the values a cell holds
  Zero, White,  \* 00H, 71H
  Unset,        \* what malloc left in a cell
  Mmio,         \* stands for the answer of a device register
  Rom700,       \* contents of ROM files that set_mztype takes for an MZ-700
  Accessed,     \* the pages the program reads and writes
  Images        \* <<first, size>> of the program images put into RAM

ASSUME MemAssumption ==
  /\ PageSize \in Nat \ {0}
  /\ WorkClear \in 0 .. PageSize /\ ScreenClear \in 0 .. PageSize
  /\ {Zero, White, Unset} \subseteq Byte /\ Rom700 \subseteq Byte
  /\ Mmio \notin Byte
  /\ Accessed \subseteq 0 .. 31
  /\ \A i \in Images : i[1] \in Nat /\ i[2] \in Nat /\ i[1] + i[2] <= 32 * PageSize

VARIABLES
  memctrl,      \* hw700.memctrl
  memptr,       \* where each page points
  mem,          \* the flat buffer
  mzMode,       \* mzConfig.mzMode
  cmt_tstates,  \* ts700.cmt_tstates: 1 while the tape turns
  bus           \* what the last access moved, and the wait states it cost

vars == <<memctrl, memptr, mem, mzMode, cmt_tstates, bus>>

Page == 0 .. 31
Offset == 0 .. PageSize - 1

(* The regions of mem, in pages.  RAM ends the buffer.                     *)
ROM_START == 0
VID_START == 5
RAM_START == 7
MemPages == 39
JunkPages == 2

(* The switch of update_membank: the region a bank points into and the     *)
(* access attribute it gets (bit 0 writable, 1 device, 2 video waits).     *)
Base == {"MB_ROM1", "MB_RAM", "MB_VRAM", "MB_DUMMY"}
BaseBuf(b) == IF b = "MB_DUMMY" THEN "junk" ELSE "mem"
BaseStart(b) ==
  CASE b = "MB_ROM1" -> ROM_START
    [] b = "MB_RAM" -> RAM_START
    [] b = "MB_VRAM" -> VID_START
    [] OTHER -> 0
Attr(b) ==
  CASE b = "MB_ROM1" -> 0
    [] b = "MB_RAM" -> 1
    [] b = "MB_VRAM" -> 5
    [] OTHER -> 2

Bank(b, ofs) == [base |-> b, ofs |-> ofs]

update_membank(banks) ==
  /\ memctrl' = [i \in Page |-> [base |-> banks[i].base, ofs |-> banks[i].ofs,
                                 attr |-> Attr(banks[i].base)]]
  /\ memptr' = [i \in Page |-> [buf |-> BaseBuf(banks[i].base),
                                page |-> BaseStart(banks[i].base) + banks[i].ofs]]

Banks == [i \in Page |-> Bank(memctrl[i].base, memctrl[i].ofs)]

(* The bank entries an OUT to ports E0H-E4H leaves.                        *)
\* Mutant: E1H leaves the first page of video RAM switched in.
HighRamShort(b) == [i \in Page |-> IF i >= 27 THEN Bank("MB_RAM", i) ELSE b[i]]
\* Mutant: the offset of a RAM page is taken from the end of the buffer.
HighRamPast(b) == [i \in Page |-> IF i >= 26 THEN Bank("MB_RAM", i + 1) ELSE b[i]]

LowRam(b)  == [i \in Page |-> IF i \in 0 .. 1 THEN Bank("MB_RAM", i) ELSE b[i]]
HighRam(b) == [i \in Page |-> IF i >= 26 THEN Bank("MB_RAM", i) ELSE b[i]]
LowRom(b)  == [i \in Page |-> IF i \in 0 .. 1 THEN Bank("MB_ROM1", i) ELSE b[i]]
HighIo(b)  == [i \in Page |->
                 CASE i \in 26 .. 27 -> Bank("MB_VRAM", i - 26)
                   [] i >= 28 -> Bank("MB_DUMMY", i % 2)
                   [] OTHER -> b[i]]

Switched(port) ==
  CASE port = 224 -> LowRam(Banks)
    [] port = 225 -> HighRam(Banks)
    [] port = 226 -> LowRom(Banks)
    [] port = 227 -> HighIo(Banks)
    [] port = 228 -> HighIo(LowRom(Banks))

Z80_Out(port) ==
  /\ update_membank(Switched(port))
  /\ UNCHANGED <<mem, mzMode, cmt_tstates, bus>>

----------------------------------------------------------------------------
DeviceBit(at) == (at \div 2) % 2 = 1
VideoBit(at) == (at \div 4) % 2 = 1

Z80_RDMEM(p, o) ==
  LET at == memctrl[p].attr IN
  /\ bus' = [val |-> IF DeviceBit(at) THEN Mmio ELSE mem[memptr[p].page][o],
             wait |-> IF cmt_tstates # 0 THEN 0
                      ELSE (IF at = 0 THEN 1 ELSE 0) + (IF VideoBit(at) THEN 42 ELSE 0)]
  /\ UNCHANGED <<memctrl, memptr, mem, mzMode, cmt_tstates>>

\* Mutant: the read-only attribute is not looked at.
IgnoresRom(p, o, v) ==
  /\ mem' = IF DeviceBit(memctrl[p].attr) THEN mem
            ELSE [mem EXCEPT ![memptr[p].page][o] = v]
  /\ bus' = [val |-> v, wait |-> 0]
  /\ UNCHANGED <<memctrl, memptr, mzMode, cmt_tstates>>

Z80_WRMEM(p, o, v) ==
  LET at == memctrl[p].attr IN
  /\ mem' = IF ~DeviceBit(at) /\ at # 0 THEN [mem EXCEPT ![memptr[p].page][o] = v] ELSE mem
  /\ bus' = [val |-> v, wait |-> IF VideoBit(at) /\ ~DeviceBit(at) /\ cmt_tstates = 0
                                 THEN 42 ELSE 0]
  /\ UNCHANGED <<memctrl, memptr, mzMode, cmt_tstates>>

----------------------------------------------------------------------------
(* monrom_load: a ROM file fills the first n pages of mem; n = 0 when no   *)
(* file could be opened and the old contents stay.                         *)
RomFile(m, n, v) == [b \in 0 .. MemPages - 1 |->
                       IF b < n THEN [o \in Offset |-> v] ELSE m[b]]

(* set_mztype: both marks it looks for lie in the first page of the ROM.   *)
set_mztype(m) == IF m[ROM_START][0] \in Rom700 THEN 700 ELSE 80

Cleared(m, mode) ==
  [b \in 0 .. MemPages - 1 |-> [o \in Offset |->
     CASE b = RAM_START + 2 /\ o < WorkClear -> Zero
       [] b = VID_START /\ o < ScreenClear -> Zero
       [] b = VID_START + 1 /\ o < ScreenClear -> IF mode = 700 THEN White ELSE Zero
       [] OTHER -> m[b][o]]]

ResetBanks == HighIo(LowRom([i \in Page |-> Bank("MB_RAM", i)]))

\* Mutant: the machine type is settled before the new ROM is in place.
ResetStaleType(n, v) ==
  /\ mzMode' = set_mztype(mem)
  /\ mem' = Cleared(RomFile(mem, n, v), mzMode')
  /\ update_membank(ResetBanks)
  /\ cmt_tstates' = 0
  /\ UNCHANGED bus

(* A ROM is chosen in the system menu (or the program starts): monrom_load *)
(* and mz_reset, with the Z80 standing still.                              *)
LoadRomAndReset(n, v) ==
  /\ mzMode' = set_mztype(RomFile(mem, n, v))
  /\ mem' = Cleared(RomFile(mem, n, v), mzMode')
  /\ update_membank(ResetBanks)
  /\ cmt_tstates' = 0
  /\ UNCHANGED bus

(* A block of a file that setMztToMemory loads: size bytes go to RAM from  *)
(* address first on, past the bank table.  A block it puts in the cassette *)
(* deck instead is TapeStartsOrStops.                                      *)
setMztToMemory(first, size, v) ==
  /\ mem' = [b \in 0 .. MemPages - 1 |-> [o \in Offset |->
               IF /\ b >= RAM_START
                  /\ (b - RAM_START) * PageSize + o \in first .. first + size - 1
               THEN v ELSE mem[b][o]]]
  /\ UNCHANGED <<memctrl, memptr, mzMode, cmt_tstates, bus>>

(* The cassette deck (module Cmt) starts or stops.                         *)
TapeStartsOrStops ==
  /\ cmt_tstates' = 1 - cmt_tstates
  /\ UNCHANGED <<memctrl, memptr, mem, mzMode, bus>>

----------------------------------------------------------------------------
(* The state mainloop enters its loop in: a ROM of type v is loaded and    *)
(* the machine was reset.                                                  *)
Init ==
  \E v \in Byte :
    /\ mem = Cleared(RomFile([b \in 0 .. MemPages - 1 |-> [o \in Offset |-> Unset]], 2, v),
                     IF v \in Rom700 THEN 700 ELSE 80)
    /\ mzMode = IF v \in Rom700 THEN 700 ELSE 80
    /\ memctrl = [i \in Page |-> [base |-> ResetBanks[i].base, ofs |-> ResetBanks[i].ofs,
                                  attr |-> Attr(ResetBanks[i].base)]]
    /\ memptr = [i \in Page |-> [buf |-> BaseBuf(ResetBanks[i].base),
                                 page |-> BaseStart(ResetBanks[i].base) + ResetBanks[i].ofs]]
    /\ cmt_tstates = 0
    /\ bus = [val |-> Zero, wait |-> 0]

Next ==
  \/ \E port \in 224 .. 228 : Z80_Out(port)
  \/ \E p \in Accessed, o \in Offset : Z80_RDMEM(p, o)
  \/ \E p \in Accessed, o \in Offset, v \in Byte : Z80_WRMEM(p, o, v)
  \/ \E n \in 0 .. 2, v \in Byte : LoadRomAndReset(n, v)
  \/ \E i \in Images, v \in Byte : setMztToMemory(i[1], i[2], v)
  \/ TapeStartsOrStops

Spec == Init /\ [][Next]_vars

----------------------------------------------------------------------------
LoMem == IF memctrl[0].base = "MB_ROM1" THEN "rom" ELSE "ram"
HiMem == IF memctrl[26].base = "MB_VRAM" THEN "io" ELSE "ram"

(* The bank entries that the two switches, and nothing else, determine.    *)
BanksOf(lo, hi) ==
  LET ram == [i \in Page |-> Bank("MB_RAM", i)]
      low == IF lo = "rom" THEN LowRom(ram) ELSE ram
  IN  IF hi = "io" THEN HighIo(low) ELSE low

(* Types, and every page pointer inside the buffer it points into.         *)
TypeOK ==
  /\ memctrl \in [Page -> [base : Base, ofs : Page, attr : {0, 1, 2, 5}]]
  /\ memptr \in [Page -> [buf : {"mem"}, page : 0 .. MemPages - 1]
                   \cup [buf : {"junk"}, page : 0 .. JunkPages - 1]]
  /\ mem \in [0 .. MemPages - 1 -> [Offset -> Byte]]
  /\ mzMode \in {80, 700}
  /\ cmt_tstates \in {0, 1}
  /\ bus \in [val : Byte \cup {Mmio}, wait : {0, 1, 42}]

(* update_membank keeps 32 attributes and 32 pointers beside the entries   *)
(* that OUT instructions rewrite a few at a time, in any order: whatever   *)
(* the order, the table is one of four, and no attribute or pointer is     *)
(* left from an earlier setting (a page with the ROM's attribute and a     *)
(* pointer into RAM would make RAM read-only).                             *)
BankTable ==
  LET b == BanksOf(LoMem, HiMem) IN
  \A i \in Page :
    /\ memctrl[i] = [base |-> b[i].base, ofs |-> b[i].ofs, attr |-> Attr(b[i].base)]
    /\ memptr[i] = [buf |-> BaseBuf(b[i].base), page |-> BaseStart(b[i].base) + b[i].ofs]

(* The machine type, cached when a ROM is loaded, keeps matching the ROM   *)
(* in the buffer: no store, image or failed ROM file separates them        *)
(* (keyboard tables and tape timing are chosen by it).                     *)
TypeMatchesRom == mzMode = set_mztype(mem)

(* The flat buffer and the page table behave as three separate memories    *)
(* behind two switches, with the waits of the memory that answers.         *)
Region(start, n) == [i \in 0 .. n - 1 |-> mem[start + i]]
Banked == INSTANCE BankedMemory WITH
  rom <- Region(ROM_START, 2), vram <- Region(VID_START, 2), ram <- Region(RAM_START, 32),
  lo <- LoMem, hi <- HiMem, mode <- mzMode, taping <- cmt_tstates
BankedSpec == Banked!Spec
=============================================================================
