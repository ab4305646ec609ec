--------------------------- MODULE MemBankProofs ----------------------------
(***************************************************************************)
(* The page table of MemBank is always one of four, its pointers stay in   *)
(* their buffers, and the flat buffer behind it implements BankedMemory:   *)
(* for every page size, every set of byte values and every image.          *)
(***************************************************************************)
EXTENDS MemBank, TLAPS

IInv == TypeOK /\ BankTable /\ TypeMatchesRom

----------------------------------------------------------------------------
(* What the four tables hold, page by page.                                *)
LEMMA TableEntry ==
  ASSUME NEW lo \in {"rom", "ram"}, NEW hi \in {"io", "ram"}, NEW i \in Page
  PROVE  /\ i < 2 /\ lo = "rom" => BanksOf(lo, hi)[i] = Bank("MB_ROM1", i)
         /\ i \in 26 .. 27 /\ hi = "io" => BanksOf(lo, hi)[i] = Bank("MB_VRAM", i - 26)
         /\ i > 27 /\ hi = "io" => BanksOf(lo, hi)[i] = Bank("MB_DUMMY", i % 2)
         /\ (i >= 2 \/ lo = "ram") /\ (i < 26 \/ hi = "ram")
              => BanksOf(lo, hi)[i] = Bank("MB_RAM", i)
  BY DEF BanksOf, HighIo, LowRom, Page, Bank

(* A table update_membank builds is a function of the page, made of banks. *)
LEMMA TableFunction ==
  ASSUME NEW lo \in {"rom", "ram"}, NEW hi \in {"io", "ram"}
  PROVE  /\ BanksOf(lo, hi) = [i \in Page |-> BanksOf(lo, hi)[i]]
         /\ \A i \in Page : BanksOf(lo, hi)[i] = Bank(BanksOf(lo, hi)[i].base,
                                                    BanksOf(lo, hi)[i].ofs)
<1>1. BanksOf(lo, hi) = [i \in Page |-> BanksOf(lo, hi)[i]]
  BY DEF BanksOf, HighIo, LowRom
<1>2. ASSUME NEW i \in Page
      PROVE  \E b, o : BanksOf(lo, hi)[i] = Bank(b, o)
  <2>1. \/ i < 2 /\ lo = "rom"
        \/ i \in 26 .. 27 /\ hi = "io"
        \/ i > 27 /\ hi = "io"
        \/ (i >= 2 \/ lo = "ram") /\ (i < 26 \/ hi = "ram")
    BY DEF Page
  <2>2. QED
    BY <2>1, TableEntry
<1>3. \A b, o : Bank(b, o) = Bank(Bank(b, o).base, Bank(b, o).ofs)
  BY DEF Bank
<1>4. QED
  BY <1>1, <1>2, <1>3

(* Every entry of a table points into the buffer it belongs to.            *)
LEMMA EntryInBuffer ==
  ASSUME NEW lo \in {"rom", "ram"}, NEW hi \in {"io", "ram"}, NEW i \in Page,
         NEW e, e = BanksOf(lo, hi)[i]
  PROVE  /\ e.base \in Base /\ e.ofs \in Page
         /\ BaseStart(e.base) + e.ofs \in
              IF e.base = "MB_DUMMY" THEN 0 .. JunkPages - 1 ELSE 0 .. MemPages - 1
<1>. USE DEF Page, Base, BaseStart, MemPages, JunkPages, ROM_START, VID_START, RAM_START
<1>1. CASE i < 2 /\ lo = "rom"
  BY <1>1, TableEntry DEF Bank
<1>2. CASE i \in 26 .. 27 /\ hi = "io"
  BY <1>2, TableEntry DEF Bank
<1>3. CASE i > 27 /\ hi = "io"
  <2>1. e = Bank("MB_DUMMY", i % 2)
    BY <1>3, TableEntry
  <2>2. i % 2 \in 0 .. 1
    OBVIOUS
  <2>3. QED
    BY <2>1, <2>2 DEF Bank
<1>4. CASE (i >= 2 \/ lo = "ram") /\ (i < 26 \/ hi = "ram")
  <2>1. e = Bank("MB_RAM", i)
    BY <1>4, TableEntry
  <2>2. QED
    BY <2>1 DEF Bank
<1>5. QED
  BY <1>1, <1>2, <1>3, <1>4

CtrlType == [Page -> [base : Base, ofs : Page, attr : {0, 1, 2, 5}]]
PtrType == [Page -> [buf : {"mem"}, page : 0 .. MemPages - 1]
                      \cup [buf : {"junk"}, page : 0 .. JunkPages - 1]]
CtrlOf(banks) == [i \in Page |-> [base |-> banks[i].base, ofs |-> banks[i].ofs,
                                 attr |-> Attr(banks[i].base)]]
PtrOf(banks) == [i \in Page |-> [buf |-> BaseBuf(banks[i].base),
                                page |-> BaseStart(banks[i].base) + banks[i].ofs]]

(* What update_membank builds from one of the four tables is well typed,   *)
(* and the switches can be read back from it.                              *)
LEMMA BuiltTable ==
  ASSUME NEW lo \in {"rom", "ram"}, NEW hi \in {"io", "ram"},
         NEW banks, banks = BanksOf(lo, hi)
  PROVE  /\ (IF CtrlOf(banks)[0].base = "MB_ROM1" THEN "rom" ELSE "ram") = lo
         /\ (IF CtrlOf(banks)[26].base = "MB_VRAM" THEN "io" ELSE "ram") = hi
         /\ CtrlOf(banks) \in CtrlType
         /\ PtrOf(banks) \in PtrType
<1>1. /\ (IF CtrlOf(banks)[0].base = "MB_ROM1" THEN "rom" ELSE "ram") = lo
      /\ (IF CtrlOf(banks)[26].base = "MB_VRAM" THEN "io" ELSE "ram") = hi
  <2>1. CtrlOf(banks)[0].base = banks[0].base /\ CtrlOf(banks)[26].base = banks[26].base
    BY DEF CtrlOf, Page
  <2>2. banks[0].base = IF lo = "rom" THEN "MB_ROM1" ELSE "MB_RAM"
    BY TableEntry DEF Page, Bank
  <2>3. banks[26].base = IF hi = "io" THEN "MB_VRAM" ELSE "MB_RAM"
    BY TableEntry DEF Page, Bank
  <2>4. QED
    BY <2>1, <2>2, <2>3
<1>2. ASSUME NEW i \in Page
      PROVE  /\ banks[i].base \in Base /\ banks[i].ofs \in Page
             /\ BaseStart(banks[i].base) + banks[i].ofs \in
                  IF banks[i].base = "MB_DUMMY" THEN 0 .. JunkPages - 1 ELSE 0 .. MemPages - 1
  BY EntryInBuffer
<1>3. CtrlOf(banks) \in CtrlType
  BY <1>2 DEF CtrlOf, CtrlType, Base, Attr
<1>4. PtrOf(banks) \in PtrType
  BY <1>2 DEF PtrOf, PtrType, BaseBuf
<1>5. QED
  BY <1>1, <1>3, <1>4

----------------------------------------------------------------------------
(* The two switches of the memory map have the values the ports give them. *)
LEMMA SwitchTypes == LoMem \in {"rom", "ram"} /\ HiMem \in {"io", "ram"}
  BY DEF LoMem, HiMem

(* The bank entries are those of the two switches.                         *)
LEMMA BanksOfSwitches == BankTable => Banks = BanksOf(LoMem, HiMem)
<1>. SUFFICES ASSUME BankTable PROVE Banks = BanksOf(LoMem, HiMem)
  OBVIOUS
<1>1. ASSUME NEW i \in Page
      PROVE  Bank(memctrl[i].base, memctrl[i].ofs) =
               Bank(BanksOf(LoMem, HiMem)[i].base, BanksOf(LoMem, HiMem)[i].ofs)
  <2>. DEFINE e == BanksOf(LoMem, HiMem)[i]
  <2>1. memctrl[i] = [base |-> e.base, ofs |-> e.ofs, attr |-> Attr(e.base)]
    BY Zenon DEF BankTable
  <2>. HIDE DEF e
  <2>2. memctrl[i].base = e.base /\ memctrl[i].ofs = e.ofs
    BY <2>1
  <2>3. QED
    BY <2>2 DEF e
<1>2. QED
  BY <1>1, SwitchTypes, TableFunction DEF Banks

(* Each OUT sets the switches it is for and leaves the other as it was.    *)
LEMMA SwitchedTable ==
  ASSUME NEW lo \in {"rom", "ram"}, NEW hi \in {"io", "ram"}, Banks = BanksOf(lo, hi)
  PROVE  /\ Switched(224) = BanksOf("ram", hi)
         /\ Switched(225) = BanksOf(lo, "ram")
         /\ Switched(226) = BanksOf("rom", hi)
         /\ Switched(227) = BanksOf(lo, "io")
         /\ Switched(228) = BanksOf("rom", "io")
<1>. DEFINE T(l, h) == BanksOf(l, h)
<1>1. LowRam(T(lo, hi)) = T("ram", hi)
  <2>1. \A i \in Page : LowRam(T(lo, hi))[i] = T("ram", hi)[i]
    BY TableEntry DEF LowRam, Page
  <2>2. QED
    BY <2>1, TableFunction DEF LowRam
<1>2. HighRam(T(lo, hi)) = T(lo, "ram")
  <2>1. \A i \in Page : HighRam(T(lo, hi))[i] = T(lo, "ram")[i]
    BY TableEntry DEF HighRam, Page
  <2>2. QED
    BY <2>1, TableFunction DEF HighRam
<1>3. LowRom(T(lo, hi)) = T("rom", hi)
  <2>1. \A i \in Page : LowRom(T(lo, hi))[i] = T("rom", hi)[i]
    BY TableEntry DEF LowRom, Page
  <2>2. QED
    BY <2>1, TableFunction DEF LowRom
<1>4. \A l \in {"rom", "ram"} : HighIo(T(l, hi)) = T(l, "io")
  <2>1. \A l \in {"rom", "ram"}, i \in Page : HighIo(T(l, hi))[i] = T(l, "io")[i]
    BY TableEntry DEF HighIo, Page
  <2>2. QED
    BY <2>1, TableFunction DEF HighIo
<1>5. QED
  BY <1>1, <1>2, <1>3, <1>4 DEF Switched

----------------------------------------------------------------------------
(* The table part of the invariant, in terms of what update_membank does.  *)
LEMMA TableOfBuild ==
  ASSUME NEW lo \in {"rom", "ram"}, NEW hi \in {"io", "ram"},
         memctrl = CtrlOf(BanksOf(lo, hi)), memptr = PtrOf(BanksOf(lo, hi))
  PROVE  BankTable /\ LoMem = lo /\ HiMem = hi
<1>1. LoMem = lo /\ HiMem = hi
  BY BuiltTable DEF LoMem, HiMem
<1>2. QED
  BY <1>1 DEF BankTable, CtrlOf, PtrOf

(* After update_membank the tables are those of the switches.              *)
LEMMA TableOfBuildNext ==
  ASSUME NEW lo \in {"rom", "ram"}, NEW hi \in {"io", "ram"},
         update_membank(BanksOf(lo, hi))
  PROVE  /\ BankTable' /\ LoMem' = lo /\ HiMem' = hi
         /\ memctrl' \in CtrlType /\ memptr' \in PtrType
<1>1. memctrl' = CtrlOf(BanksOf(lo, hi)) /\ memptr' = PtrOf(BanksOf(lo, hi))
  BY DEF update_membank, CtrlOf, PtrOf
<1>2. LoMem' = lo /\ HiMem' = hi
  BY <1>1, BuiltTable DEF LoMem, HiMem
<1>3. BankTable'
  BY <1>1, <1>2 DEF BankTable, CtrlOf, PtrOf
<1>4. QED
  BY <1>1, <1>2, <1>3, BuiltTable

(* Where page p points, by the setting of the two switches.                *)
LEMMA PagePointer ==
  ASSUME BankTable, NEW p \in Page
  PROVE  /\ p < 2 /\ LoMem = "rom" =>
              memctrl[p].attr = 0 /\ memptr[p].page = ROM_START + p
         /\ p \in 26 .. 27 /\ HiMem = "io" =>
              memctrl[p].attr = 5 /\ memptr[p].page = VID_START + (p - 26)
         /\ p > 27 /\ HiMem = "io" => memctrl[p].attr = 2
         /\ (p >= 2 \/ LoMem = "ram") /\ (p < 26 \/ HiMem = "ram") =>
              memctrl[p].attr = 1 /\ memptr[p].page = RAM_START + p
<1>. DEFINE e == BanksOf(LoMem, HiMem)[p]
<1>1. /\ memctrl[p] = [base |-> e.base, ofs |-> e.ofs, attr |-> Attr(e.base)]
      /\ memptr[p] = [buf |-> BaseBuf(e.base), page |-> BaseStart(e.base) + e.ofs]
  BY Zenon DEF BankTable
<1>2. /\ p < 2 /\ LoMem = "rom" => e = Bank("MB_ROM1", p)
      /\ p \in 26 .. 27 /\ HiMem = "io" => e = Bank("MB_VRAM", p - 26)
      /\ p > 27 /\ HiMem = "io" => e = Bank("MB_DUMMY", p % 2)
      /\ (p >= 2 \/ LoMem = "ram") /\ (p < 26 \/ HiMem = "ram") => e = Bank("MB_RAM", p)
  BY TableEntry, SwitchTypes
<1>. HIDE DEF e
<1>3. memctrl[p].attr = Attr(e.base) /\ memptr[p].page = BaseStart(e.base) + e.ofs
  BY <1>1
<1>4. QED
  BY <1>2, <1>3 DEF Bank, Attr, BaseStart

(* What a page can be: ROM, video RAM, the memory-mapped devices or RAM,   *)
(* each with the banks of its region.                                      *)
LEMMA PageKind ==
  ASSUME BankTable, NEW p \in Page
  PROVE  \/ memctrl[p].attr = 0 /\ memptr[p].page \in 0 .. 1
         \/ memctrl[p].attr = 5 /\ memptr[p].page \in 5 .. 6
         \/ memctrl[p].attr = 2
         \/ memctrl[p].attr = 1 /\ memptr[p].page \in 7 .. 38
<1>1. \/ p < 2 /\ LoMem = "rom"
      \/ p \in 26 .. 27 /\ HiMem = "io"
      \/ p > 27 /\ HiMem = "io"
      \/ (p >= 2 \/ LoMem = "ram") /\ (p < 26 \/ HiMem = "ram")
  BY SwitchTypes DEF Page
<1>2. QED
  BY <1>1, PagePointer DEF Page, ROM_START, VID_START, RAM_START

(* The bits of the attributes that Z80_RDMEM and Z80_WRMEM test.           *)
LEMMA AttrBits ==
  /\ ~DeviceBit(0) /\ ~DeviceBit(1) /\ DeviceBit(2) /\ ~DeviceBit(5)
  /\ ~VideoBit(0) /\ ~VideoBit(1) /\ ~VideoBit(2) /\ VideoBit(5)
  BY DEF DeviceBit, VideoBit

----------------------------------------------------------------------------
Memory(m) == m \in [0 .. MemPages - 1 -> [Offset -> Byte]]

(* Clearing never reaches the first page of the ROM.                       *)
LEMMA ClearedKeepsRom ==
  ASSUME NEW m, NEW mode, Memory(m)
  PROVE  Memory(Cleared(m, mode)) /\ set_mztype(Cleared(m, mode)) = set_mztype(m)
<1>. USE MemAssumption DEF Memory, Offset, MemPages, ROM_START, VID_START, RAM_START
<1>1. ASSUME NEW b \in 0 .. MemPages - 1, NEW o \in Offset
      PROVE  Cleared(m, mode)[b][o] \in {m[b][o], Zero, White}
  BY DEF Cleared
<1>2. Memory(Cleared(m, mode))
  BY <1>1 DEF Cleared
<1>3. Cleared(m, mode)[0][0] = m[0][0]
  <2>1. 0 \in 0 .. MemPages - 1 /\ 0 \in Offset
    OBVIOUS
  <2>2. ~(0 = RAM_START + 2) /\ ~(0 = VID_START) /\ ~(0 = VID_START + 1)
    OBVIOUS
  <2>3. QED
    BY <2>1, <2>2 DEF Cleared
<1>4. QED
  BY <1>2, <1>3 DEF set_mztype

(* A ROM file read at the start fills its bank with bytes.                 *)
LEMMA RomFileType ==
  ASSUME NEW m, NEW n \in 0 .. 2, NEW v \in Byte, Memory(m)
  PROVE  Memory(RomFile(m, n, v))
  BY DEF Memory, RomFile, Offset, MemPages

(* mz_reset writes out by hand the table update_membank would build.       *)
LEMMA ResetBanksTable == ResetBanks = BanksOf("rom", "io")
  BY DEF ResetBanks, BanksOf

----------------------------------------------------------------------------
(* The invariant holds at power-on.                                        *)
LEMMA InitIInv == Init => IInv
<1>. SUFFICES ASSUME Init PROVE IInv
  OBVIOUS
<1>1. memctrl = CtrlOf(BanksOf("rom", "io")) /\ memptr = PtrOf(BanksOf("rom", "io"))
  BY ResetBanksTable DEF Init, CtrlOf, PtrOf
<1>2. BankTable /\ memctrl \in CtrlType /\ memptr \in PtrType
  BY <1>1, BuiltTable, TableOfBuild
<1>. DEFINE empty == [b \in 0 .. MemPages - 1 |-> [o \in Offset |-> Unset]]
<1>3. PICK v \in Byte :
        /\ mem = Cleared(RomFile(empty, 2, v), IF v \in Rom700 THEN 700 ELSE 80)
        /\ mzMode = IF v \in Rom700 THEN 700 ELSE 80
  BY DEF Init
<1>4. Memory(empty)
  BY MemAssumption DEF Memory
<1>5. Memory(RomFile(empty, 2, v))
  BY <1>4, RomFileType
<1>6. set_mztype(RomFile(empty, 2, v)) = mzMode
  BY <1>3, MemAssumption DEF set_mztype, RomFile, ROM_START, MemPages, Offset
<1>. HIDE DEF empty
<1>7. Memory(mem) /\ set_mztype(mem) = mzMode
  BY <1>3, <1>5, <1>6, ClearedKeepsRom
<1>8. cmt_tstates = 0 /\ bus \in [val : Byte \cup {Mmio}, wait : {0, 1, 42}]
  BY MemAssumption DEF Init
<1>9. QED
  BY <1>2, <1>3, <1>7, <1>8 DEF IInv, TypeOK, TypeMatchesRom, Memory, CtrlType, PtrType

(* Every access, port and reset keeps the invariant.                       *)
LEMMA NextIInv == IInv /\ [Next]_vars => IInv'
<1>. SUFFICES ASSUME IInv, [Next]_vars PROVE IInv'
  OBVIOUS
<1>. USE DEF IInv, TypeOK, Memory, CtrlType, PtrType
<1>1. ASSUME NEW port \in 224 .. 228, Z80_Out(port) PROVE IInv'
  <2>1. Banks = BanksOf(LoMem, HiMem)
    BY BanksOfSwitches
  <2>2. PICK lo \in {"rom", "ram"}, hi \in {"io", "ram"} : Switched(port) = BanksOf(lo, hi)
    <3>1. port \in {224, 225, 226, 227, 228}
      BY <1>1
    <3>2. QED
      BY <2>1, <3>1, SwitchedTable, SwitchTypes
  <2>3. BankTable' /\ memctrl' \in CtrlType /\ memptr' \in PtrType
    BY <1>1, <2>2, TableOfBuildNext DEF Z80_Out
  <2>4. QED
    BY <1>1, <2>3 DEF Z80_Out, TypeMatchesRom, set_mztype
<1>2. ASSUME NEW p \in Accessed, NEW o \in Offset, Z80_RDMEM(p, o) PROVE IInv'
  <2>1. p \in Page
    BY MemAssumption DEF Page
  <2>2. bus' \in [val : Byte \cup {Mmio}, wait : {0, 1, 42}]
    <3>1. DeviceBit(memctrl[p].attr) \/ mem[memptr[p].page][o] \in Byte
      BY <2>1, PageKind, AttrBits DEF MemPages
    <3>2. QED
      BY <1>2, <2>1, <3>1, PageKind, AttrBits DEF Z80_RDMEM
  <2>3. QED
    BY <1>2, <2>2 DEF Z80_RDMEM, BankTable, LoMem, HiMem, TypeMatchesRom, set_mztype
<1>3. ASSUME NEW p \in Accessed, NEW o \in Offset, NEW v \in Byte, Z80_WRMEM(p, o, v) PROVE IInv'
  <2>1. p \in Page
    BY MemAssumption DEF Page
  <2>2. bus' \in [val : Byte \cup {Mmio}, wait : {0, 1, 42}]
    BY <1>3 DEF Z80_WRMEM
  <2>3. Memory(mem') /\ mem'[0] = mem[0]
    <3>1. \/ mem' = mem
          \/ memptr[p].page \in 1 .. MemPages - 1 /\ mem' = [mem EXCEPT ![memptr[p].page][o] = v]
      BY <1>3, <2>1, PageKind, AttrBits DEF Z80_WRMEM, MemPages
    <3>2. CASE mem' = mem
      BY <3>2
    <3>3. CASE memptr[p].page \in 1 .. MemPages - 1 /\ mem' = [mem EXCEPT ![memptr[p].page][o] = v]
      <4>1. mem[memptr[p].page] \in [Offset -> Byte]
        BY <3>3
      <4>2. QED
        BY <3>3, <4>1 DEF MemPages
    <3>4. QED
      BY <3>1, <3>2, <3>3
  <2>4. QED
    BY <1>3, <2>2, <2>3 DEF Z80_WRMEM, BankTable, LoMem, HiMem, TypeMatchesRom, set_mztype, ROM_START
<1>4. ASSUME NEW n \in 0 .. 2, NEW v \in Byte, LoadRomAndReset(n, v) PROVE IInv'
  <2>1. BankTable' /\ memctrl' \in CtrlType /\ memptr' \in PtrType
    BY <1>4, ResetBanksTable, TableOfBuildNext DEF LoadRomAndReset
  <2>2. Memory(RomFile(mem, n, v))
    BY RomFileType
  <2>3. Memory(mem') /\ set_mztype(mem') = mzMode'
    BY <1>4, <2>2, ClearedKeepsRom DEF LoadRomAndReset
  <2>4. mzMode' \in {80, 700}
    BY <1>4 DEF LoadRomAndReset, set_mztype
  <2>5. TypeMatchesRom'
    BY <2>3 DEF TypeMatchesRom, set_mztype
  <2>6. QED
    BY <1>4, <2>1, <2>3, <2>4, <2>5 DEF LoadRomAndReset
<1>5. ASSUME NEW i \in Images, NEW v \in Byte, setMztToMemory(i[1], i[2], v) PROVE IInv'
  <2>1. Memory(mem') /\ mem'[0] = mem[0]
    <3>1. ASSUME NEW b \in 0 .. MemPages - 1, NEW x \in Offset
          PROVE  mem'[b][x] \in {v, mem[b][x]} /\ (b = 0 => mem'[b][x] = mem[b][x])
      BY <1>5 DEF setMztToMemory, RAM_START
    <3>2. Memory(mem')
      BY <1>5, <3>1 DEF setMztToMemory
    <3>3. mem'[0] = mem[0]
      BY <3>1, <3>2 DEF MemPages
    <3>4. QED
      BY <3>2, <3>3
  <2>2. QED
    BY <1>5, <2>1 DEF setMztToMemory, BankTable, LoMem, HiMem, TypeMatchesRom, set_mztype, ROM_START
<1>6. CASE TapeStartsOrStops
  BY <1>6 DEF TapeStartsOrStops, BankTable, LoMem, HiMem, TypeMatchesRom, set_mztype
<1>7. CASE UNCHANGED vars
  BY <1>7 DEF vars, BankTable, LoMem, HiMem, TypeMatchesRom, set_mztype
<1>8. QED
  BY <1>1, <1>2, <1>3, <1>4, <1>5, <1>6, <1>7 DEF Next

(* The page table is one of four and its pointers stay in their buffers;   *)
(* the cached machine type matches the ROM.                                *)
THEOREM Invariance == Spec => []IInv
  BY InitIInv, NextIInv, PTL DEF Spec

(* Types, with every page pointer inside its buffer (TypeOK).              *)
THEOREM TypeCorrect == Spec => []TypeOK
  BY Invariance, PTL DEF IInv

(* No attribute or pointer is left from an earlier bank setting.           *)
THEOREM TableCorrect == Spec => []BankTable
  BY Invariance, PTL DEF IInv

(* The cached machine type matches the ROM in the buffer.                  *)
THEOREM TypeFollowsRom == Spec => []TypeMatchesRom
  BY Invariance, PTL DEF IInv

----------------------------------------------------------------------------
(* Refinement: the three memories are the regions of the flat buffer.      *)
Rom == Region(ROM_START, 2)
Vram == Region(VID_START, 2)
Ram == Region(RAM_START, 32)

(* The three regions of the banked memory, cut out of the array mem.       *)
LEMMA Regions ==
  /\ Rom = [i \in 0 .. 1 |-> mem[i]]
  /\ Vram = [i \in 0 .. 1 |-> mem[5 + i]]
  /\ Ram = [i \in 0 .. 31 |-> mem[7 + i]]
<1>1. \A i \in 0 .. 1 : 0 + i = i
  OBVIOUS
<1>2. QED
  BY <1>1 DEF Rom, Vram, Ram, Region, ROM_START, VID_START, RAM_START

(* Each region holds bytes at every offset.                                *)
LEMMA RegionTypes ==
  ASSUME NEW m, Memory(m)
  PROVE  /\ [i \in 0 .. 1 |-> m[i]] \in Banked!Memory(2)
         /\ [i \in 0 .. 1 |-> m[5 + i]] \in Banked!Memory(2)
         /\ [i \in 0 .. 31 |-> m[7 + i]] \in Banked!Memory(32)
<1>. DEFINE Cells == [Offset -> Byte]
<1>1. \A i \in 0 .. 38 : m[i] \in Cells
  BY DEF Memory, MemPages
<1>2. \A n : Banked!Memory(n) = [0 .. n - 1 -> Cells]
  BY DEF Banked!Memory, Banked!Offset, Offset
<1>. HIDE DEF Cells
<1>3. \A i \in 0 .. 1 : m[i] \in Cells /\ m[5 + i] \in Cells
  BY <1>1
<1>4. \A i \in 0 .. 31 : m[7 + i] \in Cells
  BY <1>1
<1>5. 2 - 1 = 1 /\ 32 - 1 = 31
  OBVIOUS
<1>6. QED
  BY <1>2, <1>3, <1>4, <1>5

(* The memory at power-on is an initial banked memory.                     *)
LEMMA InitRefines == Init => Banked!Init
<1>. SUFFICES ASSUME Init PROVE Banked!Init
  OBVIOUS
<1>1. IInv
  BY InitIInv
<1>2. LoMem = "rom" /\ HiMem = "io"
  <2>1. memctrl = CtrlOf(BanksOf("rom", "io")) /\ memptr = PtrOf(BanksOf("rom", "io"))
    BY ResetBanksTable DEF Init, CtrlOf, PtrOf
  <2>2. QED
    BY <2>1, TableOfBuild
<1>3. Memory(mem)
  BY <1>1 DEF IInv, TypeOK, Memory
<1>4. mzMode = IF Rom[0][0] \in Rom700 THEN 700 ELSE 80
  BY <1>1, Regions DEF IInv, TypeMatchesRom, set_mztype, ROM_START
<1>5. cmt_tstates = 0 /\ bus = [val |-> Zero, wait |-> 0]
  BY DEF Init
<1>6. QED
  BY <1>2, <1>3, <1>4, <1>5, Regions, RegionTypes DEF Banked!Init, Rom, Vram, Ram

(* Which memory answers, seen from both sides.                             *)
LEMMA SelectedPage ==
  ASSUME IInv, NEW p \in Page
  PROVE  \/ /\ Banked!Selected(p) = "rom" /\ p \in 0 .. 1
            /\ memctrl[p].attr = 0 /\ memptr[p].page = p
         \/ /\ Banked!Selected(p) = "vram" /\ p \in 26 .. 27
            /\ memctrl[p].attr = 5 /\ memptr[p].page = 5 + (p - 26)
         \/ /\ Banked!Selected(p) = "mmio" /\ memctrl[p].attr = 2
         \/ /\ Banked!Selected(p) = "ram" /\ memctrl[p].attr = 1 /\ memptr[p].page = 7 + p
<1>. USE DEF Page, ROM_START, VID_START, RAM_START
<1>. BankTable
  BY DEF IInv
<1>1. CASE p < 2 /\ LoMem = "rom"
  BY <1>1, PagePointer DEF Banked!Selected
<1>2. CASE p \in 26 .. 27 /\ HiMem = "io"
  <2>1. ~(p < 2)
    BY <1>2
  <2>2. QED
    BY <1>2, <2>1, PagePointer DEF Banked!Selected
<1>3. CASE p > 27 /\ HiMem = "io"
  <2>1. ~(p < 2) /\ ~(p \in 26 .. 27)
    BY <1>3
  <2>2. QED
    BY <1>3, <2>1, PagePointer DEF Banked!Selected
<1>4. CASE (p >= 2 \/ LoMem = "ram") /\ (p < 26 \/ HiMem = "ram")
  <2>1. ~(p < 2 /\ LoMem = "rom") /\ ~(p \in 26 .. 27 /\ HiMem = "io") /\ ~(p > 27 /\ HiMem = "io")
    BY <1>4
  <2>2. QED
    BY <1>4, <2>1, PagePointer DEF Banked!Selected
<1>5. QED
  BY <1>1, <1>2, <1>3, <1>4, SwitchTypes

(* A step of the page table is a step of the abstract memories.            *)
LEMMA ReadRefines ==
  ASSUME IInv, NEW p \in Page, NEW o \in Offset, Z80_RDMEM(p, o)
  PROVE  Banked!Read(p, o)
<1>1. /\ Rom' = Rom /\ Vram' = Vram /\ Ram' = Ram
      /\ LoMem' = LoMem /\ HiMem' = HiMem /\ UNCHANGED <<mzMode, cmt_tstates>>
  BY DEF Z80_RDMEM, Rom, Vram, Ram, Region, LoMem, HiMem
<1>2. cmt_tstates \in {0, 1}
  BY DEF IInv, TypeOK
<1>3. bus' = [val |-> Banked!Seen(p, o), wait |-> Banked!Wait(p)]
  <2>1. CASE /\ Banked!Selected(p) = "rom" /\ p \in 0 .. 1
             /\ memctrl[p].attr = 0 /\ memptr[p].page = p
    <3>1. bus' = [val |-> mem[p][o], wait |-> IF cmt_tstates # 0 THEN 0 ELSE 1]
      BY <2>1, AttrBits DEF Z80_RDMEM
    <3>2. Banked!Seen(p, o) = mem[p][o]
      BY <2>1, Regions DEF Banked!Seen, Rom
    <3>3. Banked!Wait(p) = IF cmt_tstates # 0 THEN 0 ELSE 1
      BY <2>1, <1>2 DEF Banked!Wait
    <3>4. QED
      BY <3>1, <3>2, <3>3
  <2>2. CASE /\ Banked!Selected(p) = "vram" /\ p \in 26 .. 27
             /\ memctrl[p].attr = 5 /\ memptr[p].page = 5 + (p - 26)
    <3>1. bus' = [val |-> mem[5 + (p - 26)][o], wait |-> IF cmt_tstates # 0 THEN 0 ELSE 42]
      BY <2>2, AttrBits DEF Z80_RDMEM
    <3>2. Banked!Seen(p, o) = mem[5 + (p - 26)][o]
      BY <2>2, Regions DEF Banked!Seen, Vram
    <3>3. Banked!Wait(p) = IF cmt_tstates # 0 THEN 0 ELSE 42
      BY <2>2, <1>2 DEF Banked!Wait
    <3>4. QED
      BY <3>1, <3>2, <3>3
  <2>3. CASE Banked!Selected(p) = "mmio" /\ memctrl[p].attr = 2
    <3>1. bus' = [val |-> Mmio, wait |-> 0]
      BY <2>3, AttrBits DEF Z80_RDMEM
    <3>2. Banked!Seen(p, o) = Mmio
      BY <2>3 DEF Banked!Seen
    <3>3. Banked!Wait(p) = 0
      BY <2>3, <1>2 DEF Banked!Wait
    <3>4. QED
      BY <3>1, <3>2, <3>3
  <2>4. CASE Banked!Selected(p) = "ram" /\ memctrl[p].attr = 1 /\ memptr[p].page = 7 + p
    <3>1. bus' = [val |-> mem[7 + p][o], wait |-> 0]
      BY <2>4, AttrBits DEF Z80_RDMEM
    <3>2. Banked!Seen(p, o) = mem[7 + p][o]
      BY <2>4, Regions DEF Banked!Seen, Ram, Page
    <3>3. Banked!Wait(p) = 0
      BY <2>4, <1>2 DEF Banked!Wait
    <3>4. QED
      BY <3>1, <3>2, <3>3
  <2>5. QED
    BY <2>1, <2>2, <2>3, <2>4, SelectedPage
<1>4. QED
  BY <1>1, <1>3 DEF Banked!Read, Rom, Vram, Ram

(* The regions after a step, in terms of the buffer after it.              *)
LEMMA RegionsNext ==
  /\ Rom' = [i \in 0 .. 1 |-> mem'[i]]
  /\ Vram' = [i \in 0 .. 1 |-> mem'[5 + i]]
  /\ Ram' = [i \in 0 .. 31 |-> mem'[7 + i]]
<1>1. \A i \in 0 .. 1 : 0 + i = i
  OBVIOUS
<1>2. QED
  BY <1>1 DEF Rom, Vram, Ram, Region, ROM_START, VID_START, RAM_START

Store(m, k, o, v) == [m EXCEPT ![k][o] = v]

(* A store to one cell of the buffer shows in one region only.             *)
LEMMA RegionStore ==
  ASSUME Memory(mem), NEW k \in 0 .. 38, NEW o \in Offset, NEW v,
         mem' = Store(mem, k, o, v)
  PROVE  /\ k \in 5 .. 6 => /\ Vram' = Store(Vram, k - 5, o, v)
                            /\ Rom' = Rom /\ Ram' = Ram
         /\ k \in 7 .. 38 => /\ Ram' = Store(Ram, k - 7, o, v)
                             /\ Rom' = Rom /\ Vram' = Vram
<1>. DEFINE row == [mem[k] EXCEPT ![o] = v]
<1>1. mem' = [mem EXCEPT ![k] = row] /\ DOMAIN mem = 0 .. 38
  BY DEF Memory, MemPages, Store
<1>2. \A i \in 0 .. 38 : mem'[i] = IF i = k THEN row ELSE mem[i]
  BY <1>1
<1>3. ASSUME k \in 5 .. 6
      PROVE  Vram' = Store(Vram, k - 5, o, v) /\ Rom' = Rom /\ Ram' = Ram
  <2>1. Rom' = Rom /\ Ram' = Ram
    <3>1. \A i \in 0 .. 1 : mem'[i] = mem[i]
      BY <1>2, <1>3
    <3>2. \A i \in 0 .. 31 : mem'[7 + i] = mem[7 + i]
      BY <1>2, <1>3
    <3>3. QED
      BY <3>1, <3>2, Regions, RegionsNext
  <2>2. \A i \in 0 .. 1 : mem'[5 + i] = IF i = k - 5 THEN row ELSE mem[5 + i]
    BY <1>2, <1>3
  <2>3. k - 5 \in 0 .. 1 /\ 5 + (k - 5) = k
    BY <1>3
  <2>4. Vram[k - 5] = mem[k]
    BY <2>3, Regions
  <2>5. Vram' = [Vram EXCEPT ![k - 5] = row]
    <3>. HIDE DEF row
    <3>1. QED
      BY <2>2, <2>3, Regions, RegionsNext
  <2>6. QED
    BY <2>1, <2>4, <2>5 DEF Store
<1>4. ASSUME k \in 7 .. 38
      PROVE  Ram' = Store(Ram, k - 7, o, v) /\ Rom' = Rom /\ Vram' = Vram
  <2>1. Rom' = Rom /\ Vram' = Vram
    <3>1. \A i \in 0 .. 1 : mem'[i] = mem[i] /\ mem'[5 + i] = mem[5 + i]
      BY <1>2, <1>4
    <3>2. QED
      BY <3>1, Regions, RegionsNext
  <2>2. \A i \in 0 .. 31 : mem'[7 + i] = IF i = k - 7 THEN row ELSE mem[7 + i]
    BY <1>2, <1>4
  <2>3. k - 7 \in 0 .. 31 /\ 7 + (k - 7) = k
    BY <1>4
  <2>4. Ram[k - 7] = mem[k]
    BY <2>3, Regions
  <2>5. Ram' = [Ram EXCEPT ![k - 7] = row]
    <3>. HIDE DEF row
    <3>1. QED
      BY <2>2, <2>3, Regions, RegionsNext
  <2>6. QED
    BY <2>1, <2>4, <2>5 DEF Store
<1>5. QED
  BY <1>3, <1>4

(* A write through the tables is a write to the bank the switches select,  *)
(* or to none.                                                             *)
LEMMA WriteRefines ==
  ASSUME IInv, NEW p \in Page, NEW o \in Offset, NEW v \in Byte, Z80_WRMEM(p, o, v)
  PROVE  Banked!Write(p, o, v)
<1>1. LoMem' = LoMem /\ HiMem' = HiMem /\ UNCHANGED <<mzMode, cmt_tstates>>
  BY DEF Z80_WRMEM, LoMem, HiMem
<1>2. cmt_tstates \in {0, 1} /\ Memory(mem)
  BY DEF IInv, TypeOK, Memory
<1>3. /\ bus' = [val |-> v, wait |-> IF Banked!Selected(p) = "vram" THEN Banked!Wait(p) ELSE 0]
      /\ Vram' = IF Banked!Selected(p) = "vram" THEN [Vram EXCEPT ![p - 26][o] = v] ELSE Vram
      /\ Ram' = IF Banked!Selected(p) = "ram" THEN [Ram EXCEPT ![p][o] = v] ELSE Ram
      /\ Rom' = Rom
  <2>1. CASE Banked!Selected(p) = "rom" /\ memctrl[p].attr = 0
    <3>1. bus' = [val |-> v, wait |-> 0] /\ mem' = mem
      BY <2>1, AttrBits DEF Z80_WRMEM
    <3>2. QED
      BY <2>1, <3>1, Regions, RegionsNext
  <2>2. CASE /\ Banked!Selected(p) = "vram" /\ p \in 26 .. 27
             /\ memctrl[p].attr = 5 /\ memptr[p].page = 5 + (p - 26)
    <3>1. PICK k \in 5 .. 6 : k = 5 + (p - 26)
      BY <2>2
    <3>2. /\ bus' = [val |-> v, wait |-> IF cmt_tstates = 0 THEN 42 ELSE 0]
          /\ mem' = Store(mem, k, o, v)
      BY <2>2, <3>1, AttrBits DEF Z80_WRMEM, Store
    <3>3. Banked!Wait(p) = IF cmt_tstates = 0 THEN 42 ELSE 0
      BY <2>2, <1>2 DEF Banked!Wait
    <3>4. k \in 0 .. 38 /\ k - 5 = p - 26
      BY <3>1, <2>2
    <3>5. Vram' = Store(Vram, k - 5, o, v) /\ Rom' = Rom /\ Ram' = Ram
      BY <1>2, <3>1, <3>2, <3>4, RegionStore
    <3>6. QED
      BY <2>2, <3>2, <3>3, <3>4, <3>5 DEF Store
  <2>3. CASE Banked!Selected(p) = "mmio" /\ memctrl[p].attr = 2
    <3>1. bus' = [val |-> v, wait |-> 0] /\ mem' = mem
      BY <2>3, AttrBits DEF Z80_WRMEM
    <3>2. QED
      BY <2>3, <3>1, Regions, RegionsNext
  <2>4. CASE Banked!Selected(p) = "ram" /\ memctrl[p].attr = 1 /\ memptr[p].page = 7 + p
    <3>1. PICK k \in 7 .. 38 : k = 7 + p
      BY DEF Page
    <3>2. /\ bus' = [val |-> v, wait |-> 0]
          /\ mem' = Store(mem, k, o, v)
      BY <2>4, <3>1, AttrBits DEF Z80_WRMEM, Store
    <3>3. k \in 0 .. 38 /\ k - 7 = p
      BY <3>1 DEF Page
    <3>4. Ram' = Store(Ram, k - 7, o, v) /\ Rom' = Rom /\ Vram' = Vram
      BY <1>2, <3>1, <3>2, <3>3, RegionStore
    <3>5. QED
      BY <2>4, <3>2, <3>3, <3>4 DEF Store
  <2>5. QED
    BY <2>1, <2>2, <2>3, <2>4, SelectedPage
<1>4. QED
  BY <1>1, <1>3 DEF Banked!Write, Rom, Vram, Ram

(* An OUT moves one of the switches, or both back.                         *)
LEMMA SwitchRefines ==
  ASSUME IInv, NEW port \in 224 .. 228, Z80_Out(port)
  PROVE  \E l \in {"rom", "ram"}, h \in {"io", "ram"} : Banked!Switch(l, h)
<1>1. Rom' = Rom /\ Vram' = Vram /\ Ram' = Ram /\ UNCHANGED <<mzMode, cmt_tstates, bus>>
  BY DEF Z80_Out, Rom, Vram, Ram, Region
<1>2. LoMem' \in {"rom", "ram"} /\ HiMem' \in {"io", "ram"}
  BY DEF LoMem, HiMem
<1>3. QED
  BY <1>1, <1>2 DEF Banked!Switch, Rom, Vram, Ram

(* The tape's start and stop leave the memory and the map alone.           *)
LEMMA TapeRefines ==
  ASSUME IInv, TapeStartsOrStops
  PROVE  Banked!Tape
<1>1. Rom' = Rom /\ Vram' = Vram /\ Ram' = Ram /\ LoMem' = LoMem /\ HiMem' = HiMem
  BY DEF TapeStartsOrStops, Rom, Vram, Ram, Region, LoMem, HiMem
<1>2. cmt_tstates' \in {0, 1}
  BY DEF TapeStartsOrStops, IInv, TypeOK
<1>3. QED
  BY <1>1, <1>2 DEF TapeStartsOrStops, Banked!Tape, Rom, Vram, Ram

(* An image reaches RAM only: ROM and video RAM keep every cell.           *)
LEMMA LoadRefines ==
  ASSUME IInv, IInv', NEW first, NEW size, NEW v, setMztToMemory(first, size, v)
  PROVE  Banked!Load
<1>1. LoMem' = LoMem /\ HiMem' = HiMem /\ UNCHANGED <<mzMode, cmt_tstates, bus>>
  BY DEF setMztToMemory, LoMem, HiMem
<1>2. Memory(mem) /\ Memory(mem')
  BY DEF IInv, TypeOK, Memory
<1>3. ASSUME NEW b \in 0 .. 6 PROVE mem'[b] = mem[b]
  <2>1. \A o \in Offset : mem'[b][o] = mem[b][o]
    BY DEF setMztToMemory, RAM_START, MemPages
  <2>2. mem[b] \in [Offset -> Byte] /\ mem'[b] \in [Offset -> Byte]
    BY <1>2 DEF Memory, MemPages
  <2>3. QED
    BY <2>1, <2>2
<1>4. Rom' = Rom /\ Vram' = Vram
  <2>1. \A i \in 0 .. 1 : mem'[i] = mem[i] /\ mem'[5 + i] = mem[5 + i]
    BY <1>3
  <2>2. QED
    BY <2>1, Regions, RegionsNext
<1>5. Ram' \in Banked!Memory(32)
  BY <1>2, RegionTypes, RegionsNext
<1>6. QED
  BY <1>1, <1>4, <1>5 DEF Banked!Load, Rom, Vram, Ram

(* What a reset leaves in a cell above the ROM.                            *)
LEMMA ClearedCell ==
  ASSUME NEW m, NEW mode, NEW b \in 0 .. 38, NEW o \in Offset
  PROVE  /\ b = 9 /\ o < WorkClear => Cleared(m, mode)[b][o] = Zero
         /\ b = 5 /\ o < ScreenClear => Cleared(m, mode)[b][o] = Zero
         /\ b = 6 /\ o < ScreenClear =>
              Cleared(m, mode)[b][o] = IF mode = 700 THEN White ELSE Zero
         /\ ~(b = 9 /\ o < WorkClear) /\ ~(b \in 5 .. 6 /\ o < ScreenClear) =>
              Cleared(m, mode)[b][o] = m[b][o]
<1>. DEFINE white == IF mode = 700 THEN White ELSE Zero
<1>. HIDE DEF white
<1>1. Cleared(m, mode)[b][o] =
        CASE b = 9 /\ o < WorkClear -> Zero
          [] b = 5 /\ o < ScreenClear -> Zero
          [] b = 6 /\ o < ScreenClear -> white
          [] OTHER -> m[b][o]
  <2>1. RAM_START + 2 = 9 /\ VID_START = 5 /\ VID_START + 1 = 6 /\ 0 .. MemPages - 1 = 0 .. 38
    BY DEF RAM_START, VID_START, MemPages
  <2>2. QED
    BY <2>1, Zenon DEF Cleared, white
<1>2. QED
  BY <1>1 DEF white

(* A reset with another ROM clears what the abstract reset clears.         *)
LEMMA ResetRefines ==
  ASSUME IInv, IInv', NEW n \in 0 .. 2, NEW v \in Byte, LoadRomAndReset(n, v)
  PROVE  Banked!Reset
<1>1. LoMem' = "rom" /\ HiMem' = "io" /\ cmt_tstates' = 0 /\ bus' = bus
  BY ResetBanksTable, TableOfBuildNext DEF LoadRomAndReset
<1>2. Memory(mem) /\ Memory(mem')
  BY DEF IInv, TypeOK, Memory
<1>3. Rom' \in Banked!Memory(2)
  BY <1>2, RegionTypes, RegionsNext
<1>4. mzMode' = IF Rom'[0][0] \in Rom700 THEN 700 ELSE 80
  BY RegionsNext DEF IInv, TypeMatchesRom, set_mztype, ROM_START
<1>. DEFINE m == RomFile(mem, n, v)
<1>5. mem' = Cleared(m, mzMode') /\ \A b \in 2 .. 38 : m[b] = mem[b]
  BY DEF LoadRomAndReset, RomFile, MemPages
<1>. HIDE DEF m
<1>6. Ram' = [p \in 0 .. 31 |-> [o \in Offset |->
                IF p = 2 /\ o < WorkClear THEN Zero ELSE Ram[p][o]]]
  <2>1. ASSUME NEW p \in 0 .. 31
        PROVE  mem'[7 + p] = [o \in Offset |->
                 IF p = 2 /\ o < WorkClear THEN Zero ELSE Ram[p][o]]
    <3>1. PICK b \in 7 .. 38 : b = 7 + p
      OBVIOUS
    <3>2. b \in 0 .. 38 /\ ~(b \in 5 .. 6) /\ (b = 9 <=> p = 2) /\ Ram[p] = m[b]
      BY <1>5, <3>1, Regions
    <3>3. ASSUME NEW o \in Offset
          PROVE  mem'[b][o] = IF p = 2 /\ o < WorkClear THEN Zero ELSE Ram[p][o]
      BY <1>5, <3>2, ClearedCell
    <3>4. mem'[b] \in [Offset -> Byte]
      BY <1>2 DEF Memory, MemPages
    <3>5. QED
      BY <3>1, <3>3, <3>4
  <2>2. QED
    BY <2>1, RegionsNext
<1>7. Vram' = [p \in 0 .. 1 |-> [o \in Offset |->
                 CASE o >= ScreenClear -> Vram[p][o]
                   [] o < ScreenClear /\ p = 0 -> Zero
                   [] OTHER -> IF mzMode' = 700 THEN White ELSE Zero]]
  <2>. ScreenClear \in Nat /\ Offset \subseteq Nat
    BY MemAssumption DEF Offset
  <2>1. mem'[5 + 0] = [o \in Offset |->
          CASE o >= ScreenClear -> Vram[0][o]
            [] o < ScreenClear /\ 0 = 0 -> Zero
            [] OTHER -> IF mzMode' = 700 THEN White ELSE Zero]
    <3>1. ASSUME NEW o \in Offset
          PROVE  mem'[5][o] = IF o < ScreenClear THEN Zero ELSE m[5][o]
      BY <1>5, ClearedCell
    <3>2. Vram[0] = m[5] /\ mem'[5] \in [Offset -> Byte]
      BY <1>2, <1>5, Regions DEF Memory, MemPages
    <3>3. QED
      BY <3>1, <3>2
  <2>2. mem'[5 + 1] = [o \in Offset |->
          CASE o >= ScreenClear -> Vram[1][o]
            [] o < ScreenClear /\ 1 = 0 -> Zero
            [] OTHER -> IF mzMode' = 700 THEN White ELSE Zero]
    <3>1. ASSUME NEW o \in Offset
          PROVE  mem'[6][o] = IF o < ScreenClear
                              THEN IF mzMode' = 700 THEN White ELSE Zero ELSE m[6][o]
      BY <1>5, ClearedCell
    <3>2. Vram[1] = m[6] /\ mem'[6] \in [Offset -> Byte]
      BY <1>2, <1>5, Regions DEF Memory, MemPages
    <3>3. QED
      BY <3>1, <3>2
  <2>3. \A p \in 0 .. 1 : p = 0 \/ p = 1
    OBVIOUS
  <2>4. QED
    BY <2>1, <2>2, <2>3, RegionsNext
<1>8. QED
  BY <1>1, <1>3, <1>4, <1>6, <1>7 DEF Banked!Reset, Banked!Offset, Offset, Rom, Vram, Ram

(* Every step is one of the banked memory, or leaves it as it was.         *)
LEMMA StepRefines == IInv /\ [Next]_vars => [Banked!Next]_(Banked!vars)
<1>. SUFFICES ASSUME IInv, [Next]_vars PROVE [Banked!Next]_(Banked!vars)
  OBVIOUS
<1>. IInv'
  BY NextIInv
<1>. Page = 0 .. 31 /\ Banked!Offset = Offset /\ Accessed \subseteq Page
  BY MemAssumption DEF Page, Banked!Offset, Offset
<1>1. ASSUME NEW port \in 224 .. 228, Z80_Out(port) PROVE Banked!Next
  BY <1>1, SwitchRefines DEF Banked!Next
<1>2. ASSUME NEW p \in Accessed, NEW o \in Offset, Z80_RDMEM(p, o) PROVE Banked!Next
  <2>1. Banked!Read(p, o)
    BY <1>2, ReadRefines
  <2>2. QED
    BY <2>1 DEF Banked!Next
<1>3. ASSUME NEW p \in Accessed, NEW o \in Offset, NEW v \in Byte, Z80_WRMEM(p, o, v)
      PROVE  Banked!Next
  <2>1. Banked!Write(p, o, v)
    BY <1>3, WriteRefines
  <2>2. QED
    BY <2>1 DEF Banked!Next
<1>4. ASSUME NEW n \in 0 .. 2, NEW v \in Byte, LoadRomAndReset(n, v) PROVE Banked!Next
  BY <1>4, ResetRefines DEF Banked!Next
<1>5. ASSUME NEW i \in Images, NEW v \in Byte, setMztToMemory(i[1], i[2], v) PROVE Banked!Next
  BY <1>5, LoadRefines DEF Banked!Next
<1>6. CASE TapeStartsOrStops
  BY <1>6, TapeRefines DEF Banked!Next
<1>7. CASE UNCHANGED vars
  BY <1>7 DEF vars, Banked!vars, Region, LoMem, HiMem
<1>8. QED
  BY <1>1, <1>2, <1>3, <1>4, <1>5, <1>6, <1>7 DEF Next

(* The flat buffer and the page table of MZhw.cpp implement three separate *)
(* memories behind two switches: BankedSpec.                               *)
THEOREM Refinement == Spec => BankedSpec
<1>1. Init => Banked!Init
  BY InitRefines
<1>2. IInv /\ [Next]_vars => [Banked!Next]_(Banked!vars)
  BY StepRefines
<1>3. QED
  BY <1>1, <1>2, Invariance, PTL DEF Spec, BankedSpec, Banked!Spec

=============================================================================
