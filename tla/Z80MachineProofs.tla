-------------------------- MODULE Z80MachineProofs --------------------------
(***************************************************************************)
(* Theorems about Z80Machine, for every program, memory, interrupt handler *)
(* and number of alarms: every instruction of z80.c keeps registers and    *)
(* memory in their types, and the flags of its sums and differences mean   *)
(* what arithmetic says.  The lemmas go through z80.c's operators one by   *)
(* one, from the operands up to the tables of opcodes.                     *)
(***************************************************************************)
EXTENDS Z80Machine, FiniteSetTheorems, TLAPS

(* The operands of an opcode, the pairs it names and those that a prefix   *)
(* selects, the values of F, an octal digit, and a result with its flags.  *)
Registers == {"A", "B", "C", "D", "E", "H", "L", "IXH", "IXL", "IYH", "IYL"}
Places == Registers \cup {"M"}
Pairs == {"BC", "DE", "HL", "IX", "IY", "SP", "AF"}
Index == {"HL", "IX", "IY"}
Flags == SUBSET (0 .. 7)
Octal == 0 .. 7
Sum == [v : Byte, f : Flags]

----------------------------------------------------------------------------
(* Bytes and words are intervals of the integers, and what the code keeps  *)
(* by casting to byte and word (% 256, % 65536) is one.                    *)
LEMMA InByte == \A n \in Int : 0 <= n /\ n < 256 <=> n \in Byte
  BY DEF Byte

(* What a word is.                                                         *)
LEMMA InWord == \A n \in Int : 0 <= n /\ n < 65536 <=> n \in WordSet
  BY SMT DEF WordSet

(* Bytes and words are integers.                                           *)
LEMMA Integral == (\A n \in Byte : n \in Int) /\ \A w \in WordSet : w \in Int
  BY DEF WordSet, Byte

(* A number cut to eight bits is a byte.                                   *)
LEMMA ModByte == \A n \in Int : n % 256 \in Byte
  BY DEF Byte

(* A number cut to sixteen bits is a word.                                 *)
LEMMA ModWord == \A n \in Int : n % 65536 \in WordSet
  BY SMT DEF WordSet

(* H and L of a word are bytes, and two bytes make a word.                 *)
LEMMA Halves ==
  ASSUME NEW w \in WordSet
  PROVE  w \div 256 \in Byte /\ w % 256 \in Byte
  <1>1. w \in Int /\ 0 <= w /\ w < 65536
    BY InWord, Integral
  <1>2. w \div 256 \in Int /\ 0 <= w \div 256 /\ w \div 256 < 256
    BY <1>1
  <1>3. QED
    BY <1>1, <1>2, ModByte, InByte

(* Two bytes make a word.                                                  *)
LEMMA Whole ==
  ASSUME NEW h \in Byte, NEW l \in Byte
  PROVE  h * 256 + l \in WordSet /\ l + 256 * h \in WordSet
  <1>1. h \in Int /\ l \in Int /\ 0 <= h /\ h < 256 /\ 0 <= l /\ l < 256
    BY InByte, Integral
  <1>2. h * 256 + l \in Int /\ 0 <= h * 256 + l /\ h * 256 + l < 65536
    BY <1>1
  <1>3. l + 256 * h \in Int /\ 0 <= l + 256 * h /\ l + 256 * h < 65536
    BY <1>1
  <1>4. QED
    BY <1>2, <1>3, InWord

(* The flags of F: what M_FLAG expressions build from them are sets of     *)
(* bits.                                                                   *)
LEMMA FlagSets ==
  /\ \A f, g \in Flags : f \cup g \in Flags
  /\ \A f \in Flags : \A X : f \cap X \in Flags /\ f \ X \in Flags
  /\ \A f \in {C_FLAG, N_FLAG, V_FLAG, H_FLAG, Z_FLAG, S_FLAG} : {f} \in Flags /\ \A b : When(b, f) \in Flags
  /\ {} \in Flags
  <1>1. {C_FLAG, N_FLAG, V_FLAG, H_FLAG, Z_FLAG, S_FLAG} \subseteq 0 .. 7
    BY DEF C_FLAG, N_FLAG, V_FLAG, H_FLAG, Z_FLAG, S_FLAG
  <1>2. \A f \in 0 .. 7 : {f} \in Flags
    BY DEF Flags
  <1>3. /\ \A f, g \in Flags : f \cup g \in Flags
        /\ \A f \in Flags : \A X : f \cap X \in Flags /\ f \ X \in Flags
        /\ {} \in Flags
    BY DEF Flags
  <1>4. QED
    BY <1>1, <1>2, <1>3 DEF When

(* F as the byte that PUSH AF stores, and the byte that POP AF loads as F. *)
LEMMA ByteOfFlags == \A B \in Flags : ByteOf[B] \in Byte
  BY DEF ByteOf, Byte, Digit, Flags

(* A byte taken as flags has all eight.                                    *)
LEMMA FlagsOfByte == \A n \in Byte : BitsOf[n] \in Flags
  BY DEF BitsOf, Flags

(* The tables of S, Z and P hold sets of flags.                            *)
LEMMA TableFlags == \A v : ZSTable(v) \in Flags /\ ZSPTable(v) \in Flags
  BY FlagSets DEF ZSTable, ZSPTable

(* What the code reads from a CPU fits.                                    *)
LEMMA Read ==
  ASSUME NEW s \in Cpu
  PROVE  /\ \A n \in Registers : s[n] \in Byte
         /\ s.A \in Byte /\ s.B \in Byte /\ s.C \in Byte /\ s.A2 \in Byte /\ s.I \in Byte
         /\ s.R2 \in Byte /\ s.R \in 0 .. 127
         /\ s.F \in Flags /\ s.F2 \in Flags
         /\ s.SP \in WordSet /\ s.PC \in WordSet
         /\ s.BC2 \in WordSet /\ s.DE2 \in WordSet /\ s.HL2 \in WordSet
         /\ s.mem \in [Ram -> Byte]
  BY DEF Cpu, Registers, Flags

(* A CPU with one field replaced by a value that fits is a CPU.            *)
LEMMA PutRegister ==
  ASSUME NEW s \in Cpu, NEW n \in Registers, NEW v \in Byte
  PROVE  [s EXCEPT ![n] = v] \in Cpu
  BY DEF Cpu, Registers

(* A byte put into a register.                                             *)
LEMMA PutByte ==
  ASSUME NEW s \in Cpu, NEW v \in Byte
  PROVE  /\ [s EXCEPT !.A = v] \in Cpu /\ [s EXCEPT !.B = v] \in Cpu
         /\ [s EXCEPT !.I = v] \in Cpu
  BY DEF Cpu

(* DJNZ and the block I/O instructions count B down modulo 256.            *)
LEMMA CountDownType ==
  ASSUME NEW s \in Cpu
  PROVE  [s EXCEPT !.B = (s.B - 1) % 256] \in Cpu
  <1>. DEFINE v == (s.B - 1) % 256
  <1>1. v \in Byte
    BY Read, Integral, ModByte
  <1>. HIDE DEF v
  <1>2. [s EXCEPT !.B = v] \in Cpu
    BY <1>1, PutByte
  <1>3. QED
    BY <1>2 DEF v

(* Flags put into F.                                                       *)
LEMMA PutFlags ==
  ASSUME NEW s \in Cpu, NEW f \in Flags
  PROVE  [s EXCEPT !.F = f] \in Cpu
  BY DEF Cpu, Flags

(* A byte and flags put into A and F.                                      *)
LEMMA PutAF ==
  ASSUME NEW s \in Cpu, NEW v \in Byte, NEW f \in Flags
  PROVE  [s EXCEPT !.A = v, !.F = f] \in Cpu
  <1>1. [[s EXCEPT !.A = v] EXCEPT !.F = f] \in Cpu
    BY PutByte, PutFlags
  <1>2. [s EXCEPT !.A = v, !.F = f] = [[s EXCEPT !.A = v] EXCEPT !.F = f]
    OBVIOUS
  <1>3. QED
    BY <1>1, <1>2

(* A word put into SP or PC.                                               *)
LEMMA PutWord ==
  ASSUME NEW s \in Cpu, NEW w \in WordSet
  PROVE  /\ [s EXCEPT !.SP = w] \in Cpu /\ [s EXCEPT !.PC = w] \in Cpu
  BY DEF Cpu

(* The seven bits put into R.                                              *)
LEMMA PutRefresh ==
  ASSUME NEW s \in Cpu, NEW r \in 0 .. 127
  PROVE  [s EXCEPT !.R = r] \in Cpu
  BY DEF Cpu

(* A byte put into R2.                                                     *)
LEMMA PutRefresh2 ==
  ASSUME NEW s \in Cpu, NEW v \in Byte
  PROVE  [s EXCEPT !.R2 = v] \in Cpu
  BY DEF Cpu

(* What EX AF, EXX and LD R,A put into the other registers.                *)
LEMMA PutShadow ==
  ASSUME NEW s \in Cpu
  PROVE  /\ \A v \in Byte : [s EXCEPT !.A2 = v] \in Cpu
         /\ \A v \in Byte : [s EXCEPT !.R2 = v] \in Cpu
         /\ \A r \in 0 .. 127 : [s EXCEPT !.R = r] \in Cpu
         /\ \A f \in Flags : [s EXCEPT !.F2 = f] \in Cpu
         /\ \A w \in WordSet : [s EXCEPT !.BC2 = w] \in Cpu
         /\ \A w \in WordSet : [s EXCEPT !.DE2 = w] \in Cpu
         /\ \A w \in WordSet : [s EXCEPT !.HL2 = w] \in Cpu
  <1>1. \A v \in Byte : [s EXCEPT !.A2 = v] \in Cpu
    BY DEF Cpu
  <1>2. \A v \in Byte : [s EXCEPT !.R2 = v] \in Cpu
    BY DEF Cpu
  <1>3. \A r \in 0 .. 127 : [s EXCEPT !.R = r] \in Cpu
    BY DEF Cpu
  <1>4. \A f \in Flags : [s EXCEPT !.F2 = f] \in Cpu
    BY DEF Cpu, Flags
  <1>5. \A w \in WordSet : [s EXCEPT !.BC2 = w] \in Cpu
    BY DEF Cpu
  <1>6. \A w \in WordSet : [s EXCEPT !.DE2 = w] \in Cpu
    BY DEF Cpu
  <1>7. \A w \in WordSet : [s EXCEPT !.HL2 = w] \in Cpu
    BY DEF Cpu
  <1>8. QED
    BY <1>1, <1>2, <1>3, <1>4, <1>5, <1>6, <1>7

(* A byte put into memory.                                                 *)
LEMMA PutMem ==
  ASSUME NEW s \in Cpu, NEW a \in Ram, NEW v \in Byte
  PROVE  [s EXCEPT !.mem[a] = v] \in Cpu
  <1>1. [s.mem EXCEPT ![a] = v] \in [Ram -> Byte]
    BY DEF Cpu
  <1>2. \A m \in [Ram -> Byte] : [s EXCEPT !.mem = m] \in Cpu
    BY DEF Cpu
  <1>3. QED
    BY <1>1, <1>2

(* A byte put on a port.                                                   *)
LEMMA PutOut ==
  ASSUME NEW s \in Cpu, NEW a \in Byte, NEW v \in Byte
  PROVE  [s EXCEPT !.out = <<a, v>>] \in Cpu
  BY DEF Cpu

----------------------------------------------------------------------------
(* A register pair is a word, AF included, and a word splits into a pair.  *)
LEMMA PairType ==
  ASSUME NEW s \in Cpu, NEW p \in Pairs
  PROVE  Pair(s, p) \in WordSet
  <1>1. CASE p = "SP"
    BY <1>1, Read DEF Pair
  <1>2. CASE p = "AF"
    BY <1>2, Read, ByteOfFlags, Whole DEF Pair
  <1>3. CASE p \notin {"SP", "AF"}
    <2>1. High[p] \in Registers /\ Low[p] \in Registers
      BY <1>3 DEF Pairs, High, Low, Registers
    <2>2. QED
      BY <1>3, <2>1, Read, Whole DEF Pair
  <1>4. QED
    BY <1>1, <1>2, <1>3

(* A word put into a register pair, of two halves or whole.                *)
LEMMA SetPairType ==
  ASSUME NEW s \in Cpu, NEW p \in Pairs, NEW w \in WordSet
  PROVE  SetPair(s, p, w) \in Cpu
  <1>1. CASE p = "SP"
    BY <1>1, PutWord DEF SetPair
  <1>2. CASE p = "AF"
    <2>. DEFINE h == w \div 256  f == BitsOf[w % 256]
    <2>1. h \in Byte /\ f \in Flags
      BY Halves, FlagsOfByte
    <2>2. SetPair(s, p, w) = [s EXCEPT !.A = h, !.F = f]
      BY <1>2 DEF SetPair
    <2>. HIDE DEF h, f
    <2>3. [s EXCEPT !.A = h, !.F = f] \in Cpu
      BY <2>1, PutAF
    <2>4. QED
      BY <2>2, <2>3
  <1>3. CASE p \notin {"SP", "AF"}
    <2>1. High[p] \in Registers /\ Low[p] \in Registers
      BY <1>3 DEF Pairs, High, Low, Registers
    <2>. DEFINE n == High[p]  m == Low[p]  h == w \div 256  l == w % 256
    <2>2. h \in Byte /\ l \in Byte
      BY Halves
    <2>3. SetPair(s, p, w) = [[s EXCEPT ![n] = h] EXCEPT ![m] = l]
      BY <1>3 DEF SetPair
    <2>. HIDE DEF n, m, h, l
    <2>4. n \in Registers /\ m \in Registers
      BY <2>1 DEF n, m
    <2>. DEFINE t == [s EXCEPT ![n] = h]
    <2>5. t \in Cpu
      BY <2>2, <2>4, PutRegister
    <2>. HIDE DEF t
    <2>6. [t EXCEPT ![m] = l] \in Cpu
      BY <2>2, <2>4, <2>5, PutRegister
    <2>7. QED
      BY <2>3, <2>6 DEF t
  <1>4. QED
    BY <1>1, <1>2, <1>3

(* A pair counted up or down, as the block instructions do, wraps around.  *)
LEMMA AdvanceType ==
  ASSUME NEW s \in Cpu, NEW p \in Pairs, NEW d \in Int
  PROVE  Advance(s, p, d) \in Cpu
  <1>1. Pair(s, p) + d \in Int
    BY PairType, Integral
  <1>2. (Pair(s, p) + d) % 65536 \in WordSet
    BY <1>1, ModWord
  <1>3. QED
    BY <1>2, SetPairType DEF Advance

(* The bus gives a byte at every address, 255 where there is no memory.    *)
LEMMA RdmemType ==
  ASSUME NEW s \in Cpu, NEW a
  PROVE  RDMEM(s, a) \in Byte /\ RDMEM_WORD(s, a) \in WordSet
  <1>1. \A b : RDMEM(s, b) \in Byte
    BY Read DEF RDMEM, Byte
  <1>2. QED
    BY <1>1, Whole DEF RDMEM_WORD

(* A byte or a word is stored where there is memory.                       *)
LEMMA WrmemType ==
  ASSUME NEW s \in Cpu, NEW a, NEW v \in Byte
  PROVE  WRMEM(s, a, v) \in Cpu
  BY PutMem DEF WRMEM

(* A word written to memory, which takes its two bytes where there is RAM. *)
LEMMA WrmemWordType ==
  ASSUME NEW s \in Cpu, NEW a, NEW w \in WordSet
  PROVE  WRMEM_WORD(s, a, w) \in Cpu
  BY WrmemType, Halves DEF WRMEM_WORD

(* PC wraps around after every operand, jump and displacement.             *)
LEMMA JumpType ==
  ASSUME NEW s \in Cpu
  PROVE  /\ \A a \in WordSet : Jump(s, a) \in Cpu
         /\ \A n \in Int : Skip(s, n) \in Cpu
         /\ Arg(s) \in Byte /\ ArgWord(s) \in WordSet
  <1>1. ASSUME NEW n \in Int PROVE (s.PC + n) % 65536 \in WordSet
    <2>1. s.PC + n \in Int
      BY Read, Integral
    <2>2. QED
      BY <2>1, ModWord
  <1>2. \A a \in WordSet : Jump(s, a) \in Cpu
    BY PutWord DEF Jump
  <1>3. \A n \in Int : Skip(s, n) \in Cpu
    <2>1. TAKE n \in Int
    <2>2. \A w \in WordSet : [s EXCEPT !.PC = w] \in Cpu
      BY PutWord
    <2>. DEFINE w == (s.PC + n) % 65536
    <2>3. w \in WordSet
      BY <1>1
    <2>4. Skip(s, n) = [s EXCEPT !.PC = w]
      BY DEF Skip
    <2>. HIDE DEF w
    <2>5. QED
      BY <2>2, <2>3, <2>4
  <1>4. QED
    BY <1>2, <1>3, RdmemType DEF Arg, ArgWord

(* Operands: only number 6 of an opcode is in memory; the others are       *)
(* registers, after a prefix the halves of IX or IY.                       *)
LEMMA PlaceType ==
  ASSUME NEW x \in Index, NEW i \in Octal
  PROVE  /\ Place(x, i) \in Places
         /\ i # 6 => Place(x, i) \in Registers
  <1>1. CASE i = 4 \/ i = 5
    <2>1. x = "HL" \/ x = "IX" \/ x = "IY"
      BY DEF Index
    <2>2. /\ High["HL"] = "H" /\ High["IX"] = "IXH" /\ High["IY"] = "IYH"
          /\ Low["HL"] = "L" /\ Low["IX"] = "IXL" /\ Low["IY"] = "IYL"
      BY DEF High, Low
    <2>3. Place(x, i) \in {"H", "L", "IXH", "IXL", "IYH", "IYL"}
      BY <1>1, <2>1, <2>2 DEF Place
    <2>4. QED
      BY <2>3, <1>1 DEF Registers, Places
  <1>2. CASE i \in {0, 1, 2, 3, 6, 7}
    <2>1. /\ i \in {0, 1, 2, 3, 7} => Place(x, i) \in {"B", "C", "D", "E", "A"}
          /\ i = 6 => Place(x, i) = "M"
      <3>1. i = 0 => Place(x, i) = "B"
        BY DEF Place
      <3>2. i = 1 => Place(x, i) = "C"
        BY DEF Place
      <3>3. i = 2 => Place(x, i) = "D"
        BY DEF Place
      <3>4. i = 3 => Place(x, i) = "E"
        BY DEF Place
      <3>5. i = 6 => Place(x, i) = "M"
        BY DEF Place
      <3>6. i = 7 => Place(x, i) = "A"
        BY DEF Place
      <3>7. QED
        BY <3>1, <3>2, <3>3, <3>4, <3>5, <3>6, <1>2
    <2>2. QED
      BY <2>1, <1>2 DEF Registers, Places
  <1>3. QED
    BY <1>1, <1>2 DEF Octal

(* A displacement is a signed byte, and IX+d and IY+d wrap around.         *)
LEMMA SignedType == \A v \in Byte : Signed(v) \in Int
  BY DEF Signed, Byte

(* The address of an indexed operand, which moves PC past the offset.      *)
LEMMA AddressType ==
  ASSUME NEW s \in Cpu, NEW x \in Index
  PROVE  Address(s, x) \in WordSet /\ \A i : Addressed(s, x, i) \in Cpu
  <1>1. x \in Pairs
    BY DEF Index, Pairs
  <1>2. (Pair(s, x) + Signed(Arg(s))) % 65536 \in WordSet
    <2>1. Pair(s, x) + Signed(Arg(s)) \in Int
      BY <1>1, PairType, JumpType, SignedType, Integral
    <2>2. QED
      BY <2>1, ModWord
  <1>3. QED
    BY <1>1, <1>2, PairType, JumpType DEF Address, Addressed

(* Operands are read and written as bytes.                                 *)
LEMMA ValueType ==
  ASSUME NEW s \in Cpu, NEW place \in Places, NEW a
  PROVE  Value(s, place, a) \in Byte
  BY Read, RdmemType DEF Value, Places

(* A byte stored into a register or through an address.                    *)
LEMMA StoreType ==
  ASSUME NEW s \in Cpu, NEW place \in Places, NEW a, NEW v \in Byte
  PROVE  Store(s, place, a, v) \in Cpu
  BY PutRegister, WrmemType DEF Store, Places

----------------------------------------------------------------------------
(* M_ADD and M_SUB give a byte and flags whatever the operands, a carry    *)
(* added to 255 included.                                                  *)
LEMMA AluResult ==
  ASSUME NEW a \in Int, NEW r \in Int
  PROVE  M_ADD(a, r) \in Sum /\ M_SUB(a, r) \in Sum
  <1>1. M_ADD(a, r) \in Sum
    <2>. DEFINE q == a + r
                z == ZSTable(q % 256)
                c == When(Bit(q, 8) = 1, C_FLAG)
                h == When(Parity(4, a, q, r) = 1, H_FLAG)
                o == When(Bit(r, 7) = Bit(a, 7) /\ Bit(r, 7) # Bit(q, 7), V_FLAG)
    <2>1. q % 256 \in Byte
      BY ModByte
    <2>2. z \in Flags /\ c \in Flags /\ h \in Flags /\ o \in Flags
      BY TableFlags, FlagSets DEF When
    <2>3. M_ADD(a, r) = [v |-> q % 256, f |-> z \cup c \cup h \cup o]
      BY DEF M_ADD
    <2>. HIDE DEF z, c, h, o, q
    <2>4. z \cup c \cup h \cup o \in Flags
      BY <2>2, FlagSets
    <2>5. QED
      BY <2>1, <2>3, <2>4 DEF Sum
  <1>2. M_SUB(a, r) \in Sum
    <2>. DEFINE q == a - r
                z == ZSTable(q % 256)
                c == When(Bit(q, 8) = 1, C_FLAG)
                h == When(Parity(4, a, q, r) = 1, H_FLAG)
                o == When(Bit(r, 7) # Bit(a, 7) /\ Bit(r, 7) = Bit(q, 7), V_FLAG)
    <2>1. q % 256 \in Byte
      BY ModByte
    <2>2. z \in Flags /\ c \in Flags /\ h \in Flags /\ o \in Flags /\ {N_FLAG} \in Flags
      BY TableFlags, FlagSets DEF When
    <2>3. M_SUB(a, r) = [v |-> q % 256, f |-> z \cup {N_FLAG} \cup c \cup h \cup o]
      BY DEF M_SUB
    <2>. HIDE DEF z, c, h, o, q
    <2>4. z \cup {N_FLAG} \cup c \cup h \cup o \in Flags
      BY <2>2, FlagSets
    <2>5. QED
      BY <2>1, <2>3, <2>4 DEF Sum
  <1>3. QED
    BY <1>1, <1>2

(* The accumulator and F take a result.                                    *)
LEMMA IntoType ==
  ASSUME NEW s \in Cpu, NEW t \in Sum
  PROVE  Into(s, t) \in Cpu
  <1>1. t.v \in Byte /\ t.f \in Flags
    BY DEF Sum
  <1>2. QED
    BY <1>1, PutAF DEF Into

(* The carry is 0 or 1.                                                    *)
LEMMA CarryType == \A s : Carry(s) \in Int /\ (Carry(s) = 0 \/ Carry(s) = 1)
  BY DEF Carry

(* AND, OR and XOR leave a byte.                                           *)
LEMMA LogicType ==
  ASSUME NEW s \in Cpu, NEW bits \in Flags, NEW flags \in Flags
  PROVE  Logic(s, bits, flags) \in Cpu
  <1>. DEFINE t == [v |-> ByteOf[bits], f |-> ZSPTable(ByteOf[bits]) \cup flags]
  <1>1. t \in Sum
    BY ByteOfFlags, TableFlags, FlagSets DEF Sum
  <1>2. Logic(s, bits, flags) = Into(s, t)
    BY DEF Logic
  <1>. HIDE DEF t
  <1>3. QED
    BY <1>1, <1>2, IntoType

(* The eight operations of the accumulator, and NEG.                       *)
LEMMA AccumulatorType ==
  ASSUME NEW s \in Cpu, NEW v \in Byte
  PROVE  /\ adc_a(s, v) \in Cpu /\ add_a(s, v) \in Cpu /\ sbc_a(s, v) \in Cpu
         /\ sub(s, v) \in Cpu /\ cp(s, v) \in Cpu /\ neg(s) \in Cpu
         /\ and_a(s, v) \in Cpu /\ or_a(s, v) \in Cpu /\ xor_a(s, v) \in Cpu
  <1>1. s.A \in Byte /\ s.A \in Int /\ v \in Int /\ v + Carry(s) \in Int /\ 0 \in Int
    BY Read, Integral, CarryType
  <1>2. /\ adc_a(s, v) \in Cpu /\ add_a(s, v) \in Cpu /\ sbc_a(s, v) \in Cpu
        /\ sub(s, v) \in Cpu /\ neg(s) \in Cpu
    BY <1>1, AluResult, IntoType DEF adc_a, add_a, sbc_a, sub, neg
  <1>3. cp(s, v) \in Cpu
    <2>1. M_SUB(s.A, v).f \in Flags
      BY <1>1, AluResult DEF Sum
    <2>2. QED
      BY <2>1, PutFlags DEF cp
  <1>4. /\ BitsOf[s.A] \cap BitsOf[v] \in Flags
        /\ BitsOf[s.A] \cup BitsOf[v] \in Flags
        /\ (BitsOf[s.A] \cup BitsOf[v]) \ (BitsOf[s.A] \cap BitsOf[v]) \in Flags
    BY <1>1, FlagsOfByte, FlagSets
  <1>5. and_a(s, v) \in Cpu /\ or_a(s, v) \in Cpu /\ xor_a(s, v) \in Cpu
    BY <1>4, FlagSets, LogicType DEF and_a, or_a, xor_a
  <1>6. QED
    BY <1>2, <1>3, <1>5

(* INC and DEC of registers and of memory.                                 *)
LEMMA IncDecType ==
  ASSUME NEW s \in Cpu, NEW place \in Places, NEW a
  PROVE  inc(s, place, a) \in Cpu /\ dec(s, place, a) \in Cpu
  <1>1. inc(s, place, a) \in Cpu
    <2>. DEFINE v == (Value(s, place, a) + 1) % 256
                f == (s.F \cap {C_FLAG}) \cup ZSTable(v) \cup When(v = 128, V_FLAG)
                       \cup When(v % 16 = 0, H_FLAG)
    <2>1. v \in Byte
      BY ValueType, Integral, ModByte
    <2>2. f \in Flags
      <3>1. s.F \cap {C_FLAG} \in Flags /\ {N_FLAG} \in Flags /\ ZSTable(v) \in Flags
        BY Read, FlagSets, TableFlags
      <3>2. When(v = 128, V_FLAG) \in Flags /\ When(v % 16 = 0, H_FLAG) \in Flags
        BY FlagSets DEF When
      <3>. HIDE DEF v
      <3>3. QED
        BY <3>1, <3>2, FlagSets
    <2>3. inc(s, place, a) = [Store(s, place, a, v) EXCEPT !.F = f]
      BY DEF inc
    <2>. HIDE DEF v, f
    <2>4. QED
      BY <2>1, <2>2, <2>3, StoreType, PutFlags
  <1>2. dec(s, place, a) \in Cpu
    <2>. DEFINE v == (Value(s, place, a) - 1) % 256
                f == (s.F \cap {C_FLAG}) \cup {N_FLAG} \cup ZSTable(v) \cup When(v = 128, V_FLAG)
                       \cup When(v % 16 = 0, H_FLAG)
    <2>1. v \in Byte
      BY ValueType, Integral, ModByte
    <2>2. f \in Flags
      <3>1. s.F \cap {C_FLAG} \in Flags /\ {N_FLAG} \in Flags /\ ZSTable(v) \in Flags
        BY Read, FlagSets, TableFlags
      <3>2. When(v = 128, V_FLAG) \in Flags /\ When(v % 16 = 0, H_FLAG) \in Flags
        BY FlagSets DEF When
      <3>. HIDE DEF v
      <3>3. QED
        BY <3>1, <3>2, FlagSets
    <2>3. dec(s, place, a) = [Store(s, place, a, v) EXCEPT !.F = f]
      BY DEF dec
    <2>. HIDE DEF v, f
    <2>4. QED
      BY <2>1, <2>2, <2>3, StoreType, PutFlags
  <1>3. QED
    BY <1>1, <1>2

(* DAA leaves a byte for every A and F, those no sum leads to included.    *)
LEMMA DaaType ==
  ASSUME NEW s \in Cpu
  PROVE  daa(s) \in Cpu
  <1>. DEFINE t == IF N_FLAG \in s.F THEN DAATableDifference(s) ELSE DAATableSum(s)
              r == [v |-> t.v, f |-> DaaFlags(s, t)]
  <1>1. s.A + Corrected(s) \in Int /\ s.A - Corrected(s) \in Int
    BY Read, Integral DEF Corrected
  <1>2. t.v \in Byte
    BY <1>1, ModByte DEF DAATableDifference, DAATableSum
  <1>. HIDE DEF t
  <1>3. DaaFlags(s, t) \in Flags
    <2>1. BitsOf[t.v] \cap {3, 5} \in Flags
      BY <1>2, FlagsOfByte, FlagSets
    <2>2. s.F \cap {N_FLAG} \in Flags
      BY Read, FlagSets
    <2>3. When(Corrected(s) >= 96, C_FLAG) \in Flags /\ When(t.half, H_FLAG) \in Flags
      BY FlagSets DEF When
    <2>4. QED
      BY <2>1, <2>2, <2>3, TableFlags, FlagSets DEF DaaFlags
  <1>4. r \in Sum
    BY <1>2, <1>3 DEF Sum
  <1>5. daa(s) = Into(s, r)
    BY DEF daa, t
  <1>. HIDE DEF r
  <1>6. QED
    BY <1>4, <1>5, IntoType

(* ADD, ADC and SBC of words wrap around.                                  *)
LEMMA WordArithmeticType ==
  ASSUME NEW s \in Cpu, NEW x \in Pairs, NEW p \in Pairs
  PROVE  add_hl(s, x, p) \in Cpu /\ adc_hl(s, p) \in Cpu /\ sbc_hl(s, p) \in Cpu
  <1>1. Pair(s, x) \in Int /\ Pair(s, p) \in Int /\ Pair(s, "HL") \in Int
    BY PairType, Integral DEF Pairs
  <1>2. \A q, a, r : WordFlags(q, a, r) \in Flags
    <2>1. TAKE q, a, r
    <2>. DEFINE h == When(Parity(12, a, q, r) = 1, H_FLAG)
                c == When(Bit(q, 16) = 1, C_FLAG)
                g == When(Bit(q, 15) = 1, S_FLAG)
                z == When(q % 65536 = 0, Z_FLAG)
    <2>2. h \in Flags /\ c \in Flags /\ g \in Flags /\ z \in Flags
      BY FlagSets DEF When
    <2>3. WordFlags(q, a, r) = h \cup c \cup g \cup z
      BY DEF WordFlags
    <2>. HIDE DEF h, c, g, z
    <2>4. h \cup c \in Flags /\ g \in Flags /\ z \in Flags
      BY <2>2, FlagSets
    <2>5. h \cup c \cup g \cup z \in Flags
      BY <2>4, FlagSets
    <2>6. QED
      BY <2>3, <2>5
  <1>3. add_hl(s, x, p) \in Cpu
    <2>. DEFINE q == Pair(s, x) + Pair(s, p)
                w == q % 65536
                f == (s.F \cap {S_FLAG, Z_FLAG, V_FLAG}) \cup When(Bit(q, 16) = 1, C_FLAG)
                       \cup When(Parity(12, Pair(s, x), q, Pair(s, p)) = 1, H_FLAG)
    <2>1. w \in WordSet
      BY <1>1, ModWord
    <2>2. f \in Flags
      BY Read, FlagSets DEF When
    <2>3. add_hl(s, x, p) = [SetPair(s, x, w) EXCEPT !.F = f]
      BY DEF add_hl
    <2>. HIDE DEF w, f
    <2>4. QED
      BY <2>1, <2>2, <2>3, SetPairType, PutFlags
  <1>4. adc_hl(s, p) \in Cpu
    <2>. DEFINE a == Pair(s, "HL")
                r == Pair(s, p) + Carry(s)
                q == a + r
                w == q % 65536
                f == WordFlags(q, a, r)
                       \cup When(Bit(r, 15) = Bit(a, 15) /\ Bit(r, 15) # Bit(q, 15), V_FLAG)
    <2>1. w \in WordSet
      BY <1>1, ModWord, CarryType
    <2>2. f \in Flags
      BY <1>2, FlagSets DEF When
    <2>3. adc_hl(s, p) = [SetPair(s, "HL", w) EXCEPT !.F = f]
      BY DEF adc_hl
    <2>. HIDE DEF w, f
    <2>4. "HL" \in Pairs
      BY DEF Pairs
    <2>5. SetPair(s, "HL", w) \in Cpu
      BY <2>1, <2>4, SetPairType
    <2>6. QED
      BY <2>2, <2>3, <2>5, PutFlags
  <1>5. sbc_hl(s, p) \in Cpu
    <2>. DEFINE a == Pair(s, "HL")
                r == Pair(s, p) + Carry(s)
                q == a - r
                w == q % 65536
                f == WordFlags(q, a, r)
                       \cup When(Bit(r, 15) # Bit(a, 15) /\ Bit(r, 15) = Bit(q, 15), V_FLAG)
                       \cup {N_FLAG}
    <2>1. w \in WordSet
      BY <1>1, ModWord, CarryType
    <2>2. f \in Flags
      BY <1>2, FlagSets DEF When
    <2>3. sbc_hl(s, p) = [SetPair(s, "HL", w) EXCEPT !.F = f]
      BY DEF sbc_hl
    <2>. HIDE DEF w, f
    <2>4. "HL" \in Pairs
      BY DEF Pairs
    <2>5. SetPair(s, "HL", w) \in Cpu
      BY <2>1, <2>4, SetPairType
    <2>6. QED
      BY <2>2, <2>3, <2>5, PutFlags
  <1>6. QED
    BY <1>3, <1>4, <1>5

----------------------------------------------------------------------------
(* The rotations and shifts keep eight bits, and a ninth is 0 or 1.        *)
LEMMA RotationType ==
  ASSUME NEW v \in Byte, NEW y \in Octal, NEW c \in 0 .. 1
  PROVE  (IF y < 4 THEN Rotated(y, v, c) ELSE Shifted(y, v)).v \in Byte
  <1>1. v \in Int /\ 0 <= v /\ v < 256
    BY InByte, Integral
  <1>2. ((v * 2) % 256) + v \div 128 \in Byte
    <2>1. LET q == ((v * 2) % 256) + v \div 128 IN q \in Int /\ 0 <= q /\ q < 256
      BY <1>1
    <2>2. QED
      BY <2>1, InByte
  <1>3. (v \div 2) + (v % 2) * 128 \in Byte
    <2>1. LET q == (v \div 2) + (v % 2) * 128 IN q \in Int /\ 0 <= q /\ q < 256
      BY <1>1
    <2>2. QED
      BY <2>1, InByte
  <1>4. ((v * 2) % 256) + c \in Byte
    <2>1. LET q == ((v * 2) % 256) + c IN q \in Int /\ 0 <= q /\ q < 256
      BY <1>1
    <2>2. QED
      BY <2>1, InByte
  <1>5. (v \div 2) + c * 128 \in Byte
    <2>1. LET q == (v \div 2) + c * 128 IN q \in Int /\ 0 <= q /\ q < 256
      BY <1>1
    <2>2. QED
      BY <2>1, InByte
  <1>6. (v * 2) % 256 \in Byte /\ ((v * 2) % 256) + 1 \in Byte /\ v \div 2 \in Byte
    <2>1. LET q == ((v * 2) % 256) + 1 IN q \in Int /\ 0 <= q /\ q < 256
      BY <1>1
    <2>2. v \div 2 \in Int /\ 0 <= v \div 2 /\ v \div 2 < 256 /\ v * 2 \in Int
      BY <1>1
    <2>3. QED
      BY <2>1, <2>2, InByte, ModByte
  <1>7. (v \div 2) + (v \div 128) * 128 \in Byte
    <2>1. LET q == (v \div 2) + (v \div 128) * 128 IN q \in Int /\ 0 <= q /\ q < 256
      BY <1>1
    <2>2. QED
      BY <2>1, InByte
  <1>8. CASE y \in {0, 1, 2, 3}
    BY <1>8, <1>2, <1>3, <1>4, <1>5 DEF Rotated
  <1>9. CASE y \in {4, 5, 6, 7}
    BY <1>9, <1>6, <1>7 DEF Shifted
  <1>10. QED
    BY <1>8, <1>9 DEF Octal

(* Rotations and shifts of operands.                                       *)
LEMMA RotateType ==
  ASSUME NEW s \in Cpu, NEW y \in Octal, NEW place \in Places, NEW a
  PROVE  rotate(s, y, place, a) \in Cpu
  <1>. DEFINE v == Value(s, place, a)
              t == IF y < 4 THEN Rotated(y, v, Carry(s)) ELSE Shifted(y, v)
              f == ZSPTable(t.v) \cup When(t.c = 1, C_FLAG)
  <1>1. t.v \in Byte
    BY ValueType, CarryType, RotationType
  <1>2. f \in Flags
    BY TableFlags, FlagSets DEF When
  <1>3. rotate(s, y, place, a) = [Store(s, place, a, t.v) EXCEPT !.F = f]
    BY DEF rotate
  <1>. HIDE DEF t, f
  <1>4. QED
    BY <1>1, <1>2, <1>3, StoreType, PutFlags

(* The four rotations of A.                                                *)
LEMMA RlcaType ==
  ASSUME NEW s \in Cpu, NEW y \in 0 .. 3
  PROVE  rlca(s, y) \in Cpu
  <1>. DEFINE t == Rotated(y, s.A, Carry(s))
              f == (s.F \ {C_FLAG, N_FLAG, H_FLAG}) \cup When(t.c = 1, C_FLAG)
  <1>1. t.v \in Byte
    <2>1. y \in Octal /\ y < 4
      BY DEF Octal
    <2>2. QED
      BY <2>1, Read, CarryType, RotationType
  <1>2. f \in Flags
    BY Read, FlagSets DEF When
  <1>3. rlca(s, y) = [s EXCEPT !.A = t.v, !.F = f]
    BY DEF rlca
  <1>. DEFINE v == t.v
  <1>. HIDE DEF t, f, v
  <1>4. [s EXCEPT !.A = v, !.F = f] \in Cpu
    BY <1>1, <1>2, PutAF DEF v
  <1>5. QED
    BY <1>3, <1>4 DEF v

(* BIT, RES and SET.                                                       *)
LEMMA BitType ==
  ASSUME NEW s \in Cpu, NEW n \in Octal, NEW v \in Byte
  PROVE  bit(s, n, v) \in Cpu
  <1>. DEFINE z == When(n \notin BitsOf[v], Z_FLAG)
              g == When(n = 7 /\ n \in BitsOf[v], S_FLAG)
              f == (s.F \cap {C_FLAG}) \cup {H_FLAG} \cup z \cup g
  <1>1. z \in Flags /\ g \in Flags /\ s.F \cap {C_FLAG} \in Flags /\ {H_FLAG} \in Flags
    BY Read, FlagSets DEF When
  <1>2. bit(s, n, v) = [s EXCEPT !.F = f]
    BY DEF bit
  <1>. HIDE DEF z, g
  <1>3. f \in Flags
    BY <1>1, FlagSets
  <1>. HIDE DEF f
  <1>4. QED
    BY <1>2, <1>3, PutFlags

(* RES and SET, whatever the operand.                                      *)
LEMMA ResSetType ==
  ASSUME NEW s \in Cpu, NEW n \in Octal, NEW place \in Places, NEW a
  PROVE  res(s, n, place, a) \in Cpu /\ set(s, n, place, a) \in Cpu
  <1>. DEFINE b == BitsOf[Value(s, place, a)]
  <1>1. b \in Flags
    BY ValueType, FlagsOfByte
  <1>2. b \ {n} \in Flags /\ b \cup {n} \in Flags
    BY <1>1 DEF Flags, Octal
  <1>3. ByteOf[b \ {n}] \in Byte /\ ByteOf[b \cup {n}] \in Byte
    BY <1>2, ByteOfFlags
  <1>4. QED
    BY <1>3, StoreType DEF res, set

(* RLD and RRD: the digits that are passed on make a byte.                 *)
LEMMA NibblesType ==
  ASSUME NEW s \in Cpu, NEW cell \in Byte, NEW low \in 0 .. 15
  PROVE  Nibbles(s, cell, low) \in Cpu
  <1>. DEFINE a == (s.A \div 16) * 16 + low
              f == (s.F \cap {C_FLAG}) \cup ZSPTable(a)
              t == WRMEM(s, Pair(s, "HL"), cell)
  <1>1. a \in Byte
    <2>1. s.A \in Int /\ 0 <= s.A /\ s.A < 256
      BY Read, InByte, Integral
    <2>2. LET q == (s.A \div 16) * 16 + low IN q \in Int /\ 0 <= q /\ q < 256
      BY <2>1
    <2>3. QED
      BY <2>2, InByte
  <1>2. t \in Cpu
    BY WrmemType
  <1>3. f \in Flags
    BY Read, TableFlags, FlagSets
  <1>4. Nibbles(s, cell, low) = [t EXCEPT !.A = a, !.F = f]
    <2>1. t.F = s.F
      BY DEF WRMEM, Cpu
    <2>2. QED
      BY <2>1 DEF Nibbles
  <1>. HIDE DEF a, f, t
  <1>5. [t EXCEPT !.A = a, !.F = f] \in Cpu
    BY <1>1, <1>2, <1>3, PutAF
  <1>6. QED
    BY <1>4, <1>5

(* RLD and RRD pass digits of a byte.                                      *)
LEMMA DigitType ==
  ASSUME NEW s \in Cpu
  PROVE  rld(s) \in Cpu /\ rrd(s) \in Cpu
  <1>. DEFINE i == RDMEM(s, Pair(s, "HL"))
  <1>1. /\ i \in Int /\ 0 <= i /\ i < 256
        /\ s.A \in Int /\ 0 <= s.A /\ s.A < 256
    BY Read, RdmemType, InByte, Integral
  <1>. HIDE DEF i
  <1>2. i \div 16 \in 0 .. 15 /\ i % 16 \in 0 .. 15
    BY <1>1
  <1>3. ((i * 16) % 256) + (s.A % 16) \in Byte
    <2>1. LET q == ((i * 16) % 256) + (s.A % 16) IN q \in Int /\ 0 <= q /\ q < 256
      BY <1>1
    <2>2. QED
      BY <2>1, InByte
  <1>4. (i \div 16) + (s.A % 16) * 16 \in Byte
    <2>1. LET q == (i \div 16) + (s.A % 16) * 16 IN q \in Int /\ 0 <= q /\ q < 256
      BY <1>1
    <2>2. QED
      BY <2>1, InByte
  <1>5. QED
    BY <1>2, <1>3, <1>4, NibblesType DEF rld, rrd, i

(* CPL, CCF and SCF.                                                       *)
LEMMA FlagOpsType ==
  ASSUME NEW s \in Cpu
  PROVE  cpl(s) \in Cpu /\ ccf(s) \in Cpu /\ scf(s) \in Cpu
  <1>1. cpl(s) \in Cpu
    <2>. DEFINE v == 255 - s.A
                f == s.F \cup {H_FLAG, N_FLAG}
    <2>1. v \in Byte
      <3>1. s.A \in Int /\ 0 <= s.A /\ s.A < 256
        BY Read, InByte, Integral
      <3>2. v \in Int /\ 0 <= v /\ v < 256
        BY <3>1
      <3>3. QED
        BY <3>2, InByte
    <2>2. f \in Flags
      <3>1. {H_FLAG, N_FLAG} = {H_FLAG} \cup {N_FLAG}
        OBVIOUS
      <3>2. QED
        BY <3>1, Read, FlagSets
    <2>3. cpl(s) = [s EXCEPT !.A = v, !.F = f]
      BY DEF cpl
    <2>. HIDE DEF v, f
    <2>4. QED
      BY <2>1, <2>2, <2>3, PutAF
  <1>2. ccf(s) \in Cpu
    <2>. DEFINE f == (s.F \ {C_FLAG, N_FLAG, H_FLAG})
                       \cup When(C_FLAG \in s.F, H_FLAG) \cup When(C_FLAG \notin s.F, C_FLAG)
    <2>1. f \in Flags
      BY Read, FlagSets DEF When
    <2>2. ccf(s) = [s EXCEPT !.F = f]
      BY DEF ccf
    <2>. HIDE DEF f
    <2>3. QED
      BY <2>1, <2>2, PutFlags
  <1>3. scf(s) \in Cpu
    <2>1. (s.F \ {N_FLAG, H_FLAG}) \cup {C_FLAG} \in Flags
      BY Read, FlagSets
    <2>2. QED
      BY <2>1, PutFlags DEF scf
  <1>4. QED
    BY <1>1, <1>2, <1>3

----------------------------------------------------------------------------
(* The loads, with operands at IX or IY too.                               *)
LEMMA LoadType ==
  ASSUME NEW s \in Cpu, NEW x \in Index
  PROVE  /\ \A to, from \in Octal : ~(to = 6 /\ from = 6) => ld(s, x, to, from) \in Cpu
         /\ \A to \in Octal : ld_byte(s, x, to) \in Cpu
         /\ \A p \in Pairs : ld_xword(s, p) \in Cpu /\ ld_word_x(s, p) \in Cpu /\ ld_word(s, p) \in Cpu
         /\ ld_a_xword(s) \in Cpu /\ ld_xword_a(s) \in Cpu
  <1>0. "HL" \in Index /\ 2 \in Int /\ 1 \in Int /\ 6 \in Octal
    BY DEF Index, Octal
  <1>1. ASSUME NEW to \in Octal, NEW from \in Octal, ~(to = 6 /\ from = 6)
        PROVE  ld(s, x, to, from) \in Cpu
    <2>1. CASE to = 6
      <3>1. s[Place("HL", from)] \in Byte
        BY <1>0, <1>1, <2>1, PlaceType, Read
      <3>2. Addressed(s, x, 6) \in Cpu
        BY AddressType
      <3>3. ld_to_memory(s, x, from) \in Cpu
        BY <3>1, <3>2, WrmemType DEF ld_to_memory
      <3>4. QED
        BY <1>1, <2>1, <3>3 DEF ld
    <2>2. CASE to # 6 /\ from = 6
      <3>1. Place("HL", to) \in Registers
        BY <1>0, <2>2, PlaceType
      <3>2. Addressed(s, x, 6) \in Cpu /\ RDMEM(s, Address(s, x)) \in Byte
        BY AddressType, RdmemType
      <3>3. QED
        BY <2>2, <3>1, <3>2, PutRegister DEF ld, ld_from_memory
    <2>3. CASE to # 6 /\ from # 6
      <3>1. Place(x, to) \in Registers /\ Place(x, from) \in Registers
        BY <2>3, PlaceType
      <3>2. QED
        BY <2>3, <3>1, Read, PutRegister DEF ld
    <2>4. QED
      BY <2>1, <2>2, <2>3
  <1>2. ASSUME NEW to \in Octal
        PROVE  ld_byte(s, x, to) \in Cpu
    <2>1. Addressed(s, x, to) \in Cpu
      BY AddressType
    <2>2. Skip(Addressed(s, x, to), 1) \in Cpu /\ Arg(Addressed(s, x, to)) \in Byte
      BY <1>0, <2>1, JumpType
    <2>3. QED
      BY <2>2, PlaceType, StoreType DEF ld_byte
  <1>3. ASSUME NEW p \in Pairs
        PROVE  ld_xword(s, p) \in Cpu /\ ld_word_x(s, p) \in Cpu /\ ld_word(s, p) \in Cpu
    <2>1. Pair(s, p) \in WordSet /\ ArgWord(s) \in WordSet /\ RDMEM_WORD(s, ArgWord(s)) \in WordSet
      BY PairType, JumpType, RdmemType
    <2>2. WRMEM_WORD(s, ArgWord(s), Pair(s, p)) \in Cpu
      BY <2>1, WrmemWordType
    <2>3. SetPair(s, p, RDMEM_WORD(s, ArgWord(s))) \in Cpu /\ SetPair(s, p, ArgWord(s)) \in Cpu
      BY <2>1, SetPairType
    <2>4. QED
      BY <1>0, <2>2, <2>3, JumpType DEF ld_xword, ld_word_x, ld_word
  <1>4. ld_a_xword(s) \in Cpu
    BY <1>0, RdmemType, PutByte, JumpType DEF ld_a_xword
  <1>5. ld_xword_a(s) \in Cpu
    BY <1>0, Read, WrmemType, JumpType DEF ld_xword_a
  <1>6. QED
    BY <1>1, <1>2, <1>3, <1>4, <1>5

(* LD with I and R: R is seven bits that count and one that is kept.       *)
LEMMA LdAType ==
  ASSUME NEW s \in Cpu
  PROVE  ld_a_i(s) \in Cpu /\ ld_a_r(s) \in Cpu /\ ld_r_a(s) \in Cpu
  <1>1. ASSUME NEW a \in Byte PROVE LdAFlags(s, a) \in Cpu
    <2>. DEFINE f == (s.F \cap {C_FLAG}) \cup ZSTable(a) \cup When(s.IFF2 = 1, V_FLAG)
    <2>1. f \in Flags
      BY Read, TableFlags, FlagSets DEF When
    <2>2. LdAFlags(s, a) = [s EXCEPT !.A = a, !.F = f]
      BY DEF LdAFlags
    <2>. HIDE DEF f
    <2>3. QED
      BY <2>1, <2>2, PutAF
  <1>2. s.R + (s.R2 \div 128) * 128 \in Byte
    <2>1. s.R \in Int /\ 0 <= s.R /\ s.R < 128 /\ s.R2 \in Int /\ 0 <= s.R2 /\ s.R2 < 256
      BY Read, InByte, Integral
    <2>2. LET q == s.R + (s.R2 \div 128) * 128 IN q \in Int /\ 0 <= q /\ q < 256
      BY <2>1
    <2>3. QED
      BY <2>2, InByte
  <1>3. ld_r_a(s) \in Cpu
    <2>2. s.A % 128 \in 0 .. 127 /\ s.A \in Byte
      BY Read, Integral
    <2>. DEFINE r == s.A % 128  v == s.A
    <2>3. ld_r_a(s) = [[s EXCEPT !.R = r] EXCEPT !.R2 = v]
      BY DEF ld_r_a
    <2>4. r \in 0 .. 127 /\ v \in Byte
      BY <2>2
    <2>. HIDE DEF r, v
    <2>5. [s EXCEPT !.R = r] \in Cpu
      BY <2>4, PutRefresh
    <2>6. [[s EXCEPT !.R = r] EXCEPT !.R2 = v] \in Cpu
      BY <2>4, <2>5, PutRefresh2
    <2>7. QED
      BY <2>3, <2>6
  <1>4. QED
    BY <1>1, <1>2, <1>3, Read DEF ld_a_i, ld_a_r

(* The exchanges, which keep words in the shadow registers.                *)
LEMMA ExchangeType ==
  ASSUME NEW s \in Cpu, NEW x \in Index
  PROVE  ex_xsp(s, x) \in Cpu /\ ex_af_af(s) \in Cpu /\ ex_de_hl(s) \in Cpu /\ exx(s) \in Cpu
  <1>0. x \in Pairs /\ "DE" \in Pairs /\ "HL" \in Pairs /\ "BC" \in Pairs
    BY DEF Index, Pairs
  <1>1. ex_xsp(s, x) \in Cpu
    <2>1. WRMEM_WORD(s, s.SP, Pair(s, x)) \in Cpu
      BY <1>0, PairType, WrmemWordType
    <2>2. QED
      BY <1>0, <2>1, RdmemType, SetPairType DEF ex_xsp
  <1>2. ex_af_af(s) \in Cpu
    <2>1. [s EXCEPT !.A = s.A2, !.F = s.F2] \in Cpu
      BY Read, PutAF
    <2>. DEFINE t == [s EXCEPT !.A = s.A2, !.F = s.F2]
    <2>2. ex_af_af(s) = [[t EXCEPT !.A2 = s.A] EXCEPT !.F2 = s.F]
      BY DEF ex_af_af
    <2>. HIDE DEF t
    <2>3. [t EXCEPT !.A2 = s.A] \in Cpu
      BY <2>1, Read, PutShadow DEF t
    <2>4. [[t EXCEPT !.A2 = s.A] EXCEPT !.F2 = s.F] \in Cpu
      BY <2>3, Read, PutShadow
    <2>5. QED
      BY <2>2, <2>4
  <1>3. ex_de_hl(s) \in Cpu
    <2>1. SetPair(s, "DE", Pair(s, "HL")) \in Cpu
      BY <1>0, PairType, SetPairType
    <2>2. QED
      BY <1>0, <2>1, PairType, SetPairType DEF ex_de_hl
  <1>4. exx(s) \in Cpu
    <2>. DEFINE t == [s EXCEPT !.BC2 = Pair(s, "BC"), !.DE2 = Pair(s, "DE"), !.HL2 = Pair(s, "HL")]
    <2>1. t \in Cpu
      <3>1. [s EXCEPT !.BC2 = Pair(s, "BC")] \in Cpu
        BY <1>0, PairType, PutShadow
      <3>2. [[s EXCEPT !.BC2 = Pair(s, "BC")] EXCEPT !.DE2 = Pair(s, "DE")] \in Cpu
        BY <1>0, <3>1, PairType, PutShadow
      <3>3. [[[s EXCEPT !.BC2 = Pair(s, "BC")] EXCEPT !.DE2 = Pair(s, "DE")]
               EXCEPT !.HL2 = Pair(s, "HL")] \in Cpu
        BY <1>0, <3>2, PairType, PutShadow
      <3>4. t = [[[s EXCEPT !.BC2 = Pair(s, "BC")] EXCEPT !.DE2 = Pair(s, "DE")]
                    EXCEPT !.HL2 = Pair(s, "HL")]
        OBVIOUS
      <3>5. QED
        BY <3>3, <3>4
    <2>2. exx(s) = SetPair(SetPair(SetPair(t, "BC", s.BC2), "DE", s.DE2), "HL", s.HL2)
      BY DEF exx
    <2>. HIDE DEF t
    <2>3. SetPair(t, "BC", s.BC2) \in Cpu
      BY <1>0, <2>1, Read, SetPairType
    <2>4. SetPair(SetPair(t, "BC", s.BC2), "DE", s.DE2) \in Cpu
      BY <1>0, <2>3, Read, SetPairType
    <2>5. QED
      BY <1>0, <2>2, <2>4, Read, SetPairType
  <1>5. QED
    BY <1>1, <1>2, <1>3, <1>4

(* SP wraps around when it pops.                                           *)
LEMMA PopType ==
  ASSUME NEW s \in Cpu
  PROVE  [s EXCEPT !.SP = (s.SP + 2) % 65536] \in Cpu
  <1>. DEFINE sp == (s.SP + 2) % 65536
  <1>1. sp \in WordSet
    BY Read, Integral, ModWord
  <1>. HIDE DEF sp
  <1>2. [s EXCEPT !.SP = sp] \in Cpu
    BY <1>1, PutWord
  <1>3. QED
    BY <1>2 DEF sp

(* PUSH and POP of every pair.                                             *)
LEMMA StackType ==
  ASSUME NEW s \in Cpu
  PROVE  /\ \A p \in Pairs : pop(s, p) \in Cpu /\ push(s, p) \in Cpu
         /\ \A w \in WordSet : PushWord(s, w) \in Cpu
  <1>2. \A w \in WordSet : PushWord(s, w) \in Cpu
    <2>1. TAKE w \in WordSet
    <2>. DEFINE sp == (s.SP - 2) % 65536
    <2>2. sp \in WordSet
      BY Read, Integral, ModWord
    <2>3. PushWord(s, w) = WRMEM_WORD([s EXCEPT !.SP = sp], sp, w)
      BY DEF PushWord
    <2>. HIDE DEF sp
    <2>4. [s EXCEPT !.SP = sp] \in Cpu
      BY <2>2, PutWord
    <2>5. QED
      BY <2>3, <2>4, WrmemWordType
  <1>3. ASSUME NEW p \in Pairs PROVE pop(s, p) \in Cpu
    <2>. DEFINE t == [s EXCEPT !.SP = (s.SP + 2) % 65536]
    <2>1. pop(s, p) = SetPair(t, p, RDMEM_WORD(s, s.SP))
      BY DEF pop
    <2>2. t \in Cpu
      BY PopType
    <2>. HIDE DEF t
    <2>3. QED
      BY <2>1, <2>2, RdmemType, SetPairType
  <1>4. ASSUME NEW p \in Pairs PROVE push(s, p) \in Cpu
    BY <1>2, PairType DEF push
  <1>5. QED
    BY <1>2, <1>3, <1>4

(* Jumps, calls, returns and restarts.                                     *)
LEMMA BranchType ==
  ASSUME NEW s \in Cpu
  PROVE  /\ \A cond : jp(s, cond) \in Cpu /\ jr(s, cond) \in Cpu /\ call(s, cond) \in Cpu
         /\ \A cond : ret(s, cond) \in Cpu
         /\ djnz(s) \in Cpu
         /\ \A a \in WordSet : rst(s, a) \in Cpu
  <1>0. 1 \in Int /\ 2 \in Int
    OBVIOUS
  <1>1. ASSUME NEW cond PROVE jp(s, cond) \in Cpu
    BY <1>0, JumpType DEF jp
  <1>2. ASSUME NEW t \in Cpu, NEW cond PROVE jr(t, cond) \in Cpu
    <2>1. Signed(Arg(t)) + 1 \in Int
      BY JumpType, SignedType
    <2>2. Skip(t, Signed(Arg(t)) + 1) \in Cpu /\ Skip(t, 1) \in Cpu
      BY <2>1, <1>0, JumpType
    <2>3. QED
      BY <2>2 DEF jr
  <1>3. ASSUME NEW cond PROVE call(s, cond) \in Cpu
    <2>. DEFINE w == (s.PC + 2) % 65536
    <2>1. w \in WordSet
      BY Read, Integral, ModWord
    <2>2. call(s, cond) = IF cond THEN Jump(PushWord(s, w), ArgWord(s)) ELSE Skip(s, 2)
      BY DEF call
    <2>. HIDE DEF w
    <2>3. Jump(PushWord(s, w), ArgWord(s)) \in Cpu
      <3>1. PushWord(s, w) \in Cpu /\ ArgWord(s) \in WordSet
        BY <2>1, StackType, JumpType
      <3>2. QED
        BY <3>1, JumpType
    <2>4. Skip(s, 2) \in Cpu
      BY <1>0, JumpType
    <2>5. QED
      BY <2>2, <2>3, <2>4
  <1>4. ASSUME NEW cond PROVE ret(s, cond) \in Cpu
    <2>. DEFINE t == [s EXCEPT !.SP = (s.SP + 2) % 65536]
    <2>1. ret(s, cond) = IF cond THEN Jump(t, RDMEM_WORD(s, s.SP)) ELSE s
      BY DEF ret
    <2>2. t \in Cpu
      BY PopType
    <2>. HIDE DEF t
    <2>3. Jump(t, RDMEM_WORD(s, s.SP)) \in Cpu
      BY <2>2, RdmemType, JumpType
    <2>4. QED
      BY <2>1, <2>3
  <1>5. djnz(s) \in Cpu
    <2>. DEFINE t == [s EXCEPT !.B = (s.B - 1) % 256]
    <2>2. t \in Cpu
      BY CountDownType
    <2>3. djnz(s) = jr(t, t.B # 0)
      BY DEF djnz
    <2>. HIDE DEF t
    <2>4. QED
      BY <1>2, <2>2, <2>3
  <1>6. ASSUME NEW a \in WordSet PROVE rst(s, a) \in Cpu
    <2>1. PushWord(s, s.PC) \in Cpu
      BY Read, StackType
    <2>2. QED
      BY <2>1, JumpType DEF rst
  <1>7. QED
    BY <1>1, <1>2, <1>3, <1>4, <1>5, <1>6

(* The flip-flops of interrupts, the mode and HALT.                        *)
LEMMA PutControl ==
  ASSUME NEW s \in Cpu
  PROVE  /\ \A b \in {0, 1} : [s EXCEPT !.IFF1 = b] \in Cpu
         /\ \A b \in {0, 1} : [s EXCEPT !.IFF2 = b] \in Cpu
         /\ \A b \in {0, 1} : [s EXCEPT !.HALT = b] \in Cpu
         /\ \A b \in {0, 1} : [s EXCEPT !.intflag = b] \in Cpu
         /\ \A m \in 0 .. 2 : [s EXCEPT !.IM = m] \in Cpu
  <1>1. \A b \in {0, 1} : [s EXCEPT !.IFF1 = b] \in Cpu
    BY DEF Cpu
  <1>2. \A b \in {0, 1} : [s EXCEPT !.IFF2 = b] \in Cpu
    BY DEF Cpu
  <1>3. \A b \in {0, 1} : [s EXCEPT !.HALT = b] \in Cpu
    BY DEF Cpu
  <1>4. \A b \in {0, 1} : [s EXCEPT !.intflag = b] \in Cpu
    BY DEF Cpu
  <1>5. \A m \in 0 .. 2 : [s EXCEPT !.IM = m] \in Cpu
    BY DEF Cpu
  <1>6. QED
    BY <1>1, <1>2, <1>3, <1>4, <1>5

(* RETN, HALT, DI and IM.                                                  *)
LEMMA ControlType ==
  ASSUME NEW s \in Cpu
  PROVE  /\ retn(s) \in Cpu /\ halt(s) \in Cpu /\ di(s) \in Cpu
         /\ \A y \in Octal : im(s, y) \in Cpu
  <1>1. retn(s) \in Cpu
    <2>1. s.IFF2 \in {0, 1}
      BY DEF Cpu
    <2>2. [s EXCEPT !.IFF1 = s.IFF2] \in Cpu
      BY <2>1, PutControl
    <2>3. QED
      BY <2>2, BranchType DEF retn
  <1>2. halt(s) \in Cpu
    <2>1. Skip(s, -1) \in Cpu
      <3>1. -1 \in Int
        OBVIOUS
      <3>2. QED
        BY <3>1, JumpType
    <2>2. [Skip(s, -1) EXCEPT !.HALT = 1] \in Cpu
      BY <2>1, PutControl
    <2>3. QED
      BY <2>2 DEF halt
  <1>3. di(s) \in Cpu
    <2>1. di(s) = [[s EXCEPT !.IFF1 = 0] EXCEPT !.IFF2 = 0]
      BY DEF di
    <2>2. [s EXCEPT !.IFF1 = 0] \in Cpu
      BY PutControl
    <2>3. QED
      BY <2>1, <2>2, PutControl
  <1>4. ASSUME NEW y \in Octal PROVE im(s, y) \in Cpu
    <2>1. y % 4 \in 0 .. 3
      BY DEF Octal
    <2>2. <<0, 0, 1, 2>>[(y % 4) + 1] \in 0 .. 2
      BY <2>1
    <2>3. QED
      BY <2>2, PutControl DEF im
  <1>5. QED
    BY <1>1, <1>2, <1>3, <1>4
----------------------------------------------------------------------------
(* A block instruction that repeats goes back to its opcode.               *)
LEMMA RepeatType ==
  ASSUME NEW s \in Cpu, NEW again
  PROVE  Repeat(s, again) \in Cpu
  <1>1. -2 \in Int
    OBVIOUS
  <1>2. QED
    BY <1>1, JumpType DEF Repeat

(* Block instructions move HL and count BC.                                *)
LEMMA WalkType ==
  ASSUME NEW s \in Cpu, NEW d \in Int
  PROVE  Walk(s, d) \in Cpu
  <1>1. "HL" \in Pairs /\ "BC" \in Pairs /\ -1 \in Int
    BY DEF Pairs
  <1>2. Advance(s, "HL", d) \in Cpu
    BY <1>1, AdvanceType
  <1>3. QED
    BY <1>1, <1>2, AdvanceType DEF Walk

(* LDI, LDD, LDIR and LDDR.                                                *)
LEMMA BlockMoveType ==
  ASSUME NEW s \in Cpu, NEW d \in Int
  PROVE  ldi(s, d) \in Cpu /\ ldir(s, d) \in Cpu
  <1>. DEFINE m == WRMEM(s, Pair(s, "DE"), RDMEM(s, Pair(s, "HL")))
              t == Advance(Walk(m, d), "DE", d)
              f == (t.F \ {H_FLAG, V_FLAG, N_FLAG}) \cup When(Pair(t, "BC") # 0, V_FLAG)
  <1>1. m \in Cpu
    BY RdmemType, WrmemType
  <1>. HIDE DEF m
  <1>2. t \in Cpu
    <2>1. "DE" \in Pairs
      BY DEF Pairs
    <2>2. QED
      BY <1>1, <2>1, WalkType, AdvanceType
  <1>3. ldi(s, d) = [t EXCEPT !.F = f]
    BY DEF ldi, m
  <1>. HIDE DEF t
  <1>4. f \in Flags
    BY <1>2, Read, FlagSets DEF When
  <1>. HIDE DEF f
  <1>5. ldi(s, d) \in Cpu
    BY <1>2, <1>3, <1>4, PutFlags
  <1>6. QED
    BY <1>5, RepeatType DEF ldir

(* CPI, CPD, CPIR and CPDR.                                                *)
LEMMA SearchType ==
  ASSUME NEW s \in Cpu, NEW d \in Int
  PROVE  cpi(s, d) \in Cpu /\ cpir(s, d) \in Cpu
  <1>. DEFINE i == RDMEM(s, Pair(s, "HL"))
              j == (s.A - i) % 256
              t == Walk(s, d)
              h == When(Parity(4, s.A, j, i) = 1, H_FLAG)
              o == When(Pair(t, "BC") # 0, V_FLAG)
              f == (t.F \cap {C_FLAG}) \cup ZSTable(j) \cup {N_FLAG} \cup h \cup o
  <1>1. t \in Cpu
    BY WalkType
  <1>2. cpi(s, d) = [t EXCEPT !.F = f]
    BY DEF cpi
  <1>3. h \in Flags /\ o \in Flags /\ ZSTable(j) \in Flags /\ {N_FLAG} \in Flags
    BY FlagSets, TableFlags DEF When
  <1>. HIDE DEF t, h, o, j
  <1>4. t.F \cap {C_FLAG} \in Flags
    BY <1>1, Read, FlagSets
  <1>5. f \in Flags
    BY <1>3, <1>4, FlagSets
  <1>. HIDE DEF f
  <1>6. cpi(s, d) \in Cpu
    BY <1>1, <1>2, <1>5, PutFlags
  <1>7. QED
    BY <1>6, RepeatType DEF cpir

(* The block I/O instructions move HL and count B.                         *)
LEMMA CountIOType ==
  ASSUME NEW s \in Cpu, NEW d \in Int
  PROVE  CountIO(s, d) \in Cpu
  <1>. DEFINE t == [s EXCEPT !.B = (s.B - 1) % 256]
              u == Advance(t, "HL", d)
              f == {N_FLAG} \cup When(t.B = 0, Z_FLAG)
  <1>1. t \in Cpu
    BY CountDownType
  <1>2. CountIO(s, d) = [u EXCEPT !.F = f]
    BY DEF CountIO
  <1>. HIDE DEF t
  <1>3. u \in Cpu
    <2>1. "HL" \in Pairs
      BY DEF Pairs
    <2>2. QED
      BY <1>1, <2>1, AdvanceType
  <1>4. f \in Flags
    BY FlagSets DEF When
  <1>. HIDE DEF f, u
  <1>5. QED
    BY <1>2, <1>3, <1>4, PutFlags

(* Input and output: a port gives a byte, whatever it is.                  *)
LEMMA PortType ==
  ASSUME NEW s \in Cpu, NEW d \in Int
  PROVE  /\ ini(s, d) \in Cpu /\ inir(s, d) \in Cpu /\ outi(s, d) \in Cpu /\ otir(s, d) \in Cpu
         /\ \A y \in Octal : in_c(s, y) \in Cpu /\ out_c(s, y) \in Cpu
         /\ in_a_byte(s) \in Cpu /\ out_byte_a(s) \in Cpu
  <1>0. In(s.C) \in Byte /\ In(Arg(s)) \in Byte
    BY Read, JumpType, CoreAssumption
  <1>1. ini(s, d) \in Cpu
    <2>1. WRMEM(s, Pair(s, "HL"), In(s.C)) \in Cpu
      BY <1>0, WrmemType
    <2>2. QED
      BY <2>1, CountIOType DEF ini
  <1>2. outi(s, d) \in Cpu
    <2>1. [s EXCEPT !.out = <<s.C, RDMEM(s, Pair(s, "HL"))>>] \in Cpu
      BY Read, RdmemType, PutOut
    <2>2. QED
      BY <2>1, CountIOType DEF outi
  <1>3. inir(s, d) \in Cpu /\ otir(s, d) \in Cpu
    BY <1>1, <1>2, RepeatType DEF inir, otir
  <1>4. ASSUME NEW y \in Octal PROVE in_c(s, y) \in Cpu
    <2>. DEFINE t == IF y = 6 THEN s ELSE [s EXCEPT ![Place("HL", y)] = In(s.C)]
                f == (t.F \cap {C_FLAG}) \cup ZSPTable(In(s.C))
    <2>1. t \in Cpu
      <3>1. CASE y = 6
        BY <3>1
      <3>2. CASE y # 6
        <4>1. Place("HL", y) \in Registers
          BY <3>2, PlaceType DEF Index
        <4>2. QED
          BY <3>2, <4>1, <1>0, PutRegister
      <3>3. QED
        BY <3>1, <3>2
    <2>2. in_c(s, y) = [t EXCEPT !.F = f]
      BY DEF in_c
    <2>. HIDE DEF t
    <2>3. f \in Flags
      BY <2>1, Read, TableFlags, FlagSets
    <2>. HIDE DEF f
    <2>4. QED
      BY <2>1, <2>2, <2>3, PutFlags
  <1>5. ASSUME NEW y \in Octal PROVE out_c(s, y) \in Cpu
    <2>. DEFINE v == IF y = 6 THEN 0 ELSE s[Place("HL", y)]
    <2>1. v \in Byte
      <3>1. 0 \in Byte
        BY DEF Byte
      <3>2. y # 6 => Place("HL", y) \in Registers
        BY PlaceType DEF Index
      <3>3. QED
        BY <3>1, <3>2, Read
    <2>2. out_c(s, y) = [s EXCEPT !.out = <<s.C, v>>]
      BY DEF out_c
    <2>. HIDE DEF v
    <2>3. QED
      BY <2>1, <2>2, Read, PutOut
  <1>6. in_a_byte(s) \in Cpu
    <2>1. [s EXCEPT !.A = In(Arg(s))] \in Cpu
      BY <1>0, PutByte
    <2>2. QED
      BY <2>1, JumpType DEF in_a_byte
  <1>7. out_byte_a(s) \in Cpu
    <2>1. [s EXCEPT !.out = <<Arg(s), s.A>>] \in Cpu
      BY Read, JumpType, PutOut
    <2>2. QED
      BY <2>1, JumpType DEF out_byte_a
  <1>8. QED
    BY <1>1, <1>2, <1>3, <1>4, <1>5, <1>6, <1>7

----------------------------------------------------------------------------
(* The digits of an opcode: its middle one is a pair's number and a bit.   *)
LEMMA Halved ==
  ASSUME NEW y \in Octal
  PROVE  (y \div 2) + 1 \in {1, 2, 3, 4} /\ (y % 2 = 0 \/ y % 2 = 1)
  BY DEF Octal

(* The pairs an opcode names.                                              *)
LEMMA OperandPairs ==
  ASSUME NEW x \in Index, NEW y \in Octal
  PROVE  Wide(x, y) \in Pairs /\ Stacked(x, y) \in Pairs
  <1>1. x \in Pairs
    BY DEF Index, Pairs
  <1>2. \A k \in {1, 2, 3, 4} : <<"BC", "DE", x, "SP">>[k] \in Pairs /\ <<"BC", "DE", x, "AF">>[k] \in Pairs
    BY <1>1 DEF Pairs
  <1>3. QED
    BY <1>2, Halved DEF Wide, Stacked

(* The tables of opcodes, one operator of Z80Core after the other.         *)
LEMMA AluType ==
  ASSUME NEW s \in Cpu, NEW y \in Octal, NEW v \in Byte
  PROVE  Alu(s, y, v) \in Cpu
  <1>1. y \in {0, 1, 2, 3, 4, 5, 6, 7}
    BY DEF Octal
  <1>2. QED
    BY <1>1, AccumulatorType DEF Alu

(* LD of A and HL at an address.                                           *)
LEMMA MovesType ==
  ASSUME NEW s \in Cpu, NEW x \in Index, NEW y \in Octal
  PROVE  Moves(s, x, y) \in Cpu
  <1>1. y \in {0, 1, 2, 3, 4, 5, 6, 7} /\ x \in Pairs
    BY DEF Octal, Index, Pairs
  <1>2. /\ \A a : WRMEM(s, a, s.A) \in Cpu
        /\ \A a : [s EXCEPT !.A = RDMEM(s, a)] \in Cpu
    BY Read, WrmemType, RdmemType, PutByte
  <1>3. QED
    BY <1>1, <1>2, LoadType DEF Moves

(* The one-byte operations of A and F.                                     *)
LEMMA AccumulatorOpsType ==
  ASSUME NEW s \in Cpu, NEW y \in Octal
  PROVE  Accumulator(s, y) \in Cpu
  <1>1. CASE y \in 0 .. 3
    BY <1>1, RlcaType DEF Accumulator
  <1>2. CASE y \in {4, 5, 6, 7}
    BY <1>2, DaaType, FlagOpsType DEF Accumulator
  <1>3. QED
    BY <1>1, <1>2 DEF Octal

(* Opcodes below 64.                                                       *)
LEMMA LowOpcodeType ==
  ASSUME NEW s \in Cpu, NEW x \in Index, NEW y \in Octal, NEW z \in Octal
  PROVE  LowOpcode(s, x, y, z) \in Cpu
  <1>0. x \in Pairs /\ Wide(x, y) \in Pairs /\ y \in Int /\ (y % 2 = 0 \/ y % 2 = 1)
    BY OperandPairs, Halved DEF Index, Pairs, Octal
  <1>1. CASE z = 0
    <2>1. \A cond : jr(s, cond) \in Cpu
      BY BranchType
    <2>2. jr(s, y = 3 \/ Holds(s, y - 4)) \in Cpu
      BY <2>1
    <2>3. y = 0 \/ y = 1 \/ y = 2 \/ y > 2
      BY DEF Octal
    <2>4. QED
      BY <1>1, <2>2, <2>3, BranchType, ExchangeType DEF LowOpcode
  <1>2. CASE z = 1
    <2>1. ld_word(s, Wide(x, y)) \in Cpu
      BY <1>0, LoadType
    <2>2. add_hl(s, x, Wide(x, y)) \in Cpu
      BY <1>0, WordArithmeticType
    <2>3. QED
      BY <1>0, <1>2, <2>1, <2>2 DEF LowOpcode
  <1>3. CASE z = 2
    BY <1>3, MovesType DEF LowOpcode
  <1>4. CASE z = 3
    <2>1. (IF y % 2 = 0 THEN 1 ELSE -1) \in Int
      OBVIOUS
    <2>2. QED
      BY <1>0, <1>4, <2>1, AdvanceType DEF LowOpcode
  <1>5. CASE z = 4 \/ z = 5
    BY <1>5, AddressType, PlaceType, IncDecType DEF LowOpcode
  <1>6. CASE z = 6
    BY <1>6, LoadType DEF LowOpcode
  <1>7. CASE z = 7
    BY <1>7, AccumulatorOpsType DEF LowOpcode
  <1>8. QED
    BY <1>1, <1>2, <1>3, <1>4, <1>5, <1>6, <1>7 DEF Octal

(* Opcodes from 192: returns, jumps, calls, the stack and I/O.             *)
LEMMA HighOpcodeType ==
  ASSUME NEW s \in Cpu, NEW x \in Index, NEW y \in Octal, NEW z \in Octal,
         ~(z = 3 /\ y \in {1, 7}), ~(z = 5 /\ y \in {3, 5, 7})
  PROVE  HighOpcode(s, x, y, z) \in Cpu
  <1>0. /\ x \in Pairs /\ Stacked(x, y) \in Pairs /\ (y % 2 = 0 \/ y % 2 = 1)
        /\ y \in {0, 1, 2, 3, 4, 5, 6, 7} /\ 1 \in Int
    BY OperandPairs, Halved DEF Index, Pairs, Octal
  <1>1. CASE z = 0
    BY <1>1, BranchType DEF HighOpcode
  <1>2. CASE z = 1
    <2>1. Jump(s, Pair(s, x)) \in Cpu /\ [s EXCEPT !.SP = Pair(s, x)] \in Cpu
      BY <1>0, PairType, JumpType, PutWord
    <2>2. /\ pop(s, Stacked(x, y)) \in Cpu /\ ret(s, TRUE) \in Cpu /\ exx(s) \in Cpu
      BY <1>0, StackType, BranchType, ExchangeType
    <2>3. y % 2 = 0 \/ y = 1 \/ y = 3 \/ y = 5 \/ y = 7
      BY <1>0
    <2>4. CASE y % 2 = 0
      <3>1. y # 1 /\ y # 3 /\ y # 5 /\ y # 7
        BY <2>4
      <3>2. QED
        BY <1>2, <2>2, <2>4, <3>1 DEF HighOpcode
    <2>5. CASE y = 1
      <3>1. /\ z # 0 /\ z # 2 /\ z # 3 /\ z # 4 /\ z # 5 /\ z # 6 /\ z # 7
            /\ ~(y % 2 = 0) /\ y # 3 /\ y # 5 /\ y # 7
        BY <1>2, <2>5
      <3>2. HighOpcode(s, x, y, z) = ret(s, TRUE)
        BY <1>2, <2>5, <3>1, Zenon DEF HighOpcode
      <3>3. QED
        BY <2>2, <3>2
    <2>6. CASE y = 3 \/ y = 5 \/ y = 7
      <3>1. /\ z # 0 /\ z # 2 /\ z # 3 /\ z # 4 /\ z # 5 /\ z # 6 /\ z # 7
            /\ ~(y % 2 = 0) /\ y # 1
            /\ y = 3 => y # 5 /\ y # 7
            /\ y = 5 => y # 3 /\ y # 7
            /\ y = 7 => y # 3 /\ y # 5
        BY <1>2, <2>6
      <3>2. \/ HighOpcode(s, x, y, z) = exx(s)
            \/ HighOpcode(s, x, y, z) = Jump(s, Pair(s, x))
            \/ HighOpcode(s, x, y, z) = [s EXCEPT !.SP = Pair(s, x)]
        BY <1>2, <2>6, <3>1, Zenon DEF HighOpcode
      <3>3. QED
        BY <2>1, <2>2, <3>2
    <2>7. QED
      BY <2>3, <2>4, <2>5, <2>6
  <1>3. CASE z = 2
    BY <1>3, BranchType DEF HighOpcode
  <1>4. CASE z = 3
    <2>1. /\ jp(s, TRUE) \in Cpu /\ out_byte_a(s) \in Cpu /\ in_a_byte(s) \in Cpu
          /\ ex_xsp(s, x) \in Cpu /\ ex_de_hl(s) \in Cpu /\ di(s) \in Cpu
      BY <1>0, BranchType, PortType, ExchangeType, ControlType
    <2>2. y = 0 \/ y = 2 \/ y = 3 \/ y = 4 \/ y = 5 \/ y = 6
      BY <1>0, <1>4
    <2>3. QED
      <3>1. CASE y = 0
        <4>1. /\ z # 0 /\ z # 1 /\ z # 2 /\ z # 4 /\ z # 5 /\ z # 6 /\ z # 7
              /\ y # 2 /\ y # 3 /\ y # 4 /\ y # 5 /\ y # 6
          BY <1>4, <3>1
        <4>2. HighOpcode(s, x, y, z) = jp(s, TRUE)
          BY <1>4, <3>1, <4>1, Zenon DEF HighOpcode
        <4>3. QED
          BY <2>1, <4>2
      <3>2. CASE y # 0
        BY <1>4, <2>1, <2>2, <3>2 DEF HighOpcode
      <3>3. QED
        BY <3>1, <3>2
  <1>5. CASE z = 4
    BY <1>5, BranchType DEF HighOpcode
  <1>6. CASE z = 5
    <2>1. push(s, Stacked(x, y)) \in Cpu /\ call(s, TRUE) \in Cpu
      BY <1>0, StackType, BranchType
    <2>2. y % 2 = 0 \/ y = 1
      BY <1>0, <1>6
    <2>3. CASE y % 2 = 0
      <3>1. y # 1
        BY <2>3
      <3>2. QED
        BY <1>6, <2>1, <2>3, <3>1 DEF HighOpcode
    <2>4. CASE y = 1
      <3>1. /\ z # 0 /\ z # 1 /\ z # 2 /\ z # 3 /\ z # 4 /\ z # 6 /\ z # 7
            /\ ~(y % 2 = 0)
        BY <1>6, <2>4
      <3>2. HighOpcode(s, x, y, z) = call(s, TRUE)
        BY <1>6, <2>4, <3>1, Zenon DEF HighOpcode
      <3>3. QED
        BY <2>1, <3>2
    <2>5. QED
      BY <2>2, <2>3, <2>4
  <1>7. CASE z = 6
    <2>1. Skip(s, 1) \in Cpu /\ Arg(s) \in Byte
      BY <1>0, JumpType
    <2>2. QED
      BY <1>7, <2>1, AluType DEF HighOpcode
  <1>8. CASE z = 7
    <2>1. 8 * y \in WordSet
      BY InWord DEF Octal
    <2>2. QED
      BY <1>8, <2>1, BranchType DEF HighOpcode
  <1>9. QED
    BY <1>1, <1>2, <1>3, <1>4, <1>5, <1>6, <1>7, <1>8 DEF Octal

(* An opcode has three octal digits.                                       *)
LEMMA Digits ==
  ASSUME NEW op \in Byte
  PROVE  (op \div 8) % 8 \in Octal /\ op % 8 \in Octal
  <1>1. op \in Int /\ 0 <= op /\ op < 256
    BY InByte, Integral
  <1>2. QED
    BY <1>1 DEF Octal

(* The digits determine the opcode: those that have entries of their own in*)
(* the table are no others.                                                *)
LEMMA Opcode ==
  ASSUME NEW op \in Byte, NEW w \in {1, 3}, 64 * w <= op, op < 64 * w + 64
  PROVE  op = 64 * w + 8 * ((op \div 8) % 8) + (op % 8)
  <1>. DEFINE q == op \div 8
              m == q % 8
              r == op % 8
  <1>1. op \in Int /\ 0 <= op /\ op < 256
    BY InByte, Integral
  <1>2. q \in Int /\ 8 * w <= q /\ q < 8 * w + 8 /\ r = op - 8 * q
    BY <1>1
  <1>. HIDE DEF q, r
  <1>3. m = q - 8 * w
    BY <1>2
  <1>. HIDE DEF m
  <1>4. op = 64 * w + 8 * m + r
    BY <1>1, <1>2, <1>3
  <1>5. QED
    BY <1>4 DEF q, m, r

(* Every opcode that is no prefix and not EI.                              *)
LEMMA UnprefixedType ==
  ASSUME NEW s \in Cpu, NEW x \in Index, NEW op \in Byte, op \notin {203, 221, 237, 251, 253}
  PROVE  Unprefixed(s, x, op) \in Cpu
  <1>. DEFINE y == (op \div 8) % 8
              z == op % 8
  <1>1. y \in Octal /\ z \in Octal /\ op \in Int
    BY Digits, Integral
  <1>2. \A w \in {1, 3} : 64 * w <= op /\ op < 64 * w + 64 => op = 64 * w + 8 * y + z
    BY Opcode
  <1>. HIDE DEF y, z
  <1>4. CASE op < 64
    BY <1>1, <1>4, LowOpcodeType DEF Unprefixed, y, z
  <1>5. CASE op = 118
    BY <1>5, ControlType DEF Unprefixed
  <1>6. CASE op \in (64 .. 127) \ {118}
    <2>0. op = 64 + 8 * y + z
      BY <1>1, <1>2, <1>6
    <2>1. ~(y = 6 /\ z = 6)
      BY <2>0, <1>6
    <2>2. ld(s, x, y, z) \in Cpu
      BY <1>1, <2>1, LoadType
    <2>3. QED
      BY <1>1, <1>6, <2>2 DEF Unprefixed, y, z
  <1>7. CASE op \in 128 .. 191
    <2>1. Value(s, Place(x, z), Address(s, x)) \in Byte /\ Addressed(s, x, z) \in Cpu
      BY <1>1, PlaceType, AddressType, ValueType
    <2>2. Alu(Addressed(s, x, z), y, Value(s, Place(x, z), Address(s, x))) \in Cpu
      BY <1>1, <2>1, AluType
    <2>3. QED
      BY <1>7, <2>2 DEF Unprefixed, y, z
  <1>8. CASE op > 191
    <2>0. op = 192 + 8 * y + z
      <3>1. op < 256
        BY InByte, Integral
      <3>2. QED
        BY <1>1, <1>2, <1>8, <3>1
    <2>1. ~(z = 3 /\ y \in {1, 7}) /\ ~(z = 5 /\ y \in {3, 5, 7})
      BY <2>0
    <2>2. HighOpcode(s, x, y, z) \in Cpu
      BY <1>1, <2>1, HighOpcodeType
    <2>3. QED
      BY <1>1, <1>8, <2>2 DEF Unprefixed, y, z
  <1>9. QED
    BY <1>1, <1>4, <1>5, <1>6, <1>7, <1>8

(* Opcodes after CB.                                                       *)
LEMMA BitOpType ==
  ASSUME NEW s \in Cpu, NEW op \in Byte, NEW place \in Places, NEW a
  PROVE  BitOp(s, op, place, a) \in Cpu
  <1>. DEFINE y == (op \div 8) % 8
  <1>1. y \in Octal /\ op \in Int
    BY Digits, Integral
  <1>2. /\ rotate(s, y, place, a) \in Cpu /\ bit(s, y, Value(s, place, a)) \in Cpu
        /\ res(s, y, place, a) \in Cpu /\ set(s, y, place, a) \in Cpu
    BY <1>1, ValueType, RotateType, BitType, ResSetType
  <1>3. op < 64 \/ op \in 64 .. 127 \/ op \in 128 .. 191 \/ op > 191
    BY <1>1
  <1>. HIDE DEF y
  <1>4. QED
    BY <1>1, <1>2, <1>3 DEF BitOp, y

(* Opcodes after CB, DD and FD, and after DDCB and FDCB.                   *)
LEMMA PrefixedType ==
  ASSUME NEW s \in Cpu, NEW op \in Byte
  PROVE  /\ opcode_cb(s, op) \in Cpu
         /\ \A x \in {"IX", "IY"} : indexed_cb(s, x) \in Cpu /\ opcode_dd(s, x, op) \in Cpu
  <1>1. opcode_cb(s, op) \in Cpu
    <2>1. Place("HL", op % 8) \in Places
      BY Digits, PlaceType DEF Index
    <2>2. QED
      BY <2>1, BitOpType DEF opcode_cb
  <1>2. ASSUME NEW x \in {"IX", "IY"} PROVE indexed_cb(s, x) \in Cpu
    <2>. DEFINE last == RDMEM(s, (s.PC + 1) % 65536)
                t == IF last % 8 = 6 \/ last \in 64 .. 127 THEN BitOp(s, last, "M", Address(s, x)) ELSE s
    <2>1. last \in Byte
      BY RdmemType
    <2>2. indexed_cb(s, x) = Skip(t, 2)
      BY DEF indexed_cb
    <2>. HIDE DEF last
    <2>3. t \in Cpu
      BY <2>1, BitOpType DEF Places
    <2>. HIDE DEF t
    <2>4. 2 \in Int
      OBVIOUS
    <2>5. QED
      BY <2>2, <2>3, <2>4, JumpType
  <1>3. ASSUME NEW x \in {"IX", "IY"} PROVE opcode_dd(s, x, op) \in Cpu
    <2>1. -1 \in Int /\ x \in Index
      BY DEF Index
    <2>2. Skip(s, -1) \in Cpu
      BY <2>1, JumpType
    <2>3. CASE op \in Indexable \ {118}
      <3>1. op \notin {203, 221, 237, 251, 253}
        BY <2>3 DEF Indexable
      <3>2. QED
        BY <2>1, <2>3, <3>1, UnprefixedType DEF opcode_dd
    <2>4. CASE op \notin Indexable \ {118}
      BY <1>2, <2>2, <2>4 DEF opcode_dd
    <2>5. QED
      BY <2>3, <2>4
  <1>4. QED
    BY <1>1, <1>2, <1>3

(* Opcodes after ED, those without an instruction included.                *)
LEMMA ExtendedType ==
  ASSUME NEW s \in Cpu, NEW op \in Byte
  PROVE  opcode_ed(s, op) \in Cpu
  <1>. DEFINE y == (op \div 8) % 8
              z == op % 8
  <1>1. y \in {0, 1, 2, 3, 4, 5, 6, 7} /\ z \in {0, 1, 2, 3, 4, 5, 6, 7} /\ op \in Int
    BY Digits, Integral DEF Octal
  <1>2. y \in Octal /\ z \in Octal /\ (y % 2 = 0 \/ y % 2 = 1)
    BY Digits, Halved
  <1>. HIDE DEF y, z
  <1>3. in_c(s, y) \in Cpu /\ out_c(s, y) \in Cpu
    <2>1. 1 \in Int
      OBVIOUS
    <2>2. QED
      BY <1>2, <2>1, PortType
  <1>4. Wide("HL", y) \in Pairs
    BY <1>2, OperandPairs DEF Index
  <1>5. sbc_hl(s, Wide("HL", y)) \in Cpu /\ adc_hl(s, Wide("HL", y)) \in Cpu
    BY <1>4, WordArithmeticType
  <1>6. ld_xword(s, Wide("HL", y)) \in Cpu /\ ld_word_x(s, Wide("HL", y)) \in Cpu
    <2>1. "HL" \in Index
      BY DEF Index
    <2>2. QED
      BY <1>4, <2>1, LoadType
  <1>7. neg(s) \in Cpu
    <2>1. 0 \in Byte
      BY DEF Byte
    <2>2. QED
      BY <2>1, AccumulatorType
  <1>8. (IF y % 2 = 0 THEN retn(s) ELSE ret(s, TRUE)) \in Cpu
    BY ControlType, BranchType
  <1>9. im(s, y) \in Cpu
    BY <1>2, ControlType
  <1>10. Special(s, y) \in Cpu
    <2>1. [s EXCEPT !.I = s.A] \in Cpu
      BY Read, PutByte
    <2>2. QED
      BY <1>1, <2>1, LdAType, DigitType DEF Special
  <1>11. z < 4 => Block(s, y, z) \in Cpu
    <2>. DEFINE d == IF y % 2 = 0 THEN 1 ELSE -1
    <2>1. d \in Int
      OBVIOUS
    <2>2. y < 6 \/ y > 5
      BY <1>1
    <2>. HIDE DEF d
    <2>3. /\ ldi(s, d) \in Cpu /\ ldir(s, d) \in Cpu /\ cpi(s, d) \in Cpu /\ cpir(s, d) \in Cpu
          /\ ini(s, d) \in Cpu /\ inir(s, d) \in Cpu /\ outi(s, d) \in Cpu /\ otir(s, d) \in Cpu
      BY <2>1, BlockMoveType, SearchType, PortType
    <2>4. QED
      BY <1>1, <2>2, <2>3 DEF Block, d
  <1>12. Extended(s, y, z) \in Cpu
    <2>1. CASE z \in {0, 1, 4, 6, 7}
      <3>1. CASE z = 0
        BY <3>1, <1>3 DEF Extended
      <3>2. CASE z = 1
        BY <3>2, <1>3 DEF Extended
      <3>3. CASE z = 4
        BY <3>3, <1>7 DEF Extended
      <3>4. CASE z = 6
        BY <3>4, <1>9 DEF Extended
      <3>5. CASE z = 7
        BY <3>5, <1>10 DEF Extended
      <3>6. QED
        BY <2>1, <3>1, <3>2, <3>3, <3>4, <3>5
    <2>0. CASE z = 2
      BY <2>0, <1>5 DEF Extended
    <2>3. CASE z = 3
      BY <2>3, <1>6 DEF Extended
    <2>2. CASE z = 5
      <3>1. /\ z # 0 /\ z # 1 /\ z # 2 /\ z # 3 /\ z # 4 /\ z # 6 /\ z # 7
        BY <2>2
      <3>2. Extended(s, y, z) = IF y % 2 = 0 THEN retn(s) ELSE ret(s, TRUE)
        BY <2>2, <3>1, Zenon DEF Extended
      <3>3. QED
        BY <1>8, <3>2
    <2>4. QED
      BY <1>1, <2>0, <2>1, <2>2, <2>3
  <1>13. CASE op \in 64 .. 127
    BY <1>12, <1>13, <1>1 DEF opcode_ed, y, z
  <1>14. CASE op \in 160 .. 191 /\ z < 4
    BY <1>11, <1>14, <1>1 DEF opcode_ed, y, z
  <1>15. CASE op \notin 64 .. 127 /\ ~(op \in 160 .. 191 /\ z < 4)
    BY <1>15 DEF opcode_ed, y, z
  <1>16. QED
    BY <1>13, <1>14, <1>15

(* Every opcode moves PC and refreshes memory.                             *)
LEMMA FetchType ==
  ASSUME NEW s \in Cpu
  PROVE  Fetch(s) \in Cpu
  <1>1. 1 \in Int
    OBVIOUS
  <1>. DEFINE t == Skip(s, 1)
  <1>2. t \in Cpu
    BY <1>1, JumpType
  <1>. DEFINE r == (t.R + 1) % 128
  <1>3. Fetch(s) = [t EXCEPT !.R = r]
    BY DEF Fetch
  <1>. HIDE DEF t
  <1>4. r \in 0 .. 127
    BY <1>2, Read
  <1>. HIDE DEF r
  <1>5. QED
    BY <1>2, <1>3, <1>4, PutRefresh

(* Every opcode but EI.                                                    *)
LEMMA MainType ==
  ASSUME NEW s \in Cpu, NEW op \in Byte, op # 251
  PROVE  opcode_main(s, op) \in Cpu
  <1>1. Fetch(s) \in Cpu /\ Arg(s) \in Byte
    BY FetchType, JumpType
  <1>2. /\ opcode_cb(Fetch(s), Arg(s)) \in Cpu
        /\ opcode_dd(Fetch(s), "IX", Arg(s)) \in Cpu
        /\ opcode_dd(Fetch(s), "IY", Arg(s)) \in Cpu
        /\ opcode_ed(Fetch(s), Arg(s)) \in Cpu
    BY <1>1, PrefixedType, ExtendedType
  <1>3. CASE op \in {203, 221, 237, 253}
    BY <1>2, <1>3 DEF opcode_main
  <1>4. CASE op \notin {203, 221, 237, 253}
    <2>1. Unprefixed(s, "HL", op) \in Cpu
      BY <1>4, UnprefixedType DEF Index
    <2>2. QED
      BY <1>4, <2>1 DEF opcode_main
  <1>5. QED
    BY <1>3, <1>4

(* An interrupt pushes PC and disables interrupts; it leaves a HALT.       *)
LEMMA InterruptType ==
  ASSUME NEW s \in Cpu, NEW alarm
  PROVE  Z80_Interrupt(s, alarm) \in Cpu
  <1>1. ASSUME NEW r \in Cpu PROVE Interrupt(r) \in Cpu
    <2>. DEFINE u == IF r.HALT = 1 THEN Skip(r, 1) ELSE r
                t == [u EXCEPT !.IFF1 = 0, !.HALT = 0]
                v == [t EXCEPT !.intflag = 0]
    <2>1. u \in Cpu
      <3>1. 1 \in Int
        OBVIOUS
      <3>2. QED
        BY <3>1, JumpType
    <2>2. Interrupt(r) = CASE r.IFF1 = 0 -> r
                           [] r.IFF1 = 1 /\ r.IM = 1 /\ r.intflag = 1 -> rst(v, 56)
                           [] OTHER -> t
      BY DEF Interrupt
    <2>. HIDE DEF u
    <2>3. t \in Cpu
      <3>1. t = [[u EXCEPT !.IFF1 = 0] EXCEPT !.HALT = 0]
        OBVIOUS
      <3>2. [u EXCEPT !.IFF1 = 0] \in Cpu
        BY <2>1, PutControl
      <3>3. QED
        BY <3>1, <3>2, PutControl
    <2>. HIDE DEF t
    <2>4. v \in Cpu
      BY <2>3, PutControl
    <2>. HIDE DEF v
    <2>5. rst(v, 56) \in Cpu
      <3>1. 56 \in WordSet
        BY InWord
      <3>2. QED
        BY <2>4, <3>1, BranchType
    <2>6. QED
      BY <2>2, <2>3, <2>5
  <1>2. [s EXCEPT !.intflag = 1] \in Cpu
    BY PutControl
  <1>3. QED
    BY <1>1, <1>2 DEF Z80_Interrupt

(* EI executes one more instruction and checks for an interrupt.           *)
LEMMA EiType ==
  ASSUME NEW s \in Cpu, NEW alarm
  PROVE  ei(s, alarm) \in Cpu
  <1>. DEFINE t == [s EXCEPT !.IFF1 = 1, !.IFF2 = 1]
              next == IF Arg(s) = 251 THEN Fetch(t) ELSE opcode_main(Fetch(t), Arg(s))
  <1>1. t \in Cpu
    <2>1. t = [[s EXCEPT !.IFF1 = 1] EXCEPT !.IFF2 = 1]
      OBVIOUS
    <2>2. [s EXCEPT !.IFF1 = 1] \in Cpu
      BY PutControl
    <2>3. QED
      BY <2>1, <2>2, PutControl
  <1>2. ei(s, alarm) = IF s.IFF1 = 1 THEN [s EXCEPT !.IFF2 = 1] ELSE Z80_Interrupt(next, alarm)
    BY DEF ei
  <1>. HIDE DEF t
  <1>3. next \in Cpu
    BY <1>1, FetchType, JumpType, MainType
  <1>. HIDE DEF next
  <1>4. Z80_Interrupt(next, alarm) \in Cpu
    BY <1>3, InterruptType
  <1>5. [s EXCEPT !.IFF2 = 1] \in Cpu
    BY PutControl
  <1>6. QED
    BY <1>2, <1>4, <1>5

(* A pass of the loop of Z80_Execute, alarms or not.                       *)
LEMMA ExecuteType ==
  ASSUME NEW s \in Cpu, NEW alarm, NEW inEi
  PROVE  Z80_Execute(s, alarm, inEi) \in Cpu
  <1>. DEFINE t == Z80_Interrupt(s, alarm)
  <1>1. t \in Cpu
    BY InterruptType
  <1>2. Z80_Execute(s, alarm, inEi) =
          IF Arg(t) = 251 THEN ei(Fetch(t), inEi) ELSE opcode_main(Fetch(t), Arg(t))
    BY DEF Z80_Execute
  <1>. HIDE DEF t
  <1>3. Fetch(t) \in Cpu /\ Arg(t) \in Byte
    BY <1>1, FetchType, JumpType
  <1>4. ei(Fetch(t), inEi) \in Cpu
    BY <1>3, EiType
  <1>5. Arg(t) # 251 => opcode_main(Fetch(t), Arg(t)) \in Cpu
    BY <1>3, MainType
  <1>6. QED
    BY <1>2, <1>4, <1>5

----------------------------------------------------------------------------
(* The alarms of a pass are counted.                                       *)
LEMMA AlarmCount ==
  ASSUME NEW a \in BOOLEAN, NEW inEi \in BOOLEAN
  PROVE  /\ Sounded(a, inEi) \in Nat
         /\ Sounded(a, inEi) = 0 => ~a /\ ~inEi
  <1>. DEFINE X == {i \in 1 .. 2 : <<a, inEi>>[i]}
  <1>1. IsFiniteSet(X)
    BY FS_Interval, FS_Subset
  <1>2. Cardinality(X) \in Nat /\ (Cardinality(X) = 0 => X = {})
    BY <1>1, FS_CardinalityType, FS_EmptySet
  <1>3. X = {} => ~a /\ ~inEi
    OBVIOUS
  <1>4. QED
    BY <1>2, <1>3 DEF Sounded

(* Whatever the program, wherever memory is and whenever alarms come, no   *)
(* instruction of z80.c leaves a value in a register, a flip-flop or memory*)
(* that does not fit it.                                                   *)
THEOREM TypeCorrect == Spec => []TypeOK
  <1>1. Init => TypeOK
    <2>1. ASSUME Init PROVE TypeOK
      <3>1. MaxAlarms \in Nat /\ routine \in Routines /\ Start(routine) \in Cpu
        BY <2>1, MachineAssumption DEF Init
      <3>2. QED
        BY <2>1, <3>1 DEF Init, TypeOK
    <2>2. QED
      BY <2>1
  <1>2. TypeOK /\ [Next]_vars => TypeOK'
    <2>1. ASSUME TypeOK, NEW a \in BOOLEAN, NEW inEi \in BOOLEAN, Pass(a, inEi)
          PROVE  TypeOK'
      <3>1. cpu \in Cpu /\ alarms \in Int /\ 0 <= alarms
        BY <2>1 DEF TypeOK
      <3>2. cpu' \in Cpu
        BY <2>1, <3>1, ExecuteType DEF Pass, Passed
      <3>3. alarms' \in 0 .. MaxAlarms
        BY <2>1, <3>1, AlarmCount, MachineAssumption DEF Pass
      <3>4. QED
        BY <3>2, <3>3 DEF TypeOK
    <2>2. ASSUME TypeOK, UNCHANGED vars PROVE TypeOK'
      BY <2>2 DEF TypeOK, vars
    <2>3. QED
      BY <2>1, <2>2 DEF Next
  <1>3. QED
    BY <1>1, <1>2, PTL DEF Spec
----------------------------------------------------------------------------
(* Bit 8 of a sum or difference, the C of M_ADD and M_SUB, is a carry.     *)
LEMMA BitEight ==
  ASSUME NEW n \in -256 .. 511
  PROVE  Bit(n, 8) = 1 <=> n \notin 0 .. 255
  BY DEF Bit

(* The parity of three bits 4, M_ADD's H, is the carry of the lower digits.*)
LEMMA SumDigit ==
  ASSUME NEW a \in Int, NEW r \in Int
  PROVE  Parity(4, a, a + r, r) = 1 <=> (a % 16) + (r % 16) > 15
  <1>. DEFINE qa == a \div 16
              qr == r \div 16
              k == IF (a % 16) + (r % 16) > 15 THEN 1 ELSE 0
  <1>1. qa \in Int /\ qr \in Int /\ k \in 0 .. 1
    OBVIOUS
  <1>2. (a + r) \div 16 = qa + qr + k
    OBVIOUS
  <1>3. Parity(4, a, a + r, r) = ((qa % 2) + ((qa + qr + k) % 2) + (qr % 2)) % 2
    BY <1>2 DEF Parity, Bit
  <1>. HIDE DEF qa, qr
  <1>4. ((qa % 2) + ((qa + qr + k) % 2) + (qr % 2)) % 2 = k
    BY <1>1
  <1>5. QED
    BY <1>3, <1>4

(* M_SUB's H is the borrow of the lower digits.                            *)
LEMMA DifferenceDigit ==
  ASSUME NEW a \in Int, NEW r \in Int
  PROVE  Parity(4, a, a - r, r) = 1 <=> (a % 16) - (r % 16) < 0
  <1>. DEFINE qa == a \div 16
              qr == r \div 16
              k == IF (a % 16) - (r % 16) < 0 THEN 1 ELSE 0
  <1>1. qa \in Int /\ qr \in Int /\ k \in 0 .. 1
    OBVIOUS
  <1>2. (a - r) \div 16 = qa - qr - k
    OBVIOUS
  <1>3. Parity(4, a, a - r, r) = ((qa % 2) + ((qa - qr - k) % 2) + (qr % 2)) % 2
    BY <1>2 DEF Parity, Bit
  <1>. HIDE DEF qa, qr
  <1>4. ((qa % 2) + ((qa - qr - k) % 2) + (qr % 2)) % 2 = k
    BY <1>1
  <1>5. QED
    BY <1>3, <1>4

(* M_ADD's comparison of signs is signed overflow, except of an operand of *)
(* 256: 255 and a carry.                                                   *)
LEMMA SumOverflow ==
  ASSUME NEW a \in Int, 0 <= a, a < 256, NEW r \in Int, 0 <= r, r < 257
  PROVE  Bit(r, 7) = Bit(a, 7) /\ Bit(r, 7) # Bit(a + r, 7)
           <=> r < 256 /\ Signed(a) + Signed(r) \notin -128 .. 127
  BY DEF Bit, Signed

(* M_SUB's comparison of signs is signed overflow, with the same exception.*)
LEMMA DifferenceOverflow ==
  ASSUME NEW a \in Int, 0 <= a, a < 256, NEW r \in Int, 0 <= r, r < 257
  PROVE  Bit(r, 7) # Bit(a, 7) /\ Bit(r, 7) = Bit(a - r, 7)
           <=> r < 256 /\ Signed(a) - Signed(r) \notin -128 .. 127
  <1>1. CASE r < 128
    BY <1>1 DEF Bit, Signed
  <1>2. CASE 128 <= r /\ r < 256
    BY <1>2 DEF Bit, Signed
  <1>3. CASE r = 256
    BY <1>3 DEF Bit, Signed
  <1>4. QED
    BY <1>1, <1>2, <1>3

(* ADD and ADC do what arithmetic says.                                    *)
LEMMA SumMeans ==
  ASSUME NEW a \in Byte, NEW v \in Byte, NEW c \in {0, 1}, NEW y \in {0, 1}, NEW t,
         t.A = M_ADD(a, v + c).v, t.F = M_ADD(a, v + c).f
  PROVE  Arithmetic(y, a, v, c, t)
  <1>. DEFINE r == v + c
              total == a + v + c
              digit == (a % 16) + (v % 16) + c
              signed == Signed(a) + Signed(v) + c
  <1>1. /\ a \in Int /\ 0 <= a /\ a < 256 /\ v \in Int /\ 0 <= v /\ v < 256
        /\ r \in Int /\ 0 <= r /\ r < 257 /\ r = v + c
    <2>1. /\ a \in Int /\ 0 <= a /\ a < 256 /\ v \in Int /\ 0 <= v /\ v < 256
      BY InByte, Integral
    <2>2. QED
      BY <2>1
  <1>0. t.A = M_ADD(a, r).v /\ t.F = M_ADD(a, r).f
    OBVIOUS
  <1>. HIDE DEF r
  <1>8. total = a + r /\ a + r \in -256 .. 511
    BY <1>1
  <1>. DEFINE u == M_ADD(a, r)
  <1>10. /\ u.v = (a + r) % 256 /\ N_FLAG \notin u.f
         /\ C_FLAG \in u.f <=> Bit(a + r, 8) = 1
         /\ Z_FLAG \in u.f <=> (a + r) % 256 = 0
         /\ S_FLAG \in u.f <=> (a + r) % 256 >= 128
         /\ H_FLAG \in u.f <=> Parity(4, a, a + r, r) = 1
         /\ V_FLAG \in u.f <=> Bit(r, 7) = Bit(a, 7) /\ Bit(r, 7) # Bit(a + r, 7)
    BY <1>1 DEF u, M_ADD, ZSTable, When, C_FLAG, N_FLAG, V_FLAG, H_FLAG, Z_FLAG, S_FLAG
  <1>. HIDE DEF u
  <1>9. /\ t.A = (a + r) % 256 /\ N_FLAG \notin t.F
        /\ C_FLAG \in t.F <=> Bit(a + r, 8) = 1
        /\ Z_FLAG \in t.F <=> (a + r) % 256 = 0
        /\ S_FLAG \in t.F <=> (a + r) % 256 >= 128
        /\ H_FLAG \in t.F <=> Parity(4, a, a + r, r) = 1
        /\ V_FLAG \in t.F <=> Bit(r, 7) = Bit(a, 7) /\ Bit(r, 7) # Bit(a + r, 7)
    BY <1>0, <1>10 DEF u
  <1>. HIDE DEF total
  <1>2. C_FLAG \in t.F <=> total \notin Byte
    BY <1>8, <1>9, BitEight DEF Byte
  <1>3. /\ t.A = total % 256 /\ N_FLAG \notin t.F
        /\ Z_FLAG \in t.F <=> total % 256 = 0
        /\ S_FLAG \in t.F <=> total % 256 > 127
    BY <1>8, <1>9
  <1>4. (c = 1 /\ v % 16 = 15) \/ (H_FLAG \in t.F <=> digit \notin 0 .. 15)
    <2>1. H_FLAG \in t.F <=> (a % 16) + (r % 16) > 15
      BY <1>1, <1>9, SumDigit
    <2>2. ~(c = 1 /\ v % 16 = 15) => r % 16 = (v % 16) + c
      BY <1>1
    <2>3. digit \in Int /\ 0 <= digit
      BY <1>1
    <2>4. QED
      BY <1>1, <2>1, <2>2, <2>3
  <1>5. (c = 1 /\ v = 127) \/ (V_FLAG \in t.F <=> signed \notin -128 .. 127)
    <2>1. V_FLAG \in t.F <=> r < 256 /\ Signed(a) + Signed(r) \notin -128 .. 127
      BY <1>1, <1>9, SumOverflow
    <2>2. r < 256 /\ ~(c = 1 /\ v = 127) => Signed(a) + Signed(r) = signed
      BY <1>1 DEF Signed
    <2>3. r = 256 => signed \in -128 .. 127
      BY <1>1 DEF Signed
    <2>4. QED
      BY <1>1, <2>1, <2>2, <2>3
  <1>6. y < 2 /\ y # 7
    OBVIOUS
  <1>7. QED
    BY <1>2, <1>3, <1>4, <1>5, <1>6 DEF Arithmetic, total

(* SUB, SBC and CP do what arithmetic says.                                *)
LEMMA DifferenceMeans ==
  ASSUME NEW a \in Byte, NEW v \in Byte, NEW c \in {0, 1}, NEW y \in {2, 3, 7}, NEW t,
         t.A = IF y = 7 THEN a ELSE M_SUB(a, v + c).v, t.F = M_SUB(a, v + c).f
  PROVE  Arithmetic(y, a, v, c, t)
  <1>. DEFINE r == v + c
              total == a - v - c
              digit == (a % 16) - (v % 16) - c
              signed == Signed(a) - Signed(v) - c
  <1>1. /\ a \in Int /\ 0 <= a /\ a < 256 /\ v \in Int /\ 0 <= v /\ v < 256
        /\ r \in Int /\ 0 <= r /\ r < 257 /\ r = v + c
    <2>1. /\ a \in Int /\ 0 <= a /\ a < 256 /\ v \in Int /\ 0 <= v /\ v < 256
      BY InByte, Integral
    <2>2. QED
      BY <2>1
  <1>0. t.A = (IF y = 7 THEN a ELSE M_SUB(a, r).v) /\ t.F = M_SUB(a, r).f
    OBVIOUS
  <1>. HIDE DEF r
  <1>8. total = a - r /\ a - r \in -256 .. 511
    BY <1>1
  <1>. DEFINE u == M_SUB(a, r)
  <1>10. /\ u.v = (a - r) % 256 /\ N_FLAG \in u.f
         /\ C_FLAG \in u.f <=> Bit(a - r, 8) = 1
         /\ Z_FLAG \in u.f <=> (a - r) % 256 = 0
         /\ S_FLAG \in u.f <=> (a - r) % 256 >= 128
         /\ H_FLAG \in u.f <=> Parity(4, a, a - r, r) = 1
         /\ V_FLAG \in u.f <=> Bit(r, 7) # Bit(a, 7) /\ Bit(r, 7) = Bit(a - r, 7)
    BY <1>1 DEF u, M_SUB, ZSTable, When, C_FLAG, N_FLAG, V_FLAG, H_FLAG, Z_FLAG, S_FLAG
  <1>. HIDE DEF u
  <1>9. /\ t.A = (IF y = 7 THEN a ELSE (a - r) % 256) /\ N_FLAG \in t.F
        /\ C_FLAG \in t.F <=> Bit(a - r, 8) = 1
        /\ Z_FLAG \in t.F <=> (a - r) % 256 = 0
        /\ S_FLAG \in t.F <=> (a - r) % 256 >= 128
        /\ H_FLAG \in t.F <=> Parity(4, a, a - r, r) = 1
        /\ V_FLAG \in t.F <=> Bit(r, 7) # Bit(a, 7) /\ Bit(r, 7) = Bit(a - r, 7)
    BY <1>0, <1>10 DEF u
  <1>. HIDE DEF total
  <1>2. C_FLAG \in t.F <=> total \notin Byte
    BY <1>8, <1>9, BitEight DEF Byte
  <1>3. /\ t.A = IF y = 7 THEN a ELSE total % 256
        /\ N_FLAG \in t.F
        /\ Z_FLAG \in t.F <=> total % 256 = 0
        /\ S_FLAG \in t.F <=> total % 256 > 127
    BY <1>8, <1>9
  <1>4. (c = 1 /\ v % 16 = 15) \/ (H_FLAG \in t.F <=> digit \notin 0 .. 15)
    <2>1. H_FLAG \in t.F <=> (a % 16) - (r % 16) < 0
      BY <1>1, <1>9, DifferenceDigit
    <2>2. ~(c = 1 /\ v % 16 = 15) => r % 16 = (v % 16) + c
      BY <1>1
    <2>3. digit \in Int /\ digit < 16
      BY <1>1
    <2>4. QED
      BY <1>1, <2>1, <2>2, <2>3
  <1>5. (c = 1 /\ v = 127) \/ (V_FLAG \in t.F <=> signed \notin -128 .. 127)
    <2>1. V_FLAG \in t.F <=> r < 256 /\ Signed(a) - Signed(r) \notin -128 .. 127
      BY <1>1, <1>9, DifferenceOverflow
    <2>2. r < 256 /\ ~(c = 1 /\ v = 127) => Signed(a) - Signed(r) = signed
      BY <1>1 DEF Signed
    <2>3. r = 256 => signed \in -128 .. 127
      BY <1>1 DEF Signed
    <2>4. QED
      BY <1>1, <2>1, <2>2, <2>3
  <1>6. ~(y < 2)
    OBVIOUS
  <1>7. QED
    BY <1>2, <1>3, <1>4, <1>5, <1>6 DEF Arithmetic, total

(* The operations of the opcode table do what arithmetic says.             *)
LEMMA AluMeans ==
  ASSUME NEW s \in Cpu, NEW v \in Byte, NEW y \in {0, 1, 2, 3, 7}
  PROVE  Arithmetic(y, s.A, v, IF y \in {1, 3} THEN Carry(s) ELSE 0, Alu(s, y, v))
  <1>1. /\ s.A \in Byte /\ Carry(s) \in {0, 1} /\ v \in Int
        /\ v + 0 = v /\ v + Carry(s) \in Int /\ s.A \in Int
    BY Read, CarryType, Integral
  <1>2. \A t : Into(s, t).A = t.v /\ Into(s, t).F = t.f
    BY DEF Into, Cpu
  <1>3. CASE y = 0
    <2>1. Alu(s, y, v) = Into(s, M_ADD(s.A, v + 0))
      BY <1>1, <1>3 DEF Alu, add_a
    <2>2. QED
      BY <1>1, <1>2, <1>3, <2>1, SumMeans
  <1>4. CASE y = 1
    <2>1. Alu(s, y, v) = Into(s, M_ADD(s.A, v + Carry(s)))
      BY <1>1, <1>4 DEF Alu, adc_a
    <2>2. QED
      BY <1>1, <1>2, <1>4, <2>1, SumMeans
  <1>5. CASE y = 2
    <2>1. Alu(s, y, v) = Into(s, M_SUB(s.A, v + 0))
      BY <1>1, <1>5 DEF Alu, sub
    <2>2. QED
      BY <1>1, <1>2, <1>5, <2>1, DifferenceMeans
  <1>6. CASE y = 3
    <2>1. Alu(s, y, v) = Into(s, M_SUB(s.A, v + Carry(s)))
      BY <1>1, <1>6 DEF Alu, sbc_a
    <2>2. QED
      BY <1>1, <1>2, <1>6, <2>1, DifferenceMeans
  <1>7. CASE y = 7
    <2>1. Alu(s, y, v) = [s EXCEPT !.F = M_SUB(s.A, v + 0).f]
      BY <1>1, <1>7 DEF Alu, cp
    <2>2. Alu(s, y, v).A = s.A /\ Alu(s, y, v).F = M_SUB(s.A, v + 0).f
      BY <2>1 DEF Cpu
    <2>3. QED
      BY <1>1, <1>7, <2>2, DifferenceMeans
  <1>8. QED
    BY <1>3, <1>4, <1>5, <1>6, <1>7

(* ADD, ADC, SUB, SBC and CP of every operand, in a pass without an alarm. *)
LEMMA ExecutesAlu ==
  ASSUME NEW s \in Cpu, Arg(s) \in 128 .. 191
  PROVE  LET op == Arg(s)
             y == (op \div 8) % 8
             f == Fetch(s)
             v == Value(s, Place("HL", op % 8), Pair(s, "HL"))
         IN  /\ Z80_Execute(s, FALSE, FALSE) = Alu(f, y, v)
             /\ f \in Cpu /\ v \in Byte /\ y \in Octal /\ f.A = s.A /\ Carry(f) = Carry(s)
  <1>. DEFINE op == Arg(s)
              y == (op \div 8) % 8
              z == op % 8
              f == Fetch(s)
              v == Value(s, Place("HL", z), Pair(s, "HL"))
  <1>1. op \in Byte /\ op \in 128 .. 191 /\ y \in Octal /\ z \in Octal
    BY JumpType, Digits
  <1>2. f \in Cpu
    BY FetchType
  <1>3. (\A n \in Registers : f[n] = s[n]) /\ f.mem = s.mem /\ f.F = s.F
    <2>. DEFINE w == (s.PC + 1) % 65536
                t == [s EXCEPT !.PC = w]
                r == (t.R + 1) % 128
    <2>1. f = [t EXCEPT !.R = r]
      BY DEF Fetch, Skip
    <2>. HIDE DEF w, r
    <2>2. QED
      BY <2>1 DEF Cpu, Registers
  <1>5. Pair(f, "HL") = Pair(s, "HL") /\ Address(f, "HL") = Pair(s, "HL")
    BY <1>3 DEF Pair, Address, High, Low, Registers
  <1>6. Value(f, Place("HL", z), Address(f, "HL")) = v
    <2>1. Place("HL", z) \in Places
      BY <1>1, PlaceType DEF Index
    <2>2. QED
      BY <1>3, <1>5, <2>1 DEF Value, RDMEM, Places
  <1>7. v \in Byte
    <2>1. Place("HL", z) \in Places
      BY <1>1, PlaceType DEF Index
    <2>2. QED
      BY <2>1, ValueType
  <1>8. Z80_Execute(s, FALSE, FALSE) = opcode_main(f, op)
    <2>1. Z80_Interrupt(s, FALSE) = s
      BY DEF Z80_Interrupt
    <2>2. op # 251
      BY <1>1
    <2>3. QED
      BY <2>1, <2>2, Zenon DEF Z80_Execute
  <1>9. opcode_main(f, op) = Unprefixed(f, "HL", op)
    BY <1>1 DEF opcode_main
  <1>10. Unprefixed(f, "HL", op)
           = Alu(Addressed(f, "HL", z), y, Value(f, Place("HL", z), Address(f, "HL")))
    BY <1>1 DEF Unprefixed
  <1>11. Addressed(f, "HL", z) = f
    BY DEF Addressed
  <1>12. Carry(f) = Carry(s) /\ f.A = s.A
    BY <1>3 DEF Carry, Registers
  <1>13. QED
    BY <1>1, <1>2, <1>6, <1>7, <1>8, <1>9, <1>10, <1>11, <1>12

(* The flags of ADD, ADC, SUB, SBC and CP are what arithmetic says, for    *)
(* every accumulator, operand, carry, address and program: the two cases in*)
(* which M_ADC and M_SBC differ from it are those FlagsMeanArithmetic      *)
(* names.                                                                  *)
THEOREM FlagsCorrect == Spec => FlagsMeanArithmetic
  <1>. DEFINE op == Arg(cpu)
              y == (op \div 8) % 8
              v == Value(cpu, Place("HL", op % 8), Pair(cpu, "HL"))
              c == IF y \in {1, 3} THEN Carry(cpu) ELSE 0
              A == op \in 128 .. 191 /\ y \in {0, 1, 2, 3, 7} /\ alarms' = alarms
                     => Arithmetic(y, cpu.A, v, c, cpu')
  <1>1. TypeOK /\ [Next]_vars => [A]_vars
    <2>1. ASSUME TypeOK, NEW a \in BOOLEAN, NEW inEi \in BOOLEAN, Pass(a, inEi),
                 op \in 128 .. 191, y \in {0, 1, 2, 3, 7}, alarms' = alarms
          PROVE  Arithmetic(y, cpu.A, v, c, cpu')
      <3>1. ~a /\ ~inEi
        BY <2>1, AlarmCount DEF Pass, TypeOK
      <3>2. cpu \in Cpu /\ cpu' = Z80_Execute(cpu, FALSE, FALSE)
        BY <2>1, <3>1 DEF Pass, Passed, TypeOK
      <3>3. /\ cpu' = Alu(Fetch(cpu), y, v) /\ Fetch(cpu) \in Cpu /\ v \in Byte
            /\ Fetch(cpu).A = cpu.A /\ Carry(Fetch(cpu)) = Carry(cpu)
        BY <2>1, <3>2, ExecutesAlu
      <3>4. Arithmetic(y, Fetch(cpu).A, v, IF y \in {1, 3} THEN Carry(Fetch(cpu)) ELSE 0, cpu')
        BY <2>1, <3>3, AluMeans
      <3>5. QED
        BY <3>3, <3>4
    <2>2. QED
      BY <2>1 DEF Next
  <1>2. QED
    BY <1>1, TypeCorrect, PTL DEF Spec, FlagsMeanArithmetic
=============================================================================
