------------------------------- MODULE Z80Alu -------------------------------
(***************************************************************************)
(* The operands and the arithmetic of the Z80, as z80.c executes them.  A  *)
(* CPU is a record of registers, memory included; an instruction is an     *)
(* operator from a CPU to the CPU after it, named after the functions of   *)
(* z80.c it stands for: those that differ only in the operands they are    *)
(* written out for.  F is the set of the flags (bits) that are set.        *)
(***************************************************************************)
EXTENDS Integers, FiniteSets, Sequences

CONSTANT
  Ram,      \* the addresses that hold memory; the rest of the bus reads 255
  In(_)     \* Z80_In: the byte an I/O port gives

Byte == 0 .. 255
WordSet == 0 .. 2^16 - 1
ASSUME CoreAssumption ==
  /\ Ram \subseteq WordSet
  /\ \A port \in Byte : In(port) \in Byte

(* The registers, the memory, and the last byte written to a port.         *)
Cpu ==
  [A : Byte, F : SUBSET (0 .. 7), B : Byte, C : Byte, D : Byte, E : Byte, H : Byte, L : Byte,
   IXH : Byte, IXL : Byte, IYH : Byte, IYL : Byte, SP : WordSet, PC : WordSet,
   A2 : Byte, F2 : SUBSET (0 .. 7), BC2 : WordSet, DE2 : WordSet, HL2 : WordSet,
   I : Byte, R : 0 .. 127, R2 : Byte, IM : 0 .. 2, IFF1 : {0, 1}, IFF2 : {0, 1},
   HALT : {0, 1}, intflag : {0, 1}, mem : [Ram -> Byte], out : Byte \X Byte]

C_FLAG == 0
N_FLAG == 1
V_FLAG == 2
H_FLAG == 4
Z_FLAG == 6
S_FLAG == 7

Bit(n, i) == (n \div 2^i) % 2
BitsOf == [n \in Byte |-> {i \in 0 .. 7 : Bit(n, i) = 1}]
Digit(B, i) == IF i \in B THEN 1 ELSE 0
ByteOf == [B \in SUBSET (0 .. 7) |->
             Digit(B, 0) + 2 * Digit(B, 1) + 4 * Digit(B, 2) + 8 * Digit(B, 3)
               + 16 * Digit(B, 4) + 32 * Digit(B, 5) + 64 * Digit(B, 6) + 128 * Digit(B, 7)]
When(b, flag) == IF b THEN {flag} ELSE {}

ZSTable(v) == When(v = 0, Z_FLAG) \cup When(v >= 128, S_FLAG)
ZSPTable(v) == ZSTable(v) \cup When(Cardinality(BitsOf[v]) % 2 = 0, V_FLAG)

Carry(s) == IF C_FLAG \in s.F THEN 1 ELSE 0
Signed(v) == IF v < 128 THEN v ELSE v - 256

----------------------------------------------------------------------------
(* Registers, memory and operands.  "M" is the operand in memory: at HL,   *)
(* or after a prefix at IX or IY and a displacement.                       *)
Low == [BC |-> "C", DE |-> "E", HL |-> "L", IX |-> "IXL", IY |-> "IYL"]
High == [BC |-> "B", DE |-> "D", HL |-> "H", IX |-> "IXH", IY |-> "IYH"]

Pair(s, p) == CASE p = "SP" -> s.SP
                [] p = "AF" -> s.A * 256 + ByteOf[s.F]
                [] OTHER -> s[High[p]] * 256 + s[Low[p]]
SetPair(s, p, w) ==
  CASE p = "SP" -> [s EXCEPT !.SP = w]
    [] p = "AF" -> [s EXCEPT !.A = w \div 256, !.F = BitsOf[w % 256]]
    [] OTHER -> [s EXCEPT ![High[p]] = w \div 256, ![Low[p]] = w % 256]
Advance(s, p, d) == SetPair(s, p, (Pair(s, p) + d) % 65536)

RDMEM(s, a) == IF a \in Ram THEN s.mem[a] ELSE 255
WRMEM(s, a, v) == IF a \in Ram THEN [s EXCEPT !.mem[a] = v] ELSE s
RDMEM_WORD(s, a) == RDMEM(s, a) + 256 * RDMEM(s, (a + 1) % 65536)
WRMEM_WORD(s, a, w) == WRMEM(WRMEM(s, a, w % 256), (a + 1) % 65536, w \div 256)

Jump(s, a) == [s EXCEPT !.PC = a]
Skip(s, n) == [s EXCEPT !.PC = (@ + n) % 65536]
Arg(s) == RDMEM(s, s.PC)
ArgWord(s) == RDMEM_WORD(s, s.PC)

Place(x, i) == CASE i = 4 -> High[x]
                 [] i = 5 -> Low[x]
                 [] OTHER -> <<"B", "C", "D", "E", "", "", "M", "A">>[i + 1]
Address(s, x) == IF x = "HL" THEN Pair(s, x) ELSE (Pair(s, x) + Signed(Arg(s))) % 65536
Addressed(s, x, i) == IF x # "HL" /\ i = 6 THEN Skip(s, 1) ELSE s
Value(s, place, a) == IF place = "M" THEN RDMEM(s, a) ELSE s[place]
Store(s, place, a, v) == IF place = "M" THEN WRMEM(s, a, v) ELSE [s EXCEPT ![place] = v]

----------------------------------------------------------------------------
(* Arithmetic: q need not fit a byte, and r is 256 when a carry is added   *)
(* to 255.                                                                 *)
Parity(i, a, q, r) == (Bit(a, i) + Bit(q, i) + Bit(r, i)) % 2

M_ADD(a, r) ==
  LET q == a + r
  IN  [v |-> q % 256,
       f |-> ZSTable(q % 256) \cup When(Bit(q, 8) = 1, C_FLAG)
               \cup When(Parity(4, a, q, r) = 1, H_FLAG)
               \cup When(Bit(r, 7) = Bit(a, 7) /\ Bit(r, 7) # Bit(q, 7), V_FLAG)]

(* Mutant: the overflow of a difference judged like that of a sum.         *)
M_SUB_as_sum(a, r) ==
  LET q == a - r
  IN  [v |-> q % 256,
       f |-> ZSTable(q % 256) \cup {N_FLAG} \cup When(Bit(q, 8) = 1, C_FLAG)
               \cup When(Parity(4, a, q, r) = 1, H_FLAG)
               \cup When(Bit(r, 7) = Bit(a, 7) /\ Bit(r, 7) # Bit(q, 7), V_FLAG)]

M_SUB(a, r) ==
  LET q == a - r
  IN  [v |-> q % 256,
       f |-> ZSTable(q % 256) \cup {N_FLAG} \cup When(Bit(q, 8) = 1, C_FLAG)
               \cup When(Parity(4, a, q, r) = 1, H_FLAG)
               \cup When(Bit(r, 7) # Bit(a, 7) /\ Bit(r, 7) = Bit(q, 7), V_FLAG)]

Into(s, t) == [s EXCEPT !.A = t.v, !.F = t.f]
Logic(s, bits, flags) == Into(s, [v |-> ByteOf[bits], f |-> ZSPTable(ByteOf[bits]) \cup flags])

adc_a(s, v) == Into(s, M_ADD(s.A, v + Carry(s)))
add_a(s, v) == Into(s, M_ADD(s.A, v))
sbc_a(s, v) == Into(s, M_SUB(s.A, v + Carry(s)))
sub(s, v) == Into(s, M_SUB(s.A, v))
cp(s, v) == [s EXCEPT !.F = M_SUB(s.A, v).f]
neg(s) == Into(s, M_SUB(0, s.A))
and_a(s, v) == Logic(s, BitsOf[s.A] \cap BitsOf[v], {H_FLAG})
or_a(s, v) == Logic(s, BitsOf[s.A] \cup BitsOf[v], {})
xor_a(s, v) == Logic(s, (BitsOf[s.A] \cup BitsOf[v]) \ (BitsOf[s.A] \cap BitsOf[v]), {})

inc(s, place, a) ==
  LET v == (Value(s, place, a) + 1) % 256
      f == (s.F \cap {C_FLAG}) \cup ZSTable(v) \cup When(v = 128, V_FLAG)
             \cup When(v % 16 = 0, H_FLAG)
  IN  [Store(s, place, a, v) EXCEPT !.F = f]
dec(s, place, a) ==
  LET v == (Value(s, place, a) - 1) % 256
      f == (s.F \cap {C_FLAG}) \cup {N_FLAG} \cup ZSTable(v) \cup When(v = 128, V_FLAG)
             \cup When(v % 16 = 0, H_FLAG)
  IN  [Store(s, place, a, v) EXCEPT !.F = f]

(* DAATable, computed: a digit past 9 or that carried is corrected by 6.   *)
Corrected(s) == (IF H_FLAG \in s.F \/ s.A % 16 > 9 THEN 6 ELSE 0)
                  + (IF C_FLAG \in s.F \/ s.A > 153 THEN 96 ELSE 0)
DAATableSum(s) == [v |-> (s.A + Corrected(s)) % 256, half |-> s.A % 16 > 9]
DAATableDifference(s) ==
  [v |-> (s.A - Corrected(s)) % 256, half |-> H_FLAG \in s.F /\ s.A % 16 < 6]
DaaFlags(s, t) ==
  ZSPTable(t.v) \cup (s.F \cap {N_FLAG}) \cup When(Corrected(s) >= 96, C_FLAG)
    \cup When(t.half, H_FLAG) \cup (BitsOf[t.v] \cap {3, 5})
\* Mutant: a difference is corrected like a sum.
daa_adds(s) == LET t == DAATableSum(s) IN Into(s, [v |-> t.v, f |-> DaaFlags(s, t)])
daa(s) == LET t == IF N_FLAG \in s.F THEN DAATableDifference(s) ELSE DAATableSum(s)
          IN  Into(s, [v |-> t.v, f |-> DaaFlags(s, t)])

add_hl(s, x, p) ==
  LET q == Pair(s, x) + Pair(s, p)
      f == (s.F \cap {S_FLAG, Z_FLAG, V_FLAG}) \cup When(Bit(q, 16) = 1, C_FLAG)
             \cup When(Parity(12, Pair(s, x), q, Pair(s, p)) = 1, H_FLAG)
  IN  [SetPair(s, x, q % 65536) EXCEPT !.F = f]

WordFlags(q, a, r) ==
  When(Parity(12, a, q, r) = 1, H_FLAG) \cup When(Bit(q, 16) = 1, C_FLAG)
    \cup When(Bit(q, 15) = 1, S_FLAG) \cup When(q % 65536 = 0, Z_FLAG)
adc_hl(s, p) ==
  LET a == Pair(s, "HL")  r == Pair(s, p) + Carry(s)  q == a + r
      v == When(Bit(r, 15) = Bit(a, 15) /\ Bit(r, 15) # Bit(q, 15), V_FLAG)
  IN  [SetPair(s, "HL", q % 65536) EXCEPT !.F = WordFlags(q, a, r) \cup v]
sbc_hl(s, p) ==
  LET a == Pair(s, "HL")  r == Pair(s, p) + Carry(s)  q == a - r
      v == When(Bit(r, 15) # Bit(a, 15) /\ Bit(r, 15) = Bit(q, 15), V_FLAG)
  IN  [SetPair(s, "HL", q % 65536) EXCEPT !.F = WordFlags(q, a, r) \cup v \cup {N_FLAG}]

----------------------------------------------------------------------------
(* Rotations, shifts and bits; y is the operation's number in its opcode.  *)
Rotated(y, v, c) ==
  CASE y = 0 -> [v |-> ((v * 2) % 256) + v \div 128, c |-> v \div 128]            \* rlc
    [] y = 1 -> [v |-> (v \div 2) + (v % 2) * 128, c |-> v % 2]                   \* rrc
    [] y = 2 -> [v |-> ((v * 2) % 256) + c, c |-> v \div 128]                     \* rl
    [] y = 3 -> [v |-> (v \div 2) + c * 128, c |-> v % 2]                         \* rr
Shifted(y, v) ==
  CASE y = 4 -> [v |-> (v * 2) % 256, c |-> v \div 128]                           \* sla
    [] y = 5 -> [v |-> (v \div 2) + (v \div 128) * 128, c |-> v % 2]              \* sra
    [] y = 6 -> [v |-> ((v * 2) % 256) + 1, c |-> v \div 128]                     \* sll
    [] y = 7 -> [v |-> v \div 2, c |-> v % 2]                                     \* srl
rotate(s, y, place, a) ==
  LET v == Value(s, place, a)
      t == IF y < 4 THEN Rotated(y, v, Carry(s)) ELSE Shifted(y, v)
  IN  [Store(s, place, a, t.v) EXCEPT !.F = ZSPTable(t.v) \cup When(t.c = 1, C_FLAG)]
rlca(s, y) ==
  LET t == Rotated(y, s.A, Carry(s))
  IN  [s EXCEPT !.A = t.v, !.F = (@ \ {C_FLAG, N_FLAG, H_FLAG}) \cup When(t.c = 1, C_FLAG)]

bit(s, n, v) ==
  [s EXCEPT !.F = (@ \cap {C_FLAG}) \cup {H_FLAG} \cup When(n \notin BitsOf[v], Z_FLAG)
                    \cup When(n = 7 /\ n \in BitsOf[v], S_FLAG)]
res(s, n, place, a) == Store(s, place, a, ByteOf[BitsOf[Value(s, place, a)] \ {n}])
set(s, n, place, a) == Store(s, place, a, ByteOf[BitsOf[Value(s, place, a)] \cup {n}])

Nibbles(s, cell, low) ==
  LET a == (s.A \div 16) * 16 + low
  IN  [WRMEM(s, Pair(s, "HL"), cell) EXCEPT !.A = a,
                                            !.F = (@ \cap {C_FLAG}) \cup ZSPTable(a)]
(* Mutant: the cell's upper nibble is not dropped.                         *)
rld_wide(s) == LET i == RDMEM(s, Pair(s, "HL"))
               IN  Nibbles(s, (i * 16) + (s.A % 16), i \div 16)
rld(s) == LET i == RDMEM(s, Pair(s, "HL"))
          IN  Nibbles(s, ((i * 16) % 256) + (s.A % 16), i \div 16)
rrd(s) == LET i == RDMEM(s, Pair(s, "HL"))
          IN  Nibbles(s, (i \div 16) + (s.A % 16) * 16, i % 16)

cpl(s) == [s EXCEPT !.A = 255 - @, !.F = @ \cup {H_FLAG, N_FLAG}]
ccf(s) == [s EXCEPT !.F = (@ \ {C_FLAG, N_FLAG, H_FLAG})
                            \cup When(C_FLAG \in @, H_FLAG) \cup When(C_FLAG \notin @, C_FLAG)]
scf(s) == [s EXCEPT !.F = (@ \ {N_FLAG, H_FLAG}) \cup {C_FLAG}]
=============================================================================
