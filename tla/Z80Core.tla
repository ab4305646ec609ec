------------------------------ MODULE Z80Core -------------------------------
(***************************************************************************)
(* The Z80 of z80.c: loads, jumps, the stack, block instructions, input    *)
(* and output, how opcodes are decoded, and interrupts.  After a prefix DD *)
(* or FD an instruction uses IX or IY (x) for HL.                          *)
(***************************************************************************)
EXTENDS Z80Alu, TLC

(* Loads and exchanges.  H and L are themselves next to an operand at IX.  *)
ld_to_memory(s, x, from) == WRMEM(Addressed(s, x, 6), Address(s, x), s[Place("HL", from)])
ld_from_memory(s, x, to) ==
  [Addressed(s, x, 6) EXCEPT ![Place("HL", to)] = RDMEM(s, Address(s, x))]
ld(s, x, to, from) ==
  CASE to = 6 -> ld_to_memory(s, x, from)
    [] from = 6 -> ld_from_memory(s, x, to)
    [] OTHER -> [s EXCEPT ![Place(x, to)] = s[Place(x, from)]]
ld_byte(s, x, to) ==
  LET t == Addressed(s, x, to)
  IN  Store(Skip(t, 1), Place(x, to), Address(s, x), Arg(t))
ld_xword(s, p) == Skip(WRMEM_WORD(s, ArgWord(s), Pair(s, p)), 2)
ld_a_xword(s) == Skip([s EXCEPT !.A = RDMEM(s, ArgWord(s))], 2)
ld_xword_a(s) == Skip(WRMEM(s, ArgWord(s), s.A), 2)
ld_word_x(s, p) == Skip(SetPair(s, p, RDMEM_WORD(s, ArgWord(s))), 2)
ld_word(s, p) == Skip(SetPair(s, p, ArgWord(s)), 2)

LdAFlags(s, a) ==
  [s EXCEPT !.A = a, !.F = (@ \cap {C_FLAG}) \cup ZSTable(a) \cup When(s.IFF2 = 1, V_FLAG)]
ld_a_i(s) == LdAFlags(s, s.I)
ld_a_r(s) == LdAFlags(s, s.R + (s.R2 \div 128) * 128)
ld_r_a(s) == [s EXCEPT !.R = s.A % 128, !.R2 = s.A]

ex_xsp(s, x) == SetPair(WRMEM_WORD(s, s.SP, Pair(s, x)), x, RDMEM_WORD(s, s.SP))
ex_af_af(s) == [s EXCEPT !.A = s.A2, !.F = s.F2, !.A2 = s.A, !.F2 = s.F]
ex_de_hl(s) == SetPair(SetPair(s, "DE", Pair(s, "HL")), "HL", Pair(s, "DE"))
exx(s) ==
  LET t == [s EXCEPT !.BC2 = Pair(s, "BC"), !.DE2 = Pair(s, "DE"), !.HL2 = Pair(s, "HL")]
  IN  SetPair(SetPair(SetPair(t, "BC", s.BC2), "DE", s.DE2), "HL", s.HL2)

pop(s, p) == SetPair([s EXCEPT !.SP = (@ + 2) % 65536], p, RDMEM_WORD(s, s.SP))
PushWord(s, w) ==
  LET sp == (s.SP - 2) % 65536
  IN  WRMEM_WORD([s EXCEPT !.SP = sp], sp, w)
push(s, p) == PushWord(s, Pair(s, p))

----------------------------------------------------------------------------
(* Jumps, calls and the like; y is the condition's number in the opcode.   *)
Holds(s, y) == (<<Z_FLAG, C_FLAG, V_FLAG, S_FLAG>>[(y \div 2) + 1] \in s.F) <=> (y % 2 = 1)

jp(s, cond) == IF cond THEN Jump(s, ArgWord(s)) ELSE Skip(s, 2)
jr(s, cond) == IF cond THEN Skip(s, Signed(Arg(s)) + 1) ELSE Skip(s, 1)
djnz(s) == LET t == [s EXCEPT !.B = (@ - 1) % 256] IN jr(t, t.B # 0)
call(s, cond) ==
  IF cond THEN Jump(PushWord(s, (s.PC + 2) % 65536), ArgWord(s)) ELSE Skip(s, 2)
ret(s, cond) ==
  IF cond THEN Jump([s EXCEPT !.SP = (@ + 2) % 65536], RDMEM_WORD(s, s.SP)) ELSE s
rst(s, a) == Jump(PushWord(s, s.PC), a)
retn(s) == ret([s EXCEPT !.IFF1 = s.IFF2], TRUE)
halt(s) == [Skip(s, -1) EXCEPT !.HALT = 1]
di(s) == [s EXCEPT !.IFF1 = 0, !.IFF2 = 0]
im(s, y) == [s EXCEPT !.IM = <<0, 0, 1, 2>>[(y % 4) + 1]]

----------------------------------------------------------------------------
(* Block instructions, upwards (d is 1) or downwards (-1), and I/O.  One   *)
(* that repeats goes back to its own opcode after every byte.              *)
Repeat(s, again) == IF again THEN Skip(s, -2) ELSE s
Walk(s, d) == Advance(Advance(s, "HL", d), "BC", -1)

ldi(s, d) ==
  LET t == Advance(Walk(WRMEM(s, Pair(s, "DE"), RDMEM(s, Pair(s, "HL"))), d), "DE", d)
  IN  [t EXCEPT !.F = (@ \ {H_FLAG, V_FLAG, N_FLAG}) \cup When(Pair(t, "BC") # 0, V_FLAG)]
ldir(s, d) == LET t == ldi(s, d) IN Repeat(t, Pair(t, "BC") # 0)

cpi(s, d) ==
  LET i == RDMEM(s, Pair(s, "HL"))  j == (s.A - i) % 256  t == Walk(s, d)
  IN  [t EXCEPT !.F = (@ \cap {C_FLAG}) \cup ZSTable(j) \cup {N_FLAG}
                        \cup When(Parity(4, s.A, j, i) = 1, H_FLAG)
                        \cup When(Pair(t, "BC") # 0, V_FLAG)]
cpir(s, d) == LET t == cpi(s, d) IN Repeat(t, Pair(t, "BC") # 0 /\ Z_FLAG \notin t.F)

CountIO(s, d) ==
  LET t == [s EXCEPT !.B = (@ - 1) % 256]
  IN  [Advance(t, "HL", d) EXCEPT !.F = {N_FLAG} \cup When(t.B = 0, Z_FLAG)]
ini(s, d) == CountIO(WRMEM(s, Pair(s, "HL"), In(s.C)), d)
inir(s, d) == LET t == ini(s, d) IN Repeat(t, t.B # 0)
outi(s, d) == CountIO([s EXCEPT !.out = <<s.C, RDMEM(s, Pair(s, "HL"))>>], d)
otir(s, d) == LET t == outi(s, d) IN Repeat(t, t.B # 0)

in_c(s, y) ==
  LET t == IF y = 6 THEN s ELSE [s EXCEPT ![Place("HL", y)] = In(s.C)]
  IN  [t EXCEPT !.F = (@ \cap {C_FLAG}) \cup ZSPTable(In(s.C))]
in_a_byte(s) == Skip([s EXCEPT !.A = In(Arg(s))], 1)
out_c(s, y) == [s EXCEPT !.out = <<s.C, IF y = 6 THEN 0 ELSE s[Place("HL", y)]>>]
out_byte_a(s) == Skip([s EXCEPT !.out = <<Arg(s), s.A>>], 1)

----------------------------------------------------------------------------
(* Decoding: an opcode is three octal digits w, y, z.                      *)
Wide(x, y) == <<"BC", "DE", x, "SP">>[(y \div 2) + 1]
Stacked(x, y) == <<"BC", "DE", x, "AF">>[(y \div 2) + 1]

Alu(s, y, v) ==
  CASE y = 0 -> add_a(s, v) [] y = 1 -> adc_a(s, v) [] y = 2 -> sub(s, v) [] y = 3 -> sbc_a(s, v)
    [] y = 4 -> and_a(s, v) [] y = 5 -> xor_a(s, v) [] y = 6 -> or_a(s, v) [] y = 7 -> cp(s, v)

Moves(s, x, y) ==
  CASE y = 0 -> WRMEM(s, Pair(s, "BC"), s.A)
    [] y = 1 -> [s EXCEPT !.A = RDMEM(s, Pair(s, "BC"))]
    [] y = 2 -> WRMEM(s, Pair(s, "DE"), s.A)
    [] y = 3 -> [s EXCEPT !.A = RDMEM(s, Pair(s, "DE"))]
    [] y = 4 -> ld_xword(s, x)
    [] y = 5 -> ld_word_x(s, x)
    [] y = 6 -> ld_xword_a(s)
    [] y = 7 -> ld_a_xword(s)

Accumulator(s, y) ==
  CASE y < 4 -> rlca(s, y) [] y = 4 -> daa(s) [] y = 5 -> cpl(s) [] y = 6 -> scf(s) [] y = 7 -> ccf(s)

LowOpcode(s, x, y, z) ==
  CASE z = 0 /\ y = 0 -> s
    [] z = 0 /\ y = 1 -> ex_af_af(s)
    [] z = 0 /\ y = 2 -> djnz(s)
    [] z = 0 /\ y > 2 -> jr(s, y = 3 \/ Holds(s, y - 4))
    [] z = 1 /\ y % 2 = 0 -> ld_word(s, Wide(x, y))
    [] z = 1 /\ y % 2 = 1 -> add_hl(s, x, Wide(x, y))
    [] z = 2 -> Moves(s, x, y)
    [] z = 3 -> Advance(s, Wide(x, y), IF y % 2 = 0 THEN 1 ELSE -1)
    [] z = 4 -> inc(Addressed(s, x, y), Place(x, y), Address(s, x))
    [] z = 5 -> dec(Addressed(s, x, y), Place(x, y), Address(s, x))
    [] z = 6 -> ld_byte(s, x, y)
    [] z = 7 -> Accumulator(s, y)

HighOpcode(s, x, y, z) ==
  CASE z = 0 -> ret(s, Holds(s, y))
    [] z = 1 /\ y % 2 = 0 -> pop(s, Stacked(x, y))
    [] z = 1 /\ y = 1 -> ret(s, TRUE)
    [] z = 1 /\ y = 3 -> exx(s)
    [] z = 1 /\ y = 5 -> Jump(s, Pair(s, x))
    [] z = 1 /\ y = 7 -> [s EXCEPT !.SP = Pair(s, x)]
    [] z = 2 -> jp(s, Holds(s, y))
    [] z = 3 /\ y = 0 -> jp(s, TRUE)
    [] z = 3 /\ y = 2 -> out_byte_a(s)
    [] z = 3 /\ y = 3 -> in_a_byte(s)
    [] z = 3 /\ y = 4 -> ex_xsp(s, x)
    [] z = 3 /\ y = 5 -> ex_de_hl(s)
    [] z = 3 /\ y = 6 -> di(s)
    [] z = 4 -> call(s, Holds(s, y))
    [] z = 5 /\ y % 2 = 0 -> push(s, Stacked(x, y))
    [] z = 5 /\ y = 1 -> call(s, TRUE)
    [] z = 6 -> Alu(Skip(s, 1), y, Arg(s))
    [] z = 7 -> rst(s, 8 * y)

Unprefixed(s, x, op) ==
  LET y == (op \div 8) % 8  z == op % 8 IN
  CASE op < 64 -> LowOpcode(s, x, y, z)
    [] op = 118 -> halt(s)
    [] op \in (64 .. 127) \ {118} -> ld(s, x, y, z)
    [] op \in 128 .. 191 -> Alu(Addressed(s, x, z), y, Value(s, Place(x, z), Address(s, x)))
    [] op > 191 -> HighOpcode(s, x, y, z)

BitOp(s, op, place, a) ==
  LET y == (op \div 8) % 8 IN
  CASE op < 64 -> rotate(s, y, place, a)
    [] op \in 64 .. 127 -> bit(s, y, Value(s, place, a))
    [] op \in 128 .. 191 -> res(s, y, place, a)
    [] op > 191 -> set(s, y, place, a)

opcode_cb(s, op) == BitOp(s, op, Place("HL", op % 8), Pair(s, "HL"))

(* After DD CB or FD CB the displacement comes before the opcode.          *)
indexed_cb(s, x) ==
  LET op == RDMEM(s, (s.PC + 1) % 65536) IN
  Skip(IF op % 8 = 6 \/ op \in 64 .. 127 THEN BitOp(s, op, "M", Address(s, x)) ELSE s, 2)

(* Any other opcode is executed once more, without the prefix: no_op.      *)
Indexable ==
  {9, 25, 41, 57} \cup (33 .. 38) \cup (42 .. 46) \cup (52 .. 54)
    \cup {op \in 64 .. 191 : op % 8 \in {4, 5, 6} \/ op \in 96 .. 119}
    \cup {225, 227, 229, 233, 249}
\* Mutant: the prefix is executed once more as well.
opcode_dd_again(s, x, op) ==
  CASE op = 203 -> indexed_cb(s, x)
    [] op \in Indexable \ {118} -> Unprefixed(s, x, op)
    [] OTHER -> Skip(s, -2)
opcode_dd(s, x, op) ==
  CASE op = 203 -> indexed_cb(s, x)
    [] op \in Indexable \ {118} -> Unprefixed(s, x, op)
    [] OTHER -> Skip(s, -1)

Block(s, y, z) ==
  LET d == IF y % 2 = 0 THEN 1 ELSE -1 IN
  CASE y < 6 /\ z = 0 -> ldi(s, d)  [] y > 5 /\ z = 0 -> ldir(s, d)
    [] y < 6 /\ z = 1 -> cpi(s, d)  [] y > 5 /\ z = 1 -> cpir(s, d)
    [] y < 6 /\ z = 2 -> ini(s, d)  [] y > 5 /\ z = 2 -> inir(s, d)
    [] y < 6 /\ z = 3 -> outi(s, d) [] y > 5 /\ z = 3 -> otir(s, d)

Special(s, y) ==
  CASE y = 0 -> [s EXCEPT !.I = s.A] [] y = 1 -> ld_r_a(s) [] y = 2 -> ld_a_i(s)
    [] y = 3 -> ld_a_r(s) [] y = 4 -> rrd(s) [] y = 5 -> rld(s) [] y > 5 -> s

Extended(s, y, z) ==
  CASE z = 0 -> in_c(s, y)
    [] z = 1 -> out_c(s, y)
    [] z = 2 -> IF y % 2 = 0 THEN sbc_hl(s, Wide("HL", y)) ELSE adc_hl(s, Wide("HL", y))
    [] z = 3 -> IF y % 2 = 0 THEN ld_xword(s, Wide("HL", y)) ELSE ld_word_x(s, Wide("HL", y))
    [] z = 4 -> neg(s)
    [] z = 5 -> IF y % 2 = 0 THEN retn(s) ELSE ret(s, TRUE)
    [] z = 6 -> im(s, y)
    [] z = 7 -> Special(s, y)

opcode_ed(s, op) ==
  LET y == (op \div 8) % 8  z == op % 8 IN
  CASE op \in 64 .. 127 -> Extended(s, y, z)
    [] op \in 160 .. 191 /\ z < 4 -> Block(s, y, z)
    [] OTHER -> s

(* Every opcode and prefix refreshes memory.                               *)
Fetch(s) == [Skip(s, 1) EXCEPT !.R = (@ + 1) % 128]
opcode_main(s, op) ==
  CASE op = 203 -> opcode_cb(Fetch(s), Arg(s))
    [] op = 221 -> opcode_dd(Fetch(s), "IX", Arg(s))
    [] op = 237 -> opcode_ed(Fetch(s), Arg(s))
    [] op = 253 -> opcode_dd(Fetch(s), "IY", Arg(s))
    [] OTHER -> Unprefixed(s, "HL", op)

----------------------------------------------------------------------------
(* Mutant: an interrupt returns to the HALT it ended.                      *)
Interrupt_at_halt(s) ==
  LET t == [s EXCEPT !.IFF1 = 0, !.HALT = 0] IN
  CASE s.IFF1 = 0 -> s
    [] s.IFF1 = 1 /\ s.IM = 1 /\ s.intflag = 1 -> rst([t EXCEPT !.intflag = 0], 56)
    [] OTHER -> t

(* Interrupts: a request is served in mode 1 only, but any ends a HALT and *)
(* disables further interrupts.                                            *)
Interrupt(s) ==
  LET t == [(IF s.HALT = 1 THEN Skip(s, 1) ELSE s) EXCEPT !.IFF1 = 0, !.HALT = 0] IN
  CASE s.IFF1 = 0 -> s
    [] s.IFF1 = 1 /\ s.IM = 1 /\ s.intflag = 1 -> rst([t EXCEPT !.intflag = 0], 56)
    [] OTHER -> t
Z80_Interrupt(s, alarm) == IF alarm THEN Interrupt([s EXCEPT !.intflag = 1]) ELSE s

(* EI executes the next instruction as well when it enables interrupts.    *)
ei(s, alarm) ==
  LET t == [s EXCEPT !.IFF1 = 1, !.IFF2 = 1]
      next == IF Arg(s) = 251 THEN Fetch(t) ELSE opcode_main(Fetch(t), Arg(s))
  IN  IF s.IFF1 = 1 THEN [s EXCEPT !.IFF2 = 1] ELSE Z80_Interrupt(next, alarm)

(* A pass of the loop of Z80_Execute.                                      *)
Z80_Execute(s, alarm, inEi) ==
  LET t == Z80_Interrupt(s, alarm)
      op == Arg(t)
  IN  IF op = 251 THEN ei(Fetch(t), inEi) ELSE opcode_main(Fetch(t), op)

\* The registers alone; R is whatever rand() gives.
Z80_Reset(r) ==
  [n \in {"A", "B", "C", "D", "E", "H", "L", "IXH", "IXL", "IYH", "IYL", "PC",
          "A2", "BC2", "DE2", "HL2", "I", "R2", "IFF1", "IFF2", "IM", "HALT"} |-> 0]
    @@ [F |-> {}, F2 |-> {}, SP |-> 61440, R |-> r]

\* mz_reset: Z80_intflag is cleared, then the registers, over the memory mem.
mz_reset(r, mem) == Z80_Reset(r) @@ [intflag |-> 0, mem |-> mem, out |-> <<0, 0>>]
=============================================================================
