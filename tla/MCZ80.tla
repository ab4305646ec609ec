------------------------------- MODULE MCZ80 --------------------------------
(***************************************************************************)
(* Small instance of Z80Machine: 128 bytes of memory with a routine at 0,  *)
(* the interrupt handler at 56 (RST 38H), its counter at 78, operands at   *)
(* 80, results at 90 and the stack below 128.  Instructions are also run   *)
(* one by one, every opcode, and the arithmetic at the edges of a byte.    *)
(***************************************************************************)
EXTENDS Z80Machine

MCRam == 0 .. 127
MCStack == 104 .. 127
MCScratch == {78, 79} \cup MCStack
MCIn(port) == IF port = 254 THEN 4 ELSE 255

\* PUSH AF; PUSH HL; LD HL,(78); INC HL; LD (78),HL; SUB A; POP HL; POP AF; EI; RETI
Handler == <<245, 229, 42, 78, 0, 35, 34, 78, 0, 151, 225, 241, 251, 237, 77>>
\* LD SP,128; IM 1; EI
Begin == <<49, 128, 0, 237, 86, 251>>
\* DI; HALT
End == <<243, 118>>

Image(code, data) ==
  [a \in MCRam |-> CASE a < Len(code) -> code[a + 1]
                     [] a \in 56 .. 55 + Len(Handler) -> Handler[a - 55]
                     [] a \in 80 .. 79 + Len(data) -> data[a - 79]
                     [] OTHER -> 0]
Routine(body, data, want) ==
  [start |-> mz_reset(0, Image(Begin \o body \o End, data)), want |-> want]
Found(a, w) == {<<a, w % 256>>, <<a + 1, w \div 256>>}
Decimal(n) == ((n \div 10) * 16) + (n % 10)

----------------------------------------------------------------------------
\* LD A,(80); LD E,A; LD D,0; LD A,(81); LD HL,0; LD B,8;
\* ADD HL,HL; RLCA; JR NC; ADD HL,DE; DJNZ; LD (90),HL
Multiply(m, n) ==
  Routine(<<58, 80, 0, 95, 22, 0, 58, 81, 0, 33, 0, 0, 6, 8,
            41, 7, 48, 1, 25, 16, 249, 34, 90, 0>>, <<m, n>>, Found(90, m * n))

\* LD HL,80; LD E,(HL); INC HL; LD L,(HL); XOR A; LD B,8;
\* SLA L; RLA; CP E; JR C; SUB E; INC L; DJNZ; LD (91),A; LD A,L; LD (90),A
Divide(m, n) ==
  Routine(<<33, 80, 0, 94, 35, 110, 175, 6, 8, 203, 37, 23, 187, 56, 2, 147, 44, 16, 246,
            50, 91, 0, 125, 50, 90, 0>>, <<n, m>>, {<<90, m \div n>>, <<91, m % n>>})

\* LD IX,80; OR A; LD A,(IX+0); op A,(IX+2); DAA; LD (IX+10),A; the same for the
\* next two digits; LD A,0; ADC A,0; LD (92),A
DecimalBody(op) ==
  <<221, 33, 80, 0, 183, 221, 126, 0, 221, op, 2, 39, 221, 119, 10,
    221, 126, 1, 221, op, 3, 39, 221, 119, 11, 62, 0, 206, 0, 50, 92, 0>>
DecimalSum(op, m, n) ==
  LET exact == IF op = 142 THEN m + n ELSE m - n
      r == exact % 10000
  IN  Routine(DecimalBody(op),
              <<Decimal(m % 100), Decimal(m \div 100), Decimal(n % 100), Decimal(n \div 100)>>,
              {<<90, Decimal(r % 100)>>, <<91, Decimal(r \div 100)>>,
               <<92, IF exact = r THEN 0 ELSE 1>>})

\* LD A,(80); LD L,A; LD DE,0; LD B,8;
\* SLA L; LD A,E; ADC A,A; DAA; LD E,A; LD A,D; ADC A,A; DAA; LD D,A; DJNZ; LD (90),DE
ToDecimal(n) ==
  Routine(<<58, 80, 0, 111, 17, 0, 0, 6, 8, 203, 37, 123, 143, 39, 95, 122, 143, 39, 87, 16, 244,
            237, 83, 90, 0>>,
          <<n>>, {<<90, Decimal(n % 100)>>, <<91, Decimal(n \div 100)>>})

\* LD HL,from; LD DE,to; LD BC,5; LDDR or LDIR: the blocks overlap.
Move(op, from, to, shift) ==
  Routine(<<33, from, 0, 17, to, 0, 1, 5, 0, 237, op>>, <<11, 12, 13, 14, 15, 16>>,
          {<<a, a - 69 - shift>> : a \in {80 + i : i \in (IF shift = 1 THEN 1 .. 5 ELSE 0 .. 4)}})

\* LD A,(86); LD HL,80; LD BC,5; CPIR; LD (90),HL; LD A,0; JR NZ; INC A; LD (92),A
Search(wanted) ==
  Routine(<<58, 86, 0, 33, 80, 0, 1, 5, 0, 237, 177, 34, 90, 0, 62, 0, 32, 1, 60, 50, 92, 0>>,
          <<11, 12, 13, 14, 15, 16, wanted>>,
          IF wanted \in 11 .. 15 THEN {<<90, wanted + 70>>, <<92, 1>>}
                                 ELSE {<<90, 85>>, <<92, 0>>})

\* LD A,(80); CALL Sum; LD (90),HL; DI; HALT; NOP;
\* Sum: OR A; LD HL,0; RET Z; PUSH AF; DEC A; CALL Sum; POP AF; LD E,A; LD D,0; ADD HL,DE; RET
Recursion(n) ==
  Routine(<<58, 80, 0, 205, 18, 0, 34, 90, 0, 243, 118, 0,
            183, 33, 0, 0, 200, 245, 61, 205, 18, 0, 241, 95, 22, 0, 25, 201>>,
          <<n>>, Found(90, (n * (n + 1)) \div 2))

\* HALT; LD A,42; LD (90),A
Wait == Routine(<<118, 62, 42, 50, 90, 0>>, <<>>, {<<90, 42>>})

----------------------------------------------------------------------------
(* One instruction in a memory of HALTs, interrupts disabled.  RST 0 would *)
(* call itself and is left out.                                            *)
One(code, a, b, f) ==
  [start |-> [mz_reset(0, [i \in MCRam |-> CASE i < Len(code) -> code[i + 1]
                                         [] i \in MCScratch -> 0
                                         [] OTHER -> 118]) EXCEPT
                !.SP = 120, !.A = a, !.F = f, !.B = b, !.C = 1, !.D = 127, !.E = 255,
                !.H = 0, !.L = 90, !.IXL = 96, !.IYH = 255, !.IYL = 250],
   want |-> {}]

Prefixes == {<<>>, <<203>>, <<237>>, <<221>>, <<253>>, <<221, 203, 5>>, <<253, 203, 100>>}
Edges == {0, 1, 15, 16, 127, 128, 153, 255}

MCRoutines ==
  {<<"multiply", 13, 200>>, <<"multiply", 255, 255>>}
    \cup {<<"divide", 255, 7>>, <<"divide", 100, 128>>}
    \cup {<<"sum", 4567, 5433>>, <<"sum", 809, 195>>}
    \cup {<<"difference", 809, 5433>>, <<"difference", 9000, 1>>}
    \cup {<<"decimal", 255>>}
    \cup {<<"move", 1>>, <<"move", -1>>}
    \cup {<<"search", 13>>, <<"search", 16>>}
    \cup {<<"recursion", 4>>}
    \cup {<<"wait">>}
    \cup (({"opcode"} \X Prefixes \X Byte) \ ({"opcode"} \X {<<>>, <<221>>, <<253>>} \X {199}))
    \cup ({"edge"} \X {0, 1, 2, 3, 7} \X Edges \X Edges \X {{}, {C_FLAG}})

Loaded(r) ==
  CASE r[1] = "multiply" -> Multiply(r[2], r[3])
    [] r[1] = "divide" -> Divide(r[2], r[3])
    [] r[1] = "sum" -> DecimalSum(142, r[2], r[3])
    [] r[1] = "difference" -> DecimalSum(158, r[2], r[3])
    [] r[1] = "decimal" -> ToDecimal(r[2])
    [] r = <<"move", 1>> -> Move(184, 84, 85, 1)
    [] r = <<"move", -1>> -> Move(176, 81, 80, -1)
    [] r[1] = "search" -> Search(r[2])
    [] r[1] = "recursion" -> Recursion(r[2])
    [] r[1] = "wait" -> Wait
    [] r[1] = "opcode" -> One(r[2] \o <<r[3]>>, 155, 1, {C_FLAG, H_FLAG})
    [] r[1] = "edge" -> One(<<128 + 8 * r[2]>>, r[3], r[4], r[5])

MCStart(r) == Loaded(r).start
MCWant(r) == Loaded(r).want
MCSingle(r) == r[1] \in {"opcode", "edge"}
=============================================================================
