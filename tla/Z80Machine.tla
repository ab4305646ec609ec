----------------------------- MODULE Z80Machine -----------------------------
(***************************************************************************)
(* The Z80 running programs while the timer interrupts them: a pass of the *)
(* loop of Z80_Execute is a step, and an alarm may come at each of its two *)
(* checks.  When alarms come is in module TimerInterrupt.                  *)
(***************************************************************************)
EXTENDS Z80Core

CONSTANTS
  Routines,   \* programs
  Start(_),   \* the CPU with a program loaded
  Want(_),    \* what it has to leave in memory: pairs of address and byte
  Single(_),  \* programs of one instruction, run without alarms
  Scratch,    \* cells of the interrupt handler and of the stack
  Stack,      \* the part of them below the initial stack pointer
  MaxAlarms   \* bound on the number of alarms

ASSUME MachineAssumption ==
  /\ Stack \subseteq Scratch /\ Scratch \subseteq Ram /\ MaxAlarms \in Nat
  /\ \A r \in Routines : Start(r) \in Cpu /\ Single(r) \in BOOLEAN

VARIABLES
  cpu,
  routine,   \* the program in memory
  alarms,    \* alarms so far
  handling,  \* the interrupt handler runs
  seen       \* what the program sees of the CPU, now or when the handler took over

vars == <<cpu, routine, alarms, handling, seen>>

(* What a program sees of the CPU: not the refresh counter nor the request *)
(* flag, the handler's cells or what lies below the stack pointer.         *)
Norm(s) ==
  [s EXCEPT !.R = 0, !.intflag = 0,
            !.mem = [a \in Ram |-> IF a \in Scratch /\ (a \in Stack => a < s.SP) THEN 0 ELSE @[a]]]
Executed(s) == Z80_Execute(s, FALSE, FALSE)
Woken(s) == [Skip(s, 1) EXCEPT !.HALT = 0]

(* The handler is left when the stack pointer is where it found it.        *)
Passed(a, inEi) ==
  \E t \in {Z80_Execute(cpu, a, FALSE)} :
    LET entered == Z80_Interrupt(cpu, a).SP # cpu.SP
        inside == (handling \/ entered) /\ t.SP < seen.SP
    IN  /\ cpu' = IF inEi THEN Z80_Execute(cpu, a, TRUE) ELSE t
        /\ handling' = (inside \/ cpu'.SP # t.SP)
        /\ seen' = IF inside THEN seen ELSE Norm(t)

(* A CPU halted with interrupts disabled is halted for good.               *)
HaltedForGood == cpu.HALT = 1 /\ cpu.IFF1 = 0

EnablesInterrupts(s) == Arg(s) = 251 /\ s.IFF1 = 0
Sounded(a, inEi) == Cardinality({i \in 1 .. 2 : <<a, inEi>>[i]})

Pass(a, inEi) ==
  /\ ~HaltedForGood
  /\ alarms + Sounded(a, inEi) <= MaxAlarms
  /\ inEi => EnablesInterrupts(Z80_Interrupt(cpu, a))
  /\ Passed(a, inEi)
  /\ alarms' = alarms + Sounded(a, inEi)
  /\ UNCHANGED routine

Init ==
  /\ routine \in Routines
  /\ cpu = Start(routine)
  /\ alarms = IF Single(routine) THEN MaxAlarms ELSE 0
  /\ handling = FALSE
  /\ seen = Norm(cpu)

Next == \E a, inEi \in BOOLEAN : Pass(a, inEi)

(* The main loop calls Z80_Execute again and again.                        *)
Spec == Init /\ [][Next]_vars /\ WF_vars(Next)

----------------------------------------------------------------------------
(* Types: no instruction, whatever its operands, leaves a value in a       *)
(* register or in memory that does not fit it.                             *)
TypeOK == cpu \in Cpu /\ alarms \in 0 .. MaxAlarms

(* A program that has ended has left the right results in memory, whatever *)
(* interrupts there were: products, quotients, decimal sums and            *)
(* differences, moved blocks, searches, recursion.                         *)
RoutinesCorrect ==
  HaltedForGood => \A c \in Want(routine) : cpu.mem[c[1]] = c[2]

(* Every program ends, interrupts or not: it ends up halted.               *)
RoutinesEnd == <>[](cpu.HALT = 1)

(* The flags of ADD, ADC, SUB, SBC and CP are what arithmetic says: C the  *)
(* unsigned result does not fit, V the signed one does not, H the lower    *)
(* digits carry.  Adding the carry to the operand first, as M_ADC and      *)
(* M_SBC do, takes H from one that ends in F, and V from 7F.               *)
Arithmetic(y, a, v, c, t) ==
  LET add == y < 2
      total == IF add THEN a + v + c ELSE a - v - c
      digit == IF add THEN (a % 16) + (v % 16) + c ELSE (a % 16) - (v % 16) - c
      signed == IF add THEN Signed(a) + Signed(v) + c ELSE Signed(a) - Signed(v) - c
  IN  /\ t.A = IF y = 7 THEN a ELSE total % 256
      /\ C_FLAG \in t.F <=> total \notin Byte
      /\ Z_FLAG \in t.F <=> total % 256 = 0
      /\ S_FLAG \in t.F <=> total % 256 > 127
      /\ N_FLAG \in t.F <=> ~add
      /\ (c = 1 /\ v % 16 = 15) \/ (H_FLAG \in t.F <=> digit \notin 0 .. 15)
      /\ (c = 1 /\ v = 127) \/ (V_FLAG \in t.F <=> signed \notin -128 .. 127)
FlagsMeanArithmetic ==
  [][ LET op == Arg(cpu)
          y == (op \div 8) % 8
      IN  op \in 128 .. 191 /\ y \in {0, 1, 2, 3, 7} /\ alarms' = alarms
            => Arithmetic(y, cpu.A, Value(cpu, Place("HL", op % 8), Pair(cpu, "HL")),
                          IF y \in {1, 3} THEN Carry(cpu) ELSE 0, cpu') ]_vars

(* Interrupts are transparent: a program's instructions have the effect    *)
(* they have without them, a block instruction interrupted half-way goes   *)
(* on, a HALT is left behind, and the program goes on as long as it has to.*)
Uninterrupted ==
  INSTANCE Z80Program WITH v <- seen, program <- routine
ProgramSpec == Uninterrupted!Spec
=============================================================================
