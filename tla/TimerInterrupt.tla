--------------------------- MODULE TimerInterrupt ---------------------------
(***************************************************************************)
(* The interval timer and the Z80 together: Z80_Execute gives the timer    *)
(* (module Pit) a beat for every cval CPU cycles, before each instruction, *)
(* and the alarm of the timer is a maskable interrupt.  A pass of its loop *)
(* is an action; the instructions are told apart as far as interrupts and  *)
(* the timer do.                                                           *)
(***************************************************************************)
EXTENDS Pit

CONSTANTS
  cval,    \* 114: CPU cycles to a beat of the timer
  Half,    \* 2^31: the cycle counters are 32-bit integers
  Cycles,  \* cycles an instruction takes, waits included
  Rst,     \* 11: cycles the call of the interrupt handler takes
  Nop,     \* 4: cycles of a NOP
  Program  \* the instructions of the program

Instr(op, a) == [op |-> op, a |-> a]
TimerInstr == {Instr("command", c) : c \in Commands}
                \cup {Instr("write", <<n, val>>) : n \in Used, val \in Written}
                \cup {Instr("read", <<n>>) : n \in Used}
CpuInstr == {Instr("im", <<k>>) : k \in 0 .. 2}
              \cup {Instr(op, <<>>) : op \in {"ei", "di", "retn", "halt", "other"}}

(* No instruction, with the call of the handler, takes longer than a beat. *)
ASSUME TimerAssumption ==
  /\ cval \in Nat \ {0} /\ Half \in Nat /\ Rst \in Nat /\ Nop \in Nat
  /\ 3 * cval <= Half
  /\ Cycles \subseteq Nat \ {0} /\ Cycles # {}
  /\ \A d \in Cycles : d + Rst <= cval /\ d + Nop <= cval
  /\ Program \subseteq TimerInstr \cup CpuInstr

VARIABLES
  cpu_tstates, pit_tstates,  \* ts700: cycles executed, cycles the timer knows of
  R,                         \* the Z80's IFF1, IFF2, HALT and IM
  Z80_intflag,               \* bit 0: an interrupt was requested
  alarms                     \* alarms during the last pass

timervars == <<pitvars, cpu_tstates, pit_tstates, R, Z80_intflag, alarms>>

Wrap(x) == IF x >= Half THEN x - 2 * Half
           ELSE IF x < -Half THEN x + 2 * Half ELSE x

Machine == [stat |-> _8253_stat, cpu |-> cpu_tstates, pit |-> pit_tstates, R |-> R,
            flag |-> Z80_intflag, alarms |-> 0]

M_CSTATE(m, d) == [m EXCEPT !.cpu = Wrap(@ + d)]

(* A halted CPU goes on whether or not there is a handler to call.  Mode 2 *)
(* waits for a request nobody makes, mode 0 executes a NOP.                *)
Interrupt(m) ==
  LET taken == [m EXCEPT !.R.IFF1 = 0, !.R.HALT = 0]
  IN  CASE m.R.IFF1 = 0 -> m
        [] m.R.IFF1 = 1 /\ m.R.IM = 0 -> M_CSTATE(taken, Nop)
        [] m.R.IFF1 = 1 /\ m.R.IM = 1 /\ m.flag = 1 -> M_CSTATE([taken EXCEPT !.flag = 0], Rst)
        [] OTHER -> taken

\* Mutant: a beat uses up all the cycles gone by since the last one.
BeatTakesAll(m) ==
  IF Wrap(m.cpu - m.pit) < cval THEN m
  ELSE LET beaten == [m EXCEPT !.pit = m.cpu, !.stat = pit_count(@)]
       IN  IF Alarms(m.stat)
           THEN Interrupt([beaten EXCEPT !.flag = 1, !.alarms = @ + 1])
           ELSE beaten

\* Mutant: no second interrupt before the first is served.
RequestOnce(m) ==
  IF Wrap(m.cpu - m.pit) < cval THEN m
  ELSE LET beaten == [m EXCEPT !.pit = Wrap(@ + cval), !.stat = pit_count(@)]
           alarm == [beaten EXCEPT !.flag = 1, !.alarms = @ + 1]
       IN  CASE ~Alarms(m.stat) -> beaten
             [] Alarms(m.stat) /\ m.flag = 0 -> Interrupt(alarm)
             [] OTHER -> alarm

\* Mutant: the cycles gone by are compared without wrapping.
NoBeatPastWrap(m) ==
  IF m.cpu < m.pit + cval THEN m
  ELSE LET beaten == [m EXCEPT !.pit = Wrap(@ + cval), !.stat = pit_count(@)]
       IN  IF Alarms(m.stat)
           THEN Interrupt([beaten EXCEPT !.flag = 1, !.alarms = @ + 1])
           ELSE beaten

Z80_Interrupt(m) ==
  IF Wrap(m.cpu - m.pit) < cval THEN m
  ELSE LET beaten == [m EXCEPT !.pit = Wrap(@ + cval), !.stat = pit_count(@)]
       IN  IF Alarms(m.stat)
           THEN Interrupt([beaten EXCEPT !.flag = 1, !.alarms = @ + 1])
           ELSE beaten

----------------------------------------------------------------------------
(* What an instruction does beside taking time.  This EI finds interrupts  *)
(* enabled.                                                                *)
Obey(i, m) ==
  CASE i.op = "command" ->
         [m EXCEPT !.stat[i.a[1]] = write_8253_cw(@, i.a[2], i.a[3])]
    [] i.op = "write" -> [m EXCEPT !.stat[i.a[1]] = WriteByte(@, i.a[2])]
    [] i.op = "read" -> [m EXCEPT !.stat[i.a[1]] = ReadByte(@)]
    [] i.op = "im" -> [m EXCEPT !.R.IM = i.a[1]]
    [] i.op = "ei" -> [m EXCEPT !.R.IFF2 = 1]
    [] i.op = "di" -> [m EXCEPT !.R.IFF1 = 0, !.R.IFF2 = 0]
    [] i.op = "retn" -> [m EXCEPT !.R.IFF1 = m.R.IFF2]
    [] i.op = "halt" -> [m EXCEPT !.R.HALT = 1]
    [] i.op = "other" -> m

Become(m) ==
  /\ _8253_stat' = m.stat
  /\ cpu_tstates' = m.cpu /\ pit_tstates' = m.pit
  /\ R' = m.R /\ Z80_intflag' = m.flag /\ alarms' = m.alarms

(* A halted CPU executes its HALT again and again.                         *)
Fetched(i, m) == m.R.HALT = 1 => i.op = "halt"

\* A command that only latches a counter does not set it.
SetsTimer(i) == i.op = "write" \/ (i.op = "command" /\ i.a[3] # 0)

\* Mutant: a halted CPU takes no time.
HaltTakesNoTime(i, d) ==
  LET m == Z80_Interrupt(Machine) IN
  /\ Fetched(i, m)
  /\ i.op = "ei" => m.R.IFF1 = 1
  /\ Become(Obey(i, IF m.R.HALT = 1 THEN m ELSE M_CSTATE(m, d)))
  /\ bus' = IF i.op = "read" THEN ByteRead(m.stat[i.a[1]]) ELSE bus
  /\ event' = IF SetsTimer(i) THEN "set" ELSE "look"

(* A pass of the loop of Z80_Execute.                                      *)
Execute(i, d) ==
  LET m == Z80_Interrupt(Machine) IN
  /\ Fetched(i, m)
  /\ i.op = "ei" => m.R.IFF1 = 1
  /\ Become(Obey(i, M_CSTATE(m, d)))
  /\ bus' = IF i.op = "read" THEN ByteRead(m.stat[i.a[1]]) ELSE bus
  /\ event' = IF SetsTimer(i) THEN "set" ELSE "look"

(* An EI that enables interrupts executes the next instruction as well.    *)
ei(i, d, e) ==
  LET m == Z80_Interrupt(Machine)
      enabled == M_CSTATE([m EXCEPT !.R.IFF1 = 1, !.R.IFF2 = 1], e)
  IN
  /\ m.R.IFF1 = 0 /\ m.R.HALT = 0
  /\ Become(Z80_Interrupt(Obey(i, M_CSTATE(enabled, d))))
  /\ bus' = IF i.op = "read" THEN ByteRead(m.stat[i.a[1]]) ELSE bus
  /\ event' = IF SetsTimer(i) THEN "set" ELSE "look"

Reset ==
  /\ mz_reset
  /\ cpu_tstates' = 0 /\ pit_tstates' = 0
  /\ R' = [IFF1 |-> 0, IFF2 |-> 0, HALT |-> 0, IM |-> 0]
  /\ Z80_intflag' = 0 /\ alarms' = 0

Init ==
  /\ PitInit
  /\ cpu_tstates = 0 /\ pit_tstates = 0
  /\ R = [IFF1 |-> 0, IFF2 |-> 0, HALT |-> 0, IM |-> 0]
  /\ Z80_intflag = 0 /\ alarms = 0

Pass ==
  \/ \E i \in Program, d \in Cycles : Execute(i, d)
  \/ \E i \in Program, d, e \in Cycles : ei(i, d, e)

Next == Pass \/ Reset

(* The main loop calls Z80_Execute again and again.                        *)
Spec == Init /\ [][Next]_timervars /\ WF_timervars(Pass)

----------------------------------------------------------------------------
(* Types: the cycle counters are 32-bit integers, a pass sounds the alarm  *)
(* twice at most.                                                          *)
TypeOK ==
  /\ PitTypeOK
  /\ {cpu_tstates, pit_tstates} \subseteq -Half .. Half - 1
  /\ R \in [IFF1 : {0, 1}, IFF2 : {0, 1}, HALT : {0, 1}, IM : 0 .. 2]
  /\ Z80_intflag \in {0, 1} /\ alarms \in 0 .. 2

(* The timer gets at most one beat before an instruction, and catches up   *)
(* all the same: it is never behind by more than a beat and the longest    *)
(* instruction, so no beat is lost when the 32-bit cycle counter wraps.    *)
Lag == Wrap(cpu_tstates - pit_tstates)
TimerKeepsUp == \E d \in Cycles : Lag \in 0 .. cval - 1 + d

(* The time the program reads off the timer is CPU time: whatever it does  *)
(* but set the timer, the cycles left before the alarm decrease by those   *)
(* it executes, interrupts, waits, EI and HALT included, and begin again   *)
(* with every alarm.                                                       *)
CyclesLeft == BeatsLeft(_8253_stat) * cval - Lag
TimeKept ==
  [][ KeepsTime(_8253_stat) /\ event' = "look"
        => CyclesLeft' = CyclesLeft - Wrap(cpu_tstates' - cpu_tstates)
                           + alarms' * cval * _8253_stat[1].counter_base ]_timervars

(* A request made while interrupts were disabled is not lost: it does not  *)
(* stay pending for ever once the program enables them, keeps the time and *)
(* leaves the timer alone (the next alarm has Interrupt find the flag).    *)
Pending == Z80_intflag = 1 /\ R.IFF1 = 1 /\ R.IM = 1 /\ KeepsTime(_8253_stat)
RequestServed == []<>(~Pending \/ event = "set")

(* A CPU halted with interrupts enabled does not halt for ever: sooner or  *)
(* later an alarm makes Interrupt clear HALT, even if the program then     *)
(* halts again in the same pass.                                           *)
Halted == R.HALT = 1 /\ R.IFF1 = 1 /\ KeepsTime(_8253_stat)
WakesUp == Z80_Interrupt(Machine).R.HALT = 0
HaltEnds == []<>~Halted \/ []<><<WakesUp>>_timervars

(* EI executes one more instruction and checks the IRQ line: the comment   *)
(* in ei.  No request is then pending any more with interrupts enabled.    *)
EiChecksIrq ==
  [][ (\E i \in Program, d, e \in Cycles : ei(i, d, e))
        => ~(Z80_intflag' = 1 /\ R'.IFF1 = 1 /\ R'.IM = 1) ]_timervars
=============================================================================
