-------------------------------- MODULE Pit ---------------------------------
(***************************************************************************)
(* The 8253 interval timer of MZhw.cpp.  Counter 1 divides the clock,      *)
(* counter 2 counts its pulses and asks for an interrupt, counter 0 only   *)
(* sets the pitch of the sound.  A counter is loaded and read a byte at a  *)
(* time through E004H-E006H as its control word, written to E007H, says.   *)
(***************************************************************************)
EXTENDS Integers

CONSTANTS
  ByteBase,  \* 256: values of a byte
  Used,      \* the counters the program uses
  Commands,  \* the control words it writes: <<counter, mode, rl>>
  Written    \* the bytes it writes

ASSUME PitAssumption ==
  /\ ByteBase \in Nat \ {0, 1}
  /\ Used \subseteq 0 .. 2
  /\ Commands \subseteq (0 .. 2) \X (0 .. 7) \X (0 .. 3)
  /\ Written \subseteq 0 .. ByteBase - 1

VARIABLES
  _8253_stat,  \* the three counters
  event,       \* what happened last: "set", "look", "beat", or "alarm"
  bus          \* what the last read returned

pitvars == <<_8253_stat, event, bus>>

Counter == 0 .. 2
Word == ByteBase * ByteBase

Low(x) == x % ByteBase
High(x) == (x \div ByteBase) % ByteBase

pit_init ==
  [n \in Counter |-> [mode |-> 0, rl |-> IF n < 2 THEN 3 ELSE 0, running |-> 0,
                      counter |-> 0, counter_base |-> 0,
                      lat_flag |-> 0, counter_lat |-> 0, bit_hl |-> 0]]

\* Mutant: a latch stops the counter, like any other control word.
LatchStops(st, mode, rl) ==
  IF rl = 0 THEN [st EXCEPT !.counter_lat = st.counter % Word, !.lat_flag = 1,
                            !.running = 0]
  ELSE [st EXCEPT !.bit_hl = 0, !.lat_flag = 0, !.running = 0,
                  !.rl = rl, !.mode = mode]

(* A control word latches the counter (rl = 0) or stops and configures it. *)
write_8253_cw(st, mode, rl) ==
  IF rl = 0 THEN [st EXCEPT !.counter_lat = st.counter % Word, !.lat_flag = 1]
  ELSE [st EXCEPT !.bit_hl = 0, !.lat_flag = 0, !.running = 0,
                  !.rl = rl, !.mode = mode]

(* A counter takes a new base over at once, unless it reloads by itself.   *)
Rebased(st, base) ==
  [st EXCEPT !.counter_base = base, !.lat_flag = 0,
             !.counter = IF st.running = 0 \/ st.mode \notin {2, 3} THEN base ELSE @]

WriteByte(st, val) ==
  CASE st.rl = 0 -> [st EXCEPT !.lat_flag = 0]
    [] st.rl = 1 -> [Rebased(st, val) EXCEPT !.bit_hl = 0, !.running = 1]
    [] st.rl = 2 -> [Rebased(st, val * ByteBase) EXCEPT !.bit_hl = 0, !.running = 1]
    [] st.rl = 3 /\ st.bit_hl = 0 -> [Rebased(st, val) EXCEPT !.bit_hl = 1]
    [] st.rl = 3 /\ st.bit_hl = 1 ->
         [Rebased(st, Low(st.counter_base) + val * ByteBase) EXCEPT !.bit_hl = 0, !.running = 1]

(* The value a read sees, and which byte of it.                            *)
Seen(st) == IF st.lat_flag = 1 THEN st.counter_lat ELSE st.counter
ReadsLow(st) == st.rl = 1 \/ (st.rl = 3 /\ st.bit_hl = 0)

ByteRead(st) ==
  CASE st.rl = 0 -> IF st.lat_flag = 1 THEN ByteBase \div 2 - 1 ELSE ByteBase - 1
    [] st.rl # 0 /\ ReadsLow(st) -> Low(Seen(st))
    [] OTHER -> High(Seen(st))

(* A read releases the latch with the last byte the control word asks for. *)
ReadByte(st) ==
  CASE st.rl = 0 -> st
    [] st.rl \in {1, 2} -> [st EXCEPT !.lat_flag = 0]
    [] st.rl = 3 /\ st.bit_hl = 0 -> [st EXCEPT !.bit_hl = 1]
    [] st.rl = 3 /\ st.bit_hl = 1 -> [st EXCEPT !.bit_hl = 0, !.lat_flag = 0]

----------------------------------------------------------------------------
(* pitcount_job: whether a running counter gives a pulse, and what it is   *)
(* then.  Modes 1, 3 and 5 to 7 do not count.                              *)
Pulses(st) ==
  /\ st.running = 1
  /\ \/ st.mode = 0 /\ st.counter <= 0
     \/ st.mode \in {2, 4} /\ st.counter <= 1

\* Mutant: a counter that has run out in mode 0 goes on counting.
NeverClamped(st) ==
  IF st.running = 1 /\ st.mode \in {0, 4} THEN [st EXCEPT !.counter = @ - 1]
  ELSE IF Pulses(st) THEN [st EXCEPT !.counter = st.counter_base]
  ELSE IF st.running = 1 /\ st.mode = 2 THEN [st EXCEPT !.counter = @ - 1] ELSE st

Counted(st) ==
  CASE st.running = 1 /\ st.mode \in {0, 2, 4} /\ ~Pulses(st) -> [st EXCEPT !.counter = @ - 1]
    [] Pulses(st) /\ st.mode = 0 -> [st EXCEPT !.counter = 0]
    [] Pulses(st) /\ st.mode = 2 -> [st EXCEPT !.counter = st.counter_base]
    [] Pulses(st) /\ st.mode = 4 -> [st EXCEPT !.counter = -1]
    [] OTHER -> st

(* pit_count: counter 2 advances with the pulses of counter 1.             *)
pit_count(s) ==
  [s EXCEPT ![1] = Counted(@), ![2] = IF Pulses(s[1]) THEN Counted(@) ELSE @]
Alarms(s) == Pulses(s[1]) /\ Pulses(s[2])

----------------------------------------------------------------------------
ControlWord(n, mode, rl) ==
  /\ _8253_stat' = [_8253_stat EXCEPT ![n] = write_8253_cw(@, mode, rl)]
  /\ event' = IF rl = 0 THEN "look" ELSE "set"
  /\ UNCHANGED bus

WriteCounter(n, val) ==
  /\ _8253_stat' = [_8253_stat EXCEPT ![n] = WriteByte(@, val)]
  /\ event' = "set"
  /\ UNCHANGED bus

ReadCounter(n) ==
  /\ bus' = ByteRead(_8253_stat[n])
  /\ _8253_stat' = [_8253_stat EXCEPT ![n] = ReadByte(@)]
  /\ event' = "look"

Beat ==
  /\ _8253_stat' = pit_count(_8253_stat)
  /\ event' = IF Alarms(_8253_stat) THEN "alarm" ELSE "beat"
  /\ UNCHANGED bus

mz_reset ==
  /\ _8253_stat' = pit_init
  /\ event' = "set"
  /\ UNCHANGED bus

PitInit == _8253_stat = pit_init /\ event = "set" /\ bus = 0

PitNext ==
  \/ \E c \in Commands : ControlWord(c[1], c[2], c[3])
  \/ \E n \in Used, val \in Written : WriteCounter(n, val)
  \/ \E n \in Used : ReadCounter(n)
  \/ Beat
  \/ mz_reset

PitSpec == PitInit /\ [][PitNext]_pitvars

----------------------------------------------------------------------------
(* Types; a counter is 16 bits wide, or -1 after a strobe (mode 4) or the  *)
(* change of mode that follows one.                                        *)
PitTypeOK ==
  /\ _8253_stat \in [Counter -> [mode : 0 .. 7, rl : 0 .. 3, running : {0, 1},
                                 counter : -1 .. Word - 1, counter_base : 0 .. Word - 1,
                                 lat_flag : {0, 1}, counter_lat : 0 .. Word - 1,
                                 bit_hl : {0, 1}]]
  /\ event \in {"set", "look", "beat", "alarm"}
  /\ bus \in 0 .. ByteBase - 1

(* A program keeps the time with counter 1 in mode 2 and counter 2 in      *)
(* mode 0: from then on the pair sounds its alarm after exactly the beats  *)
(* still on it, again every counter_base beats, and latching and reading   *)
(* it, in any order and any number of bytes, costs no time.                *)
KeepsTime(s) ==
  /\ s[1].mode = 2 /\ s[1].running = 1 /\ s[1].counter > 0 /\ s[1].counter_base > 0
  /\ s[2].mode = 0 /\ s[2].running = 1 /\ s[2].counter >= 0
BeatsLeft(s) == IF KeepsTime(s) THEN s[2].counter * s[1].counter_base + s[1].counter
                ELSE 0
Clock == INSTANCE Countdown WITH
  on <- KeepsTime(_8253_stat),
  left <- BeatsLeft(_8253_stat),
  period <- _8253_stat[1].counter_base
ClockSpec == Clock!Spec

(* Mode 4 gives one pulse for each load of the counter: the comment at the *)
(* line that gives it.                                                     *)
StrobeOnce ==
  [][ _8253_stat[2].mode = 4 /\ _8253_stat[2].running = 1 /\ _8253_stat[2].counter = -1
        => event' # "alarm" ]_pitvars
=============================================================================
