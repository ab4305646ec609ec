------------------------ MODULE TimerInterruptProofs ------------------------
(***************************************************************************)
(* Theorems about Pit and TimerInterrupt.                                  *)
(*                                                                         *)
(* Pit: its type invariant is inductive as it stands, and with it every    *)
(* step of the timer is a step of Countdown or a stutter.  These theorems  *)
(* use the assumption of Pit alone.                                        *)
(*                                                                         *)
(* TimerInterrupt: the timer never falls behind the CPU by more than a     *)
(* beat and an instruction, so the wrapping counters always tell how far;  *)
(* with that, every pass of Z80_Execute moves the time on the timer by the *)
(* cycles it executes.                                                     *)
(***************************************************************************)
EXTENDS TimerInterrupt, TLAPS

Stat == [mode : 0 .. 7, rl : 0 .. 3, running : {0, 1},
         counter : -1 .. Word - 1, counter_base : 0 .. Word - 1,
         lat_flag : {0, 1}, counter_lat : 0 .. Word - 1, bit_hl : {0, 1}]

----------------------------------------------------------------------------
(* The arithmetic of bytes and words.                                      *)
LEMMA WordIsNat == Word \in Nat \ {0} /\ ByteBase <= Word
  <1>1. ByteBase \in Nat /\ ByteBase >= 2
    BY PitAssumption
  <1> QED BY <1>1, SMT DEF Word

(* Two bytes make a word.                                                  *)
LEMMA BytesMakeWord ==
  ASSUME NEW lo \in 0 .. ByteBase - 1, NEW val \in 0 .. ByteBase - 1
  PROVE  lo + val * ByteBase \in 0 .. Word - 1
  <1>1. ByteBase \in Nat /\ ByteBase >= 2
    BY PitAssumption
  <1>2. val * ByteBase <= (ByteBase - 1) * ByteBase /\ val * ByteBase \in Nat
    BY <1>1
  <1>3. (ByteBase - 1) * ByteBase = ByteBase * ByteBase - ByteBase
    BY <1>1
  <1>4. ByteBase * ByteBase \in Nat
    BY <1>1
  <1> QED BY <1>1, <1>2, <1>3, <1>4 DEF Word

(* The two halves of a number are bytes.                                   *)
LEMMA LowIsByte ==
  ASSUME NEW x \in Int
  PROVE  Low(x) \in 0 .. ByteBase - 1 /\ High(x) \in 0 .. ByteBase - 1
  <1>1. ByteBase \in Nat /\ ByteBase >= 2
    BY PitAssumption
  <1>2. x \div ByteBase \in Int
    BY <1>1
  <1>3. \A y \in Int : y % ByteBase \in 0 .. ByteBase - 1
    BY <1>1
  <1> QED BY <1>2, <1>3 DEF Low, High

----------------------------------------------------------------------------
(* What the operations on a counter leave of its type.                     *)
LEMMA ControlWordType ==
  ASSUME NEW st \in Stat, NEW mode \in 0 .. 7, NEW rl \in 0 .. 3
  PROVE  write_8253_cw(st, mode, rl) \in Stat
  <1>1. st.counter % Word \in 0 .. Word - 1
    BY WordIsNat DEF Stat
  <1> QED BY <1>1 DEF write_8253_cw, Stat

(* A counter with another base is one.                                     *)
LEMMA RebasedType ==
  ASSUME NEW st \in Stat, NEW base \in 0 .. Word - 1
  PROVE  Rebased(st, base) \in Stat
  <1>1. base \in -1 .. Word - 1
    BY WordIsNat
  <1> QED BY <1>1 DEF Rebased, Stat

(* A counter between its two bytes, or loaded with both, is one.           *)
LEMMA LoadedType ==
  ASSUME NEW st \in Stat, NEW hl \in {0, 1}
  PROVE  /\ [st EXCEPT !.bit_hl = hl] \in Stat
         /\ [st EXCEPT !.bit_hl = hl, !.running = 1] \in Stat
  BY DEF Stat

(* A byte written to a counter leaves a counter.                           *)
LEMMA WriteByteType ==
  ASSUME NEW st \in Stat, NEW val \in 0 .. ByteBase - 1
  PROVE  WriteByte(st, val) \in Stat
  <1>1. ByteBase \in Nat /\ ByteBase >= 2
    BY PitAssumption
  <1>2. st.rl \in 0 .. 3 /\ st.bit_hl \in {0, 1} /\ st.counter_base \in Int
    BY WordIsNat DEF Stat
  <1>3. val \in 0 .. Word - 1
    BY <1>1, WordIsNat
  <1>4. val * ByteBase \in 0 .. Word - 1
    <2>1. 0 \in 0 .. ByteBase - 1
      BY <1>1
    <2>2. val * ByteBase \in Nat
      BY <1>1
    <2> QED BY <2>1, <2>2, BytesMakeWord
  <1>5. Low(st.counter_base) + val * ByteBase \in 0 .. Word - 1
    BY <1>2, LowIsByte, BytesMakeWord
  <1>6. CASE st.rl = 0
    BY <1>6 DEF WriteByte, Stat
  <1>7. CASE st.rl = 1
    <2>1. Rebased(st, val) \in Stat
      BY <1>3, RebasedType
    <2>2. WriteByte(st, val) = [Rebased(st, val) EXCEPT !.bit_hl = 0, !.running = 1]
      BY <1>7 DEF WriteByte
    <2> QED BY <2>1, <2>2, LoadedType
  <1>8. CASE st.rl = 2
    <2>1. Rebased(st, val * ByteBase) \in Stat
      BY <1>4, RebasedType
    <2>2. WriteByte(st, val) = [Rebased(st, val * ByteBase) EXCEPT !.bit_hl = 0, !.running = 1]
      BY <1>8 DEF WriteByte
    <2> QED BY <2>1, <2>2, LoadedType
  <1>9. CASE st.rl = 3 /\ st.bit_hl = 0
    <2>1. Rebased(st, val) \in Stat
      BY <1>3, RebasedType
    <2>2. WriteByte(st, val) = [Rebased(st, val) EXCEPT !.bit_hl = 1]
      BY <1>9 DEF WriteByte
    <2> QED BY <2>1, <2>2, LoadedType
  <1>10. CASE st.rl = 3 /\ st.bit_hl = 1
    <2>1. Rebased(st, Low(st.counter_base) + val * ByteBase) \in Stat
      BY <1>5, RebasedType
    <2>2. WriteByte(st, val) = [Rebased(st, Low(st.counter_base) + val * ByteBase) EXCEPT !.bit_hl = 0, !.running = 1]
      BY <1>10 DEF WriteByte
    <2> QED BY <2>1, <2>2, LoadedType
  <1> QED BY <1>2, <1>6, <1>7, <1>8, <1>9, <1>10

(* A byte read from a counter leaves a counter, and is a byte.             *)
LEMMA ReadByteType ==
  ASSUME NEW st \in Stat
  PROVE  ReadByte(st) \in Stat /\ ByteRead(st) \in 0 .. ByteBase - 1
  <1>1. ByteBase \in Nat /\ ByteBase >= 2
    BY PitAssumption
  <1>2. st.rl \in 0 .. 3 /\ st.bit_hl \in {0, 1} /\ Seen(st) \in Int
    BY WordIsNat DEF Stat, Seen
  <1>3. ReadByte(st) \in Stat
    <2>1. CASE st.rl = 0
      BY <2>1 DEF ReadByte
    <2>2. CASE st.rl \in {1, 2}
      <3>1. ReadByte(st) = [st EXCEPT !.lat_flag = 0]
        BY <2>2 DEF ReadByte
      <3> QED BY <3>1 DEF Stat
    <2>3. CASE st.rl = 3 /\ st.bit_hl = 0
      <3>1. ReadByte(st) = [st EXCEPT !.bit_hl = 1]
        BY <2>3 DEF ReadByte
      <3> QED BY <3>1, LoadedType
    <2>4. CASE st.rl = 3 /\ st.bit_hl = 1
      <3>1. ReadByte(st) = [st EXCEPT !.bit_hl = 0, !.lat_flag = 0]
        BY <2>4 DEF ReadByte
      <3> QED BY <3>1 DEF Stat
    <2> QED BY <1>2, <2>1, <2>2, <2>3, <2>4
  <1>4. ByteBase \div 2 - 1 \in 0 .. ByteBase - 1 /\ ByteBase - 1 \in 0 .. ByteBase - 1
    BY <1>1
  <1>5. Low(Seen(st)) \in 0 .. ByteBase - 1 /\ High(Seen(st)) \in 0 .. ByteBase - 1
    BY <1>2, LowIsByte
  <1>6. ByteRead(st) \in 0 .. ByteBase - 1
    BY <1>4, <1>5 DEF ByteRead
  <1> QED BY <1>3, <1>6

(* A counter counted down is one.                                          *)
LEMMA CountedType ==
  ASSUME NEW st \in Stat
  PROVE  Counted(st) \in Stat
  <1>1. st.counter \in -1 .. Word - 1 /\ st.counter_base \in 0 .. Word - 1
    BY DEF Stat
  <1>2. CASE st.running = 1 /\ st.mode \in {0, 2, 4} /\ ~Pulses(st)
    <2>1. st.counter - 1 \in -1 .. Word - 1
      BY <1>1, <1>2, WordIsNat DEF Pulses
    <2> QED BY <1>2, <2>1 DEF Counted, Stat
  <1>3. CASE Pulses(st)
    <2>1. {0, -1, st.counter_base} \subseteq -1 .. Word - 1
      BY <1>1, WordIsNat
    <2>2. st.mode \in {0, 2, 4}
      BY <1>3 DEF Pulses
    <2> QED BY <1>3, <2>1, <2>2 DEF Counted, Stat
  <1>4. CASE ~Pulses(st) /\ ~(st.running = 1 /\ st.mode \in {0, 2, 4})
    BY <1>4 DEF Counted
  <1> QED BY <1>2, <1>3, <1>4

(* pit_count leaves counters.                                              *)
LEMMA PitCountType ==
  ASSUME NEW s \in [Counter -> Stat]
  PROVE  pit_count(s) \in [Counter -> Stat]
  <1>1. 1 \in Counter /\ 2 \in Counter
    BY DEF Counter
  <1>2. Counted(s[1]) \in Stat /\ Counted(s[2]) \in Stat
    BY <1>1, CountedType
  <1> HIDE DEF Stat, Counter
  <1> QED BY <1>1, <1>2 DEF pit_count

----------------------------------------------------------------------------
TypeInv ==
  /\ _8253_stat \in [Counter -> Stat]
  /\ event \in {"set", "look", "beat", "alarm"}
  /\ bus \in 0 .. ByteBase - 1

(* The invariant is the type invariant.                                    *)
LEMMA TypeInvIsPitTypeOK == TypeInv <=> PitTypeOK
  BY DEF TypeInv, PitTypeOK, Stat

(* The counters after pit_init are typed.                                  *)
LEMMA ResetType == pit_init \in [Counter -> Stat] /\ 0 \in 0 .. ByteBase - 1
  <1>1. ByteBase \in Nat /\ ByteBase >= 2
    BY PitAssumption
  <1>2. 0 \in 0 .. Word - 1 /\ 0 \in -1 .. Word - 1
    BY WordIsNat
  <1> QED BY <1>1, <1>2 DEF pit_init, Stat

(* Every call keeps the types.                                             *)
LEMMA StepType == TypeInv /\ [PitNext]_pitvars => TypeInv'
  <1> SUFFICES ASSUME TypeInv, [PitNext]_pitvars PROVE TypeInv'
    OBVIOUS
  <1>1. ASSUME NEW c \in Commands, ControlWord(c[1], c[2], c[3]) PROVE TypeInv'
    <2>1. c[1] \in Counter /\ c[2] \in 0 .. 7 /\ c[3] \in 0 .. 3
      BY PitAssumption DEF Counter
    <2>2. write_8253_cw(_8253_stat[c[1]], c[2], c[3]) \in Stat
      BY <2>1, ControlWordType DEF TypeInv
    <2> QED BY <1>1, <2>1, <2>2 DEF TypeInv, ControlWord
  <1>2. ASSUME NEW n \in Used, NEW val \in Written, WriteCounter(n, val) PROVE TypeInv'
    <2>1. n \in Counter /\ val \in 0 .. ByteBase - 1
      BY PitAssumption DEF Counter
    <2>2. WriteByte(_8253_stat[n], val) \in Stat
      BY <2>1, WriteByteType DEF TypeInv
    <2> QED BY <1>2, <2>1, <2>2 DEF TypeInv, WriteCounter
  <1>3. ASSUME NEW n \in Used, ReadCounter(n) PROVE TypeInv'
    <2>1. n \in Counter
      BY PitAssumption DEF Counter
    <2>2. ReadByte(_8253_stat[n]) \in Stat /\ ByteRead(_8253_stat[n]) \in 0 .. ByteBase - 1
      BY <2>1, ReadByteType DEF TypeInv
    <2> QED BY <1>3, <2>1, <2>2 DEF TypeInv, ReadCounter
  <1>4. CASE Beat
    BY <1>4, PitCountType DEF TypeInv, Beat
  <1>5. CASE mz_reset
    BY <1>5, ResetType DEF TypeInv, mz_reset
  <1>6. CASE UNCHANGED pitvars
    BY <1>6 DEF TypeInv, pitvars
  <1> QED BY <1>1, <1>2, <1>3, <1>4, <1>5, <1>6 DEF PitNext

(* The timer's type correctness: a counter that has been run out, loaded   *)
(* half, latched or switched to another mode still holds 16 bits (or -1    *)
(* after a strobe), whatever the program writes and when.                  *)
THEOREM TypeCorrect == PitSpec => []PitTypeOK
  <1>1. PitInit => TypeInv
    BY ResetType DEF PitInit, TypeInv
  <1>2. TypeInv => PitTypeOK
    BY TypeInvIsPitTypeOK
  <1> QED BY <1>1, <1>2, StepType, PTL DEF PitSpec
----------------------------------------------------------------------------
(* The refinement.  What the abstract clock sees of two timer states is    *)
(* the same when counters 1 and 2 differ in latch and byte pointer only.   *)
SameTime(st, tt) ==
  /\ st.mode = tt.mode /\ st.running = tt.running
  /\ st.counter = tt.counter /\ st.counter_base = tt.counter_base

(* Counters that agree on what time depends on tell the same time.         *)
LEMMA SameTimeSameClock ==
  ASSUME NEW s, NEW t, SameTime(s[1], t[1]), SameTime(s[2], t[2])
  PROVE  /\ KeepsTime(s) = KeepsTime(t)
         /\ BeatsLeft(s) = BeatsLeft(t)
         /\ s[1].counter_base = t[1].counter_base
  <1>1. KeepsTime(s) <=> KeepsTime(t)
    BY DEF SameTime, KeepsTime
  <1>2. KeepsTime(s) \in BOOLEAN /\ KeepsTime(t) \in BOOLEAN
    BY DEF KeepsTime
  <1>3. KeepsTime(s) = KeepsTime(t)
    BY <1>1, <1>2
  <1>4. s[1].counter = t[1].counter /\ s[2].counter = t[2].counter
          /\ s[1].counter_base = t[1].counter_base
    BY DEF SameTime
  <1> QED BY <1>3, <1>4 DEF BeatsLeft

(* What the counters tell of the time are numbers.                         *)
LEMMA ClockTypes ==
  ASSUME NEW s \in [Counter -> Stat]
  PROVE  KeepsTime(s) \in BOOLEAN /\ BeatsLeft(s) \in Nat /\ s[1].counter_base \in Nat
  <1>1. s[1] \in Stat /\ s[2] \in Stat
    BY DEF Counter
  <1>2. s[1].counter_base \in Nat /\ s[1].counter \in Int /\ s[2].counter \in Int
    BY <1>1, WordIsNat DEF Stat
  <1>3. ASSUME KeepsTime(s) PROVE s[2].counter * s[1].counter_base + s[1].counter \in Nat
    <2>1. s[2].counter \in Nat /\ s[1].counter \in Nat
      BY <1>2, <1>3 DEF KeepsTime
    <2>2. s[2].counter * s[1].counter_base \in Nat
      BY <1>2, <2>1
    <2> QED BY <2>1, <2>2
  <1>4. BeatsLeft(s) \in Nat
    BY <1>3 DEF BeatsLeft
  <1>5. KeepsTime(s) \in BOOLEAN
    BY DEF KeepsTime
  <1> QED BY <1>2, <1>4, <1>5

(* A read, with its latch and its half, leaves the time alone.             *)
LEMMA ReadKeepsTime ==
  ASSUME NEW st \in Stat
  PROVE  SameTime(st, ReadByte(st))
  <1>1. st.rl \in 0 .. 3 /\ st.bit_hl \in {0, 1}
    BY DEF Stat
  <1>2. CASE st.rl = 0
    BY <1>2 DEF ReadByte, SameTime
  <1>3. CASE st.rl \in {1, 2}
    <2>1. ReadByte(st) = [st EXCEPT !.lat_flag = 0]
      BY <1>3 DEF ReadByte
    <2> QED BY <2>1 DEF Stat, SameTime
  <1>4. CASE st.rl = 3 /\ st.bit_hl = 0
    <2>1. ReadByte(st) = [st EXCEPT !.bit_hl = 1]
      BY <1>4 DEF ReadByte
    <2> QED BY <2>1 DEF Stat, SameTime
  <1>5. CASE st.rl = 3 /\ st.bit_hl = 1
    <2>1. ReadByte(st) = [st EXCEPT !.bit_hl = 0, !.lat_flag = 0]
      BY <1>5 DEF ReadByte
    <2> QED BY <2>1 DEF Stat, SameTime
  <1> QED BY <1>1, <1>2, <1>3, <1>4, <1>5

(* The product of the counters, a beat at a time.                          *)
LEMMA LastPulseOfPeriod ==
  ASSUME NEW c \in Nat \ {0}, NEW b \in Nat \ {0}
  PROVE  /\ (c - 1) * b + b = c * b
         /\ c * b \in Nat /\ c * b >= 1
  <1>1. (c - 1) * b + b = c * b
    OBVIOUS
  <1>2. (c - 1) * b \in Nat
    OBVIOUS
  <1> QED BY <1>1, <1>2

(* A beat of a timer that keeps the time.                                  *)
LEMMA BeatCountsDown ==
  ASSUME NEW s \in [Counter -> Stat], NEW t, t = pit_count(s), KeepsTime(s)
  PROVE  /\ KeepsTime(t)
         /\ t[1].counter_base = s[1].counter_base
         /\ \/ BeatsLeft(s) > 1 /\ BeatsLeft(t) = BeatsLeft(s) - 1 /\ ~Alarms(s)
            \/ BeatsLeft(s) = 1 /\ BeatsLeft(t) = s[1].counter_base /\ Alarms(s)
  <1> DEFINE b == s[1].counter_base
             c == s[2].counter
  <1>1. s[1] \in Stat /\ s[2] \in Stat /\ 1 \in Counter /\ 2 \in Counter
    BY DEF Counter
  <1>2. /\ b \in Nat \ {0} /\ s[1].counter \in Nat \ {0} /\ c \in Nat
        /\ s[1].mode = 2 /\ s[1].running = 1 /\ s[2].mode = 0 /\ s[2].running = 1
    BY <1>1, WordIsNat DEF Stat, KeepsTime
  <1>3. t[1] = Counted(s[1]) /\ t[2] = IF Pulses(s[1]) THEN Counted(s[2]) ELSE s[2]
    BY <1>1 DEF pit_count
  <1>4. Pulses(s[1]) <=> s[1].counter = 1
    BY <1>2 DEF Pulses
  <1>5. Pulses(s[2]) <=> c = 0
    BY <1>2 DEF Pulses
  <1>6. BeatsLeft(s) = c * b + s[1].counter
    BY DEF BeatsLeft
  <1>7. c * b \in Nat
    BY <1>2
  <1>8. CASE s[1].counter # 1
    <2>1. t[1] = [s[1] EXCEPT !.counter = @ - 1] /\ t[2] = s[2]
      BY <1>2, <1>3, <1>4, <1>8 DEF Counted
    <2>2. /\ t[1].mode = 2 /\ t[1].running = 1 /\ t[1].counter_base = b
          /\ t[1].counter = s[1].counter - 1
      BY <1>1, <1>2, <2>1 DEF Stat
    <2>3. KeepsTime(t)
      BY <1>2, <1>8, <2>1, <2>2 DEF KeepsTime
    <2>4. BeatsLeft(t) = c * b + (s[1].counter - 1)
      BY <2>1, <2>2, <2>3 DEF BeatsLeft
    <2>5. BeatsLeft(s) > 1 /\ BeatsLeft(t) = BeatsLeft(s) - 1
      <3> HIDE DEF b, c
      <3> QED BY <1>2, <1>6, <1>7, <1>8, <2>4
    <2>6. ~Alarms(s)
      BY <1>4, <1>8 DEF Alarms
    <2> QED BY <2>2, <2>3, <2>5, <2>6
  <1>9. CASE s[1].counter = 1
    <2>1. t[1] = [s[1] EXCEPT !.counter = b] /\ t[2] = Counted(s[2])
      BY <1>2, <1>3, <1>4, <1>9 DEF Counted
    <2>2. t[1].mode = 2 /\ t[1].running = 1 /\ t[1].counter_base = b /\ t[1].counter = b
      BY <1>1, <1>2, <2>1 DEF Stat
    <2>3. CASE c # 0
      <3>1. t[2] = [s[2] EXCEPT !.counter = @ - 1]
        BY <1>2, <1>5, <2>1, <2>3 DEF Counted
      <3>2. t[2].mode = 0 /\ t[2].running = 1 /\ t[2].counter = c - 1
        BY <1>1, <1>2, <3>1 DEF Stat
      <3>3. KeepsTime(t)
        BY <1>2, <2>2, <2>3, <3>2 DEF KeepsTime
      <3>4. BeatsLeft(t) = (c - 1) * b + b
        BY <2>2, <3>2, <3>3 DEF BeatsLeft
      <3>5. (c - 1) * b + b = c * b /\ c * b >= 1
        BY <1>2, <2>3, LastPulseOfPeriod
      <3>6. BeatsLeft(s) > 1 /\ BeatsLeft(t) = BeatsLeft(s) - 1
        <4> HIDE DEF b, c
        <4> QED BY <1>6, <1>7, <1>9, <3>4, <3>5
      <3>7. ~Alarms(s)
        BY <1>5, <2>3 DEF Alarms
      <3> QED BY <2>2, <3>3, <3>6, <3>7
    <2>4. CASE c = 0
      <3>1. t[2] = [s[2] EXCEPT !.counter = 0]
        BY <1>2, <1>5, <2>1, <2>4 DEF Counted
      <3>2. t[2].mode = 0 /\ t[2].running = 1 /\ t[2].counter = 0
        BY <1>1, <1>2, <3>1 DEF Stat
      <3>3. KeepsTime(t)
        BY <1>2, <2>2, <3>2 DEF KeepsTime
      <3>4. BeatsLeft(t) = 0 * b + b /\ BeatsLeft(s) = 0 * b + 1
        BY <1>6, <1>9, <2>2, <2>4, <3>2, <3>3 DEF BeatsLeft
      <3>5. BeatsLeft(t) = b /\ BeatsLeft(s) = 1
        <4> HIDE DEF b, c
        <4> QED BY <1>2, <3>4
      <3>6. Alarms(s)
        BY <1>4, <1>5, <1>9, <2>4 DEF Alarms
      <3> QED BY <2>2, <3>3, <3>5, <3>6
    <2> QED BY <2>3, <2>4
  <1> QED BY <1>8, <1>9

(* Every call is a step of the abstract clock, or leaves it as it was.     *)
LEMMA StepRefines == TypeInv /\ TypeInv' /\ [PitNext]_pitvars => [Clock!Next]_(Clock!vars)
  <1> SUFFICES ASSUME TypeInv, TypeInv', [PitNext]_pitvars
               PROVE  [Clock!Next]_(Clock!vars)
    OBVIOUS
  <1> DEFINE s == _8253_stat
             t == _8253_stat'
  <1>1. /\ KeepsTime(t) \in BOOLEAN /\ BeatsLeft(t) \in Nat /\ t[1].counter_base \in Nat
        /\ KeepsTime(s) \in BOOLEAN
    BY ClockTypes DEF TypeInv
  <1>2. ASSUME event' = "set" PROVE Clock!Set
    BY <1>1, <1>2 DEF Clock!Set
  <1>3. ASSUME event' = "look", SameTime(s[1], t[1]), SameTime(s[2], t[2]) PROVE Clock!Look
    BY <1>3, SameTimeSameClock DEF Clock!Look
  <1>4. ASSUME NEW c \in Commands, ControlWord(c[1], c[2], c[3]) PROVE Clock!Next
    <2>1. c[1] \in Counter
      BY PitAssumption DEF Counter
    <2>2. CASE c[3] # 0
      BY <1>2, <1>4, <2>2 DEF ControlWord, Clock!Next
    <2>3. CASE c[3] = 0
      <3>1. t = [s EXCEPT ![c[1]] =
                   [@ EXCEPT !.counter_lat = s[c[1]].counter % Word, !.lat_flag = 1]]
        BY <1>4, <2>3 DEF ControlWord, write_8253_cw
      <3>2. SameTime(s[1], t[1]) /\ SameTime(s[2], t[2])
        BY <2>1, <3>1 DEF TypeInv, Stat, Counter, SameTime
      <3> QED BY <1>3, <1>4, <2>3, <3>2 DEF ControlWord, Clock!Next
    <2> QED BY <2>2, <2>3
  <1>5. ASSUME NEW n \in Used, NEW val \in Written, WriteCounter(n, val) PROVE Clock!Next
    BY <1>2, <1>5 DEF WriteCounter, Clock!Next
  <1>6. ASSUME NEW n \in Used, ReadCounter(n) PROVE Clock!Next
    <2>1. n \in Counter /\ s[n] \in Stat
      BY PitAssumption DEF Counter, TypeInv
    <2>2. t = [s EXCEPT ![n] = ReadByte(s[n])]
      BY <1>6 DEF ReadCounter
    <2>3. SameTime(s[n], ReadByte(s[n]))
      BY <2>1, ReadKeepsTime
    <2>4. SameTime(s[1], t[1]) /\ SameTime(s[2], t[2])
      BY <2>1, <2>2, <2>3 DEF TypeInv, Counter, SameTime
    <2> QED BY <1>3, <1>6, <2>4 DEF ReadCounter, Clock!Next
  <1>7. CASE Beat
    <2>1. t = pit_count(s) /\ event' = IF Alarms(s) THEN "alarm" ELSE "beat"
      BY <1>7 DEF Beat
    <2>2. CASE KeepsTime(s)
      <3>1. Clock!Beat
        BY <2>1, <2>2, BeatCountsDown DEF Clock!Beat, TypeInv
      <3> QED BY <3>1 DEF Clock!Next
    <2>3. CASE ~KeepsTime(s)
      <3>1. Clock!Unset
        BY <1>1, <2>1, <2>3 DEF Clock!Unset
      <3> QED BY <3>1 DEF Clock!Next
    <2> QED BY <2>2, <2>3
  <1>8. CASE mz_reset
    BY <1>2, <1>8 DEF mz_reset, Clock!Next
  <1>9. CASE UNCHANGED pitvars
    <2>1. SameTime(s[1], t[1]) /\ SameTime(s[2], t[2]) /\ event' = event
      BY <1>9 DEF pitvars, SameTime
    <2> QED BY <2>1, SameTimeSameClock DEF Clock!vars
  <1> QED BY <1>4, <1>5, <1>6, <1>7, <1>8, <1>9 DEF PitNext

(* The two chained counters are a clock: once a program has set them, the  *)
(* alarm sounds after exactly the beats on them and again every            *)
(* counter_base beats; a latch or a read, of one byte or two, between any  *)
(* beats, neither stops nor shifts it.                                     *)
THEOREM KeepsTheTime == PitSpec => ClockSpec
  <1>1. PitInit => TypeInv
    BY ResetType DEF PitInit, TypeInv
  <1>2. PitInit => Clock!Init
    <2> SUFFICES ASSUME PitInit PROVE Clock!Init
      OBVIOUS
    <2>1. _8253_stat[1].mode = 0 /\ event = "set"
      BY DEF PitInit, pit_init, Counter
    <2>2. ~KeepsTime(_8253_stat)
      BY <2>1 DEF KeepsTime
    <2> QED BY <2>1, <2>2 DEF Clock!Init, KeepsTime
  <1> QED BY <1>1, <1>2, StepType, StepRefines, PTL DEF PitSpec, ClockSpec, Clock!Spec

-----------------------------------------------------------------------------
(* TimerInterrupt: the CPU and its timer.                                  *)
Clk == -Half .. Half - 1
Regs == [IFF1 : {0, 1}, IFF2 : {0, 1}, HALT : {0, 1}, IM : 0 .. 2]

(* The machine between two steps of a pass, n alarms into it at most.      *)
Between(n) == [stat : [Counter -> Stat], cpu : Clk, pit : Clk, R : Regs,
               flag : {0, 1}, alarms : 0 .. n]
Behind(m) == Wrap(m.cpu - m.pit)

----------------------------------------------------------------------------
(* The wrapping counters.                                                  *)
LEMMA Constants ==
  /\ cval \in Nat /\ cval >= 1 /\ Half \in Nat /\ 3 * cval <= Half
  /\ Rst \in Nat /\ Nop \in Nat
  /\ \A d \in Cycles : d \in Nat /\ d >= 1 /\ d + Rst <= cval /\ d + Nop <= cval
  BY TimerAssumption

(* A sum of few 32-bit numbers, wrapped, is a 32-bit number.               *)
LEMMA WrapType ==
  ASSUME NEW x \in Int, -3 * Half <= x, x < 3 * Half
  PROVE  Wrap(x) \in Clk
  BY Constants DEF Wrap, Clk

(* A 32-bit number is not changed by wrapping.                             *)
LEMMA WrapSmall ==
  ASSUME NEW x \in Clk
  PROVE  Wrap(x) = x
  BY Constants DEF Wrap, Clk

(* Executing k cycles puts the timer behind by k more, ...                 *)
LEMMA Executed ==
  ASSUME NEW x \in Clk, NEW y \in Clk, NEW k \in Nat, k < Half,
         Wrap(x - y) + k < Half
  PROVE  Wrap(x + k) \in Clk /\ Wrap(Wrap(x + k) - y) = Wrap(x - y) + k
  BY Constants DEF Wrap, Clk

(* ... and a beat by cval less.                                            *)
LEMMA CaughtUp ==
  ASSUME NEW x \in Clk, NEW y \in Clk, Wrap(x - y) >= 0
  PROVE  Wrap(y + cval) \in Clk /\ Wrap(x - Wrap(y + cval)) = Wrap(x - y) - cval
  BY Constants DEF Wrap, Clk

(* The cycles of a pass are its CPU time.                                  *)
LEMMA TimePassed ==
  ASSUME NEW x \in Clk, NEW j \in Nat, NEW k \in Nat, j + k < Half
  PROVE  /\ Wrap(Wrap(x + j) + k) = Wrap(x + j + k)
         /\ Wrap(Wrap(x + j) - x) = j
  BY Constants DEF Wrap, Clk

----------------------------------------------------------------------------
(* A call of the interrupt handler takes time and nothing of the timer.    *)
LEMMA InterruptDoes ==
  ASSUME NEW n \in Nat, NEW m \in Between(n)
  PROVE  /\ Interrupt(m) \in Between(n)
         /\ Interrupt(m).stat = m.stat /\ Interrupt(m).pit = m.pit
         /\ Interrupt(m).alarms = m.alarms
         /\ \E j \in {0, Nop, Rst} : Interrupt(m).cpu = Wrap(m.cpu + j)
  <1> DEFINE taken == [m EXCEPT !.R.IFF1 = 0, !.R.HALT = 0]
  <1>1. m.cpu \in Clk /\ Wrap(m.cpu + 0) = m.cpu
    <2>1. m.cpu \in Clk /\ m.cpu + 0 = m.cpu
      BY Constants DEF Between, Clk
    <2> QED BY <2>1, WrapSmall
  <1>2. /\ taken \in Between(n) /\ taken.stat = m.stat /\ taken.pit = m.pit
        /\ taken.alarms = m.alarms /\ taken.cpu = m.cpu
    <2>1. [m.R EXCEPT !.IFF1 = 0, !.HALT = 0] \in Regs
      BY DEF Between, Regs
    <2>2. taken = [m EXCEPT !.R = [m.R EXCEPT !.IFF1 = 0, !.HALT = 0]]
      BY DEF Between, Regs
    <2> QED BY <2>1, <2>2 DEF Between
  <1>3. Wrap(m.cpu + Nop) \in Clk /\ Wrap(m.cpu + Rst) \in Clk
    <2>1. PICK d \in Cycles : TRUE
      BY TimerAssumption
    <2>2. Nop <= cval /\ Rst <= cval
      BY <2>1, Constants
    <2> QED BY <1>1, <2>2, Constants, WrapType DEF Clk
  <1>4. CASE m.R.IFF1 = 0
    BY <1>1, <1>4 DEF Interrupt
  <1>5. CASE m.R.IFF1 = 1 /\ m.R.IM = 0
    <2>1. Interrupt(m) = [taken EXCEPT !.cpu = Wrap(m.cpu + Nop)]
      BY <1>5 DEF Interrupt, M_CSTATE, Between
    <2> QED BY <1>2, <1>3, <2>1 DEF Between
  <1>6. CASE m.R.IFF1 = 1 /\ m.R.IM = 1 /\ m.flag = 1
    <2>1. Interrupt(m) = [taken EXCEPT !.flag = 0, !.cpu = Wrap(m.cpu + Rst)]
      BY <1>6 DEF Interrupt, M_CSTATE, Between
    <2> QED BY <1>2, <1>3, <2>1 DEF Between
  <1>7. CASE m.R.IFF1 = 1 /\ m.R.IM # 0 /\ ~(m.R.IM = 1 /\ m.flag = 1)
    <2>1. Interrupt(m) = taken
      BY <1>7 DEF Interrupt
    <2> QED BY <1>1, <1>2, <2>1 DEF Between
  <1>8. m.R.IFF1 \in {0, 1}
    BY DEF Between, Regs
  <1> QED BY <1>4, <1>5, <1>6, <1>7, <1>8

(* The time on the timer, in CPU cycles, moves by j: it begins again with  *)
(* every alarm.                                                            *)
TimeLeft(m) == BeatsLeft(m.stat) * cval - Behind(m)
Moves(m, q, j) ==
  KeepsTime(m.stat) =>
    /\ KeepsTime(q.stat) /\ q.stat[1].counter_base = m.stat[1].counter_base
    /\ TimeLeft(q) = TimeLeft(m) - j + (q.alarms - m.alarms) * cval * m.stat[1].counter_base

(* A timer that is behind by a beat at most and k cycles, k - 1 and a call *)
(* of the handler not more than b, is behind by b at most afterwards.      *)
LEMMA Z80_InterruptDoes ==
  ASSUME NEW n \in Nat, NEW m \in Between(n), NEW k \in Nat \ {0}, NEW b \in Nat,
         Behind(m) \in 0 .. cval - 1 + k,
         cval - 1 <= b, k - 1 + Rst <= b, k - 1 + Nop <= b, b < Half
  PROVE  /\ Z80_Interrupt(m) \in Between(n + 1)
         /\ Behind(Z80_Interrupt(m)) \in 0 .. b
         /\ \E j \in {0, Nop, Rst} : /\ Z80_Interrupt(m).cpu = Wrap(m.cpu + j)
                                     /\ Moves(m, Z80_Interrupt(m), j)
  <1> DEFINE q == Z80_Interrupt(m)
             s == m.stat
             beaten == [m EXCEPT !.pit = Wrap(@ + cval), !.stat = pit_count(@)]
             alarm == [beaten EXCEPT !.flag = 1, !.alarms = @ + 1]
  <1>1. /\ s \in [Counter -> Stat] /\ m.cpu \in Clk /\ m.pit \in Clk
        /\ m.alarms \in 0 .. n /\ Wrap(m.cpu + 0) = m.cpu
    BY WrapSmall DEF Between, Clk
  <1>2. /\ BeatsLeft(s) \in Int /\ Behind(m) \in Int /\ cval \in Int
        /\ s[1].counter_base \in Int
    BY <1>1, ClockTypes, Constants
  <1>3. CASE Wrap(m.cpu - m.pit) < cval
    <2>1. q = m
      BY <1>3 DEF Z80_Interrupt
    <2>2. m \in Between(n + 1)
      BY DEF Between
    <2>3. Moves(m, m, 0)
      <3>1. (m.alarms - m.alarms) * cval * s[1].counter_base = 0
        BY <1>1, <1>2
      <3> QED BY <1>1, <1>2, <3>1 DEF Moves, TimeLeft
    <2>4. Behind(m) \in 0 .. b
      BY <1>2, <1>3, Constants DEF Behind
    <2> QED BY <1>1, <2>1, <2>2, <2>3, <2>4
  <1>4. CASE Wrap(m.cpu - m.pit) >= cval
    <2>1. /\ Wrap(m.pit + cval) \in Clk
          /\ Wrap(m.cpu - Wrap(m.pit + cval)) = Behind(m) - cval
      BY <1>1, <1>4, Constants, CaughtUp DEF Behind
    <2>2. pit_count(s) \in [Counter -> Stat]
      BY <1>1, PitCountType
    <2>3. beaten \in Between(n) /\ alarm \in Between(n + 1)
      <3>1. m.alarms + 1 \in 0 .. n + 1
        BY <1>1
      <3> HIDE DEF Stat, Counter
      <3> QED BY <2>1, <2>2, <3>1 DEF Between
    <2>4. /\ beaten.stat = pit_count(s) /\ beaten.cpu = m.cpu /\ beaten.alarms = m.alarms
          /\ alarm.stat = pit_count(s) /\ alarm.cpu = m.cpu /\ alarm.alarms = m.alarms + 1
          /\ Behind(beaten) = Behind(m) - cval /\ Behind(alarm) = Behind(m) - cval
          /\ alarm.pit \in Clk
      BY <2>1 DEF Between, Behind
    <2>5. Behind(m) - cval \in 0 .. k - 1
      BY <1>2, <1>4 DEF Behind
    <2>6. KeepsTime(s) => KeepsTime(pit_count(s))
                            /\ pit_count(s)[1].counter_base = s[1].counter_base
      BY <1>1, BeatCountsDown
    <2>7. CASE ~Alarms(s)
      <3>1. q = beaten
        BY <1>4, <2>7, Constants DEF Z80_Interrupt, Between, Clk, Wrap
      <3>2. beaten \in Between(n + 1)
        BY <2>3 DEF Between
      <3>3. Behind(beaten) \in 0 .. b
        BY <2>4, <2>5, Constants
      <3>4. Moves(m, beaten, 0)
        <4> SUFFICES ASSUME KeepsTime(s)
                     PROVE  TimeLeft(beaten) = TimeLeft(m) - 0
                              + (beaten.alarms - m.alarms) * cval * s[1].counter_base
          BY <2>4, <2>6 DEF Moves
        <4>1. BeatsLeft(beaten.stat) = BeatsLeft(s) - 1
          BY <1>1, <2>4, <2>7, BeatCountsDown
        <4>2. (beaten.alarms - m.alarms) * cval * s[1].counter_base = 0
          BY <1>1, <1>2, <2>4
        <4>3. (BeatsLeft(s) - 1) * cval = BeatsLeft(s) * cval - cval
          BY <1>2
        <4>4. BeatsLeft(s) * cval \in Int
          BY <1>2
        <4> QED BY <1>2, <2>4, <4>1, <4>2, <4>3, <4>4 DEF TimeLeft
      <3> QED BY <1>1, <2>4, <3>1, <3>2, <3>3, <3>4
    <2>8. CASE Alarms(s)
      <3>1. q = Interrupt(alarm)
        BY <1>4, <2>8, Constants DEF Z80_Interrupt, Between, Clk, Wrap
      <3>2. PICK j \in {0, Nop, Rst} : q.cpu = Wrap(m.cpu + j)
        <4>1. \E j \in {0, Nop, Rst} : Interrupt(alarm).cpu = Wrap(alarm.cpu + j)
          BY <2>3, n + 1 \in Nat, InterruptDoes
        <4> HIDE DEF q, alarm
        <4> QED BY <2>4, <3>1, <4>1
      <3>3. /\ q \in Between(n + 1)
            /\ q.stat = pit_count(s) /\ q.pit = alarm.pit /\ q.alarms = m.alarms + 1
        <4>1. /\ Interrupt(alarm) \in Between(n + 1)
              /\ Interrupt(alarm).stat = alarm.stat /\ Interrupt(alarm).pit = alarm.pit
              /\ Interrupt(alarm).alarms = alarm.alarms
          BY <2>3, n + 1 \in Nat, InterruptDoes
        <4> HIDE DEF q, alarm
        <4> QED BY <2>4, <3>1, <4>1
      <3>4. j \in Nat /\ k - 1 + j <= b
        BY <3>2, Constants
      <3>5. Behind(q) = Behind(m) - cval + j
        <4>1. Wrap(m.cpu - alarm.pit) = Behind(m) - cval
          BY <2>4 DEF Behind
        <4>2. j < Half /\ Wrap(m.cpu - alarm.pit) + j < Half
          BY <2>5, <3>4, <4>1, Constants, <1>2
        <4> QED BY <1>1, <2>4, <3>2, <3>3, <3>4, <4>1, <4>2, Executed DEF Behind
      <3>6. Behind(q) \in 0 .. b
        BY <1>2, <2>5, <3>4, <3>5
      <3>7. Moves(m, q, j)
        <4> SUFFICES ASSUME KeepsTime(s)
                     PROVE  TimeLeft(q) = TimeLeft(m) - j
                              + (q.alarms - m.alarms) * cval * s[1].counter_base
          BY <2>6, <3>3 DEF Moves
        <4>1. BeatsLeft(q.stat) = s[1].counter_base /\ BeatsLeft(s) = 1
          BY <1>1, <2>8, <3>3, BeatCountsDown
        <4>2. (q.alarms - m.alarms) * cval * s[1].counter_base = s[1].counter_base * cval
          <5>1. q.alarms - m.alarms = 1
            BY <1>1, <3>3
          <5>2. 1 * cval * s[1].counter_base = s[1].counter_base * cval
            BY <1>2
          <5> QED BY <5>1, <5>2
        <4>3. s[1].counter_base * cval \in Int
          BY <1>2
        <4> QED BY <1>2, <3>4, <3>5, <4>1, <4>2, <4>3 DEF TimeLeft
      <3> QED BY <3>2, <3>3, <3>6, <3>7
    <2> QED BY <2>7, <2>8
  <1>5. Wrap(m.cpu - m.pit) < cval \/ Wrap(m.cpu - m.pit) >= cval
    BY <1>2 DEF Behind
  <1> QED BY <1>3, <1>4, <1>5

----------------------------------------------------------------------------
(* The other steps of a pass: an instruction takes time, EI enables        *)
(* interrupts, an instruction has its effect.                              *)
LEMMA Elapse ==
  ASSUME NEW n \in Nat, NEW m \in Between(n), NEW d \in Nat,
         Behind(m) \in Nat, Behind(m) + d < Half
  PROVE  /\ M_CSTATE(m, d) \in Between(n)
         /\ M_CSTATE(m, d).cpu = Wrap(m.cpu + d)
         /\ Behind(M_CSTATE(m, d)) = Behind(m) + d
         /\ Moves(m, M_CSTATE(m, d), d)
  <1> DEFINE q == M_CSTATE(m, d)
  <1>1. /\ m.cpu \in Clk /\ m.pit \in Clk /\ m.alarms \in Nat
        /\ m.stat \in [Counter -> Stat]
    BY DEF Between
  <1>2. q = [m EXCEPT !.cpu = Wrap(m.cpu + d)]
    BY DEF M_CSTATE, Between
  <1>3. Wrap(m.cpu + d) \in Clk /\ Wrap(Wrap(m.cpu + d) - m.pit) = Wrap(m.cpu - m.pit) + d
    BY <1>1, Executed, Constants DEF Behind
  <1>4. q \in Between(n)
    <2> HIDE DEF Clk
    <2> QED BY <1>2, <1>3 DEF Between
  <1>5. /\ q.cpu = Wrap(m.cpu + d) /\ q.pit = m.pit /\ q.stat = m.stat
        /\ q.alarms = m.alarms
    BY <1>2 DEF Between
  <1>6. Behind(q) = Behind(m) + d
    BY <1>3, <1>5 DEF Behind
  <1>7. Moves(m, q, d)
    <2>1. /\ m.stat[1].counter_base \in Int /\ cval \in Int /\ BeatsLeft(m.stat) \in Int
      BY <1>1, ClockTypes, Constants
    <2>2. (q.alarms - m.alarms) * cval * m.stat[1].counter_base = 0
      BY <1>1, <1>5, <2>1
    <2>3. BeatsLeft(m.stat) * cval \in Int
      BY <2>1
    <2> HIDE DEF q
    <2> QED BY <1>5, <1>6, <2>2, <2>3 DEF Moves, TimeLeft
  <1> QED BY <1>4, <1>5, <1>6, <1>7

(* EI changes the interrupt flip-flops alone.                              *)
LEMMA Enabled ==
  ASSUME NEW n \in Nat, NEW m \in Between(n), NEW q,
         q = [m EXCEPT !.R.IFF1 = 1, !.R.IFF2 = 1]
  PROVE  /\ q \in Between(n) /\ q.cpu = m.cpu /\ q.pit = m.pit
         /\ q.stat = m.stat /\ q.alarms = m.alarms
  <1>1. [m.R EXCEPT !.IFF1 = 1, !.IFF2 = 1] \in Regs
    BY DEF Between, Regs
  <1>2. q = [m EXCEPT !.R = [m.R EXCEPT !.IFF1 = 1, !.IFF2 = 1]]
    BY DEF Between, Regs
  <1> QED BY <1>1, <1>2 DEF Between

(* An instruction sets counters and registers; the time on the timer moves *)
(* only if it sets a counter.                                              *)
LEMMA ObeyDoes ==
  ASSUME NEW n \in Nat, NEW m \in Between(n), NEW i \in Program
  PROVE  /\ Obey(i, m) \in Between(n)
         /\ Obey(i, m).cpu = m.cpu /\ Obey(i, m).pit = m.pit
         /\ Obey(i, m).alarms = m.alarms
         /\ ~SetsTimer(i) => /\ SameTime(m.stat[1], Obey(i, m).stat[1])
                             /\ SameTime(m.stat[2], Obey(i, m).stat[2])
  <1> DEFINE q == Obey(i, m)
             Goal == /\ q \in Between(n) /\ q.cpu = m.cpu /\ q.pit = m.pit
                     /\ q.alarms = m.alarms
                     /\ ~SetsTimer(i) => /\ SameTime(m.stat[1], q.stat[1])
                                         /\ SameTime(m.stat[2], q.stat[2])
  <1> SUFFICES Goal
    OBVIOUS
  <1>1. m.stat \in [Counter -> Stat] /\ m.R \in Regs /\ 1 \in Counter /\ 2 \in Counter
    BY DEF Between, Counter
  <1>2. ASSUME NEW c \in Counter, NEW st \in Stat, q = [m EXCEPT !.stat[c] = st],
               ~SetsTimer(i) => SameTime(m.stat[c], st)
        PROVE  Goal
    <2>1. q = [m EXCEPT !.stat = [m.stat EXCEPT ![c] = st]]
      BY <1>2 DEF Between
    <2>2. [m.stat EXCEPT ![c] = st] \in [Counter -> Stat]
      BY <1>1
    <2>3. /\ q \in Between(n) /\ q.cpu = m.cpu /\ q.pit = m.pit /\ q.alarms = m.alarms
          /\ q.stat = [m.stat EXCEPT ![c] = st]
      <3> HIDE DEF Counter, Stat
      <3> QED BY <2>1, <2>2 DEF Between
    <2>4. ~SetsTimer(i) => /\ SameTime(m.stat[1], q.stat[1])
                           /\ SameTime(m.stat[2], q.stat[2])
      <3> HIDE DEF q, Counter
      <3> QED BY <1>1, <1>2, <2>3 DEF SameTime
    <2> QED BY <2>3, <2>4
  <1>3. ASSUME NEW r \in Regs, q = [m EXCEPT !.R = r] PROVE Goal
    <2>1. /\ q \in Between(n) /\ q.cpu = m.cpu /\ q.pit = m.pit /\ q.alarms = m.alarms
          /\ q.stat = m.stat
      BY <1>3 DEF Between
    <2> HIDE DEF q
    <2> QED BY <2>1 DEF SameTime
  <1>4. CASE i \in {Instr("command", c) : c \in Commands}
    <2>1. PICK c \in Commands : i = Instr("command", c)
      BY <1>4
    <2>2. c[1] \in Counter /\ c[2] \in 0 .. 7 /\ c[3] \in 0 .. 3
      BY PitAssumption DEF Counter
    <2> DEFINE st == write_8253_cw(m.stat[c[1]], c[2], c[3])
    <2>3. st \in Stat
      BY <1>1, <2>2, ControlWordType
    <2>4. q = [m EXCEPT !.stat[c[1]] = st]
      BY <2>1 DEF Obey, Instr
    <2>5. ~SetsTimer(i) => c[3] = 0
      BY <2>1 DEF SetsTimer, Instr
    <2>6. ~SetsTimer(i) => SameTime(m.stat[c[1]], st)
      BY <1>1, <2>2, <2>5 DEF write_8253_cw, SameTime, Stat
    <2> HIDE DEF Goal, st, q
    <2> QED BY <1>2, <2>2, <2>3, <2>4, <2>6
  <1>5. CASE i \in {Instr("write", <<c, val>>) : c \in Used, val \in Written}
    <2>1. PICK c \in Used, val \in Written : i = Instr("write", <<c, val>>)
      BY <1>5
    <2>2. c \in Counter /\ val \in 0 .. ByteBase - 1
      BY PitAssumption DEF Counter
    <2>3. WriteByte(m.stat[c], val) \in Stat
      BY <1>1, <2>2, WriteByteType
    <2>4. q = [m EXCEPT !.stat[c] = WriteByte(m.stat[c], val)]
      BY <2>1 DEF Obey, Instr
    <2>5. SetsTimer(i)
      BY <2>1 DEF SetsTimer, Instr
    <2> HIDE DEF Goal, q
    <2> QED BY <1>2, <2>2, <2>3, <2>4, <2>5
  <1>6. CASE i \in {Instr("read", <<c>>) : c \in Used}
    <2>1. PICK c \in Used : i = Instr("read", <<c>>)
      BY <1>6
    <2>2. c \in Counter
      BY PitAssumption DEF Counter
    <2>3. ReadByte(m.stat[c]) \in Stat /\ SameTime(m.stat[c], ReadByte(m.stat[c]))
      BY <1>1, <2>2, ReadByteType, ReadKeepsTime
    <2>4. q = [m EXCEPT !.stat[c] = ReadByte(m.stat[c])]
      BY <2>1 DEF Obey, Instr
    <2> HIDE DEF Goal, q
    <2> QED BY <1>2, <2>2, <2>3, <2>4
  <1>7. CASE i \in {Instr("im", <<k>>) : k \in 0 .. 2}
    <2>1. PICK k \in 0 .. 2 : i = Instr("im", <<k>>)
      BY <1>7
    <2>2. q = [m EXCEPT !.R = [m.R EXCEPT !.IM = k]] /\ [m.R EXCEPT !.IM = k] \in Regs
      BY <1>1, <2>1 DEF Obey, Instr, Between, Regs
    <2> HIDE DEF Goal, q
    <2> QED BY <1>3, <2>2
  <1>8. CASE i \in {Instr(op, <<>>) : op \in {"ei", "di", "retn", "halt", "other"}}
    <2>1. CASE i.op = "ei"
      <3>1. q = [m EXCEPT !.R = [m.R EXCEPT !.IFF2 = 1]] /\ [m.R EXCEPT !.IFF2 = 1] \in Regs
        BY <1>1, <2>1 DEF Obey, Between, Regs
      <3> HIDE DEF Goal, q
      <3> QED BY <1>3, <3>1
    <2>2. CASE i.op = "di"
      <3>1. /\ q = [m EXCEPT !.R = [m.R EXCEPT !.IFF1 = 0, !.IFF2 = 0]]
            /\ [m.R EXCEPT !.IFF1 = 0, !.IFF2 = 0] \in Regs
        BY <1>1, <2>2 DEF Obey, Between, Regs
      <3> HIDE DEF Goal, q
      <3> QED BY <1>3, <3>1
    <2>3. CASE i.op = "retn"
      <3>1. /\ q = [m EXCEPT !.R = [m.R EXCEPT !.IFF1 = m.R.IFF2]]
            /\ [m.R EXCEPT !.IFF1 = m.R.IFF2] \in Regs
        BY <1>1, <2>3 DEF Obey, Between, Regs
      <3> HIDE DEF Goal, q
      <3> QED BY <1>3, <3>1
    <2>4. CASE i.op = "halt"
      <3>1. q = [m EXCEPT !.R = [m.R EXCEPT !.HALT = 1]] /\ [m.R EXCEPT !.HALT = 1] \in Regs
        BY <1>1, <2>4 DEF Obey, Between, Regs
      <3> HIDE DEF Goal, q
      <3> QED BY <1>3, <3>1
    <2>5. CASE i.op = "other"
      <3>1. q = m
        BY <2>5 DEF Obey
      <3> HIDE DEF q
      <3> QED BY <3>1 DEF SameTime
    <2>6. i.op \in {"ei", "di", "retn", "halt", "other"}
      BY <1>8 DEF Instr
    <2> HIDE DEF Goal, q
    <2> QED BY <2>1, <2>2, <2>3, <2>4, <2>5, <2>6
  <1>9. i \in TimerInstr \cup CpuInstr
    BY TimerAssumption
  <1> HIDE DEF Goal
  <1> QED BY <1>4, <1>5, <1>6, <1>7, <1>8, <1>9 DEF TimerInstr, CpuInstr

----------------------------------------------------------------------------
(* The steps of a pass, one after the other.                               *)
LEMMA MovesOn ==
  ASSUME NEW n \in Nat, NEW m \in Between(n), NEW q \in Between(n), NEW r \in Between(n),
         NEW j \in Nat, NEW l \in Nat, Moves(m, q, j), Moves(q, r, l)
  PROVE  Moves(m, r, j + l)
  <1> SUFFICES ASSUME KeepsTime(m.stat)
               PROVE  /\ KeepsTime(r.stat)
                      /\ r.stat[1].counter_base = m.stat[1].counter_base
                      /\ TimeLeft(r) = TimeLeft(m) - (j + l)
                           + (r.alarms - m.alarms) * cval * m.stat[1].counter_base
    BY DEF Moves
  <1> DEFINE b == m.stat[1].counter_base
             x == q.alarms - m.alarms
             y == r.alarms - q.alarms
  <1>1. /\ KeepsTime(r.stat) /\ q.stat[1].counter_base = b /\ r.stat[1].counter_base = b
        /\ TimeLeft(q) = TimeLeft(m) - j + x * cval * b
        /\ TimeLeft(r) = TimeLeft(q) - l + y * cval * b
    BY DEF Moves
  <1>2. /\ m.stat \in [Counter -> Stat] /\ m.cpu \in Int /\ m.pit \in Int
        /\ m.alarms \in Int /\ q.alarms \in Int /\ r.alarms \in Int
    BY Constants DEF Between, Clk
  <1>3. b \in Int /\ BeatsLeft(m.stat) \in Int /\ cval \in Int /\ Behind(m) \in Int
    BY <1>2, ClockTypes, Constants DEF Behind, Wrap
  <1>4. x \in Int /\ y \in Int /\ x + y = r.alarms - m.alarms
    BY <1>2
  <1>5. x * cval * b + y * cval * b = (x + y) * cval * b
    <2> HIDE DEF x, y, b
    <2>1. x * cval + y * cval = (x + y) * cval /\ x * cval \in Int /\ y * cval \in Int
      BY <1>3, <1>4
    <2>2. (x * cval + y * cval) * b = x * cval * b + y * cval * b
      BY <1>3, <2>1
    <2> QED BY <2>1, <2>2
  <1>6. x * cval * b \in Int /\ y * cval * b \in Int
    <2> HIDE DEF x, y, b
    <2>1. x * cval \in Int /\ y * cval \in Int
      BY <1>3, <1>4
    <2> QED BY <1>3, <2>1
  <1>7. TimeLeft(m) \in Int
    <2>1. BeatsLeft(m.stat) * cval \in Int
      BY <1>3
    <2> QED BY <1>3, <2>1 DEF TimeLeft
  <1>8. TimeLeft(r) = TimeLeft(m) - (j + l) + (x + y) * cval * b
    <2> HIDE DEF x, y, b
    <2> QED BY <1>1, <1>5, <1>6, <1>7
  <1> QED BY <1>1, <1>4, <1>8

(* A step that leaves clock and counters alone does not move the time.     *)
LEMMA Unmoved ==
  ASSUME NEW n \in Nat, NEW m \in Between(n), NEW q,
         q.cpu = m.cpu, q.pit = m.pit, q.alarms = m.alarms,
         SameTime(m.stat[1], q.stat[1]), SameTime(m.stat[2], q.stat[2])
  PROVE  Moves(m, q, 0)
  <1>1. /\ KeepsTime(m.stat) = KeepsTime(q.stat) /\ BeatsLeft(m.stat) = BeatsLeft(q.stat)
        /\ m.stat[1].counter_base = q.stat[1].counter_base
    BY SameTimeSameClock
  <1>2. /\ m.stat \in [Counter -> Stat] /\ m.cpu \in Int /\ m.pit \in Int
        /\ m.alarms \in Int
    BY Constants DEF Between, Clk
  <1>3. /\ m.stat[1].counter_base \in Int /\ BeatsLeft(m.stat) \in Int
        /\ cval \in Int /\ Behind(m) \in Int
    BY <1>2, ClockTypes, Constants DEF Behind, Wrap
  <1>4. (q.alarms - m.alarms) * cval * m.stat[1].counter_base = 0
    <2>1. q.alarms - m.alarms = 0
      BY <1>2
    <2>2. 0 * cval * m.stat[1].counter_base = 0
      BY <1>3
    <2> QED BY <2>1, <2>2
  <1>5. TimeLeft(q) = TimeLeft(m) /\ TimeLeft(m) \in Int
    <2>1. BeatsLeft(m.stat) * cval \in Int
      BY <1>3
    <2> QED BY <1>1, <1>3, <2>1 DEF TimeLeft, Behind
  <1>6. TimeLeft(q) = TimeLeft(m) - 0 + (q.alarms - m.alarms) * cval * m.stat[1].counter_base
    BY <1>4, <1>5
  <1> QED BY <1>1, <1>6 DEF Moves

----------------------------------------------------------------------------
(* The inductive invariant.                                                *)
Inv == TypeOK /\ TimerKeepsUp

(* Between two passes the machine is behind by the lag of the last         *)
(* instruction at most.                                                    *)
LEMMA MachineType ==
  ASSUME Inv
  PROVE  /\ Machine \in Between(0)
         /\ Machine.stat = _8253_stat /\ Machine.cpu = cpu_tstates /\ Machine.alarms = 0
         /\ TimeLeft(Machine) = CyclesLeft
         /\ \E d \in Cycles : Behind(Machine) \in 0 .. cval - 1 + d
         /\ bus \in 0 .. ByteBase - 1
  <1>1. TypeInv
    BY TypeInvIsPitTypeOK DEF Inv, TypeOK
  <1>2. Machine \in Between(0)
    BY <1>1 DEF Machine, Between, Inv, TypeOK, TypeInv, Clk, Regs
  <1>3. Behind(Machine) = Lag
    BY DEF Behind, Lag, Machine
  <1> QED BY <1>1, <1>2, <1>3 DEF Inv, TimerKeepsUp, TypeInv, TimeLeft, CyclesLeft, Machine

(* A pass that leaves a typed machine with a small lag keeps the           *)
(* invariant.                                                              *)
LEMMA Became ==
  ASSUME NEW q \in Between(2), NEW d \in Cycles, Behind(q) \in 0 .. cval - 1 + d,
         Become(q), bus' \in 0 .. ByteBase - 1, event' \in {"set", "look"}
  PROVE  Inv' /\ CyclesLeft' = TimeLeft(q)
  <1>1. TypeInv'
    <2> HIDE DEF Stat, Counter
    <2> QED BY DEF Become, Between, TypeInv
  <1>2. PitTypeOK'
    BY <1>1, TypeInvIsPitTypeOK, PTL
  <1>3. TypeOK'
    BY <1>2 DEF TypeOK, Become, Between, Clk, Regs
  <1>4. Lag' = Behind(q)
    BY DEF Lag, Behind, Become
  <1>5. TimerKeepsUp'
    BY <1>4 DEF TimerKeepsUp
  <1>6. CyclesLeft' = TimeLeft(q)
    BY <1>4 DEF CyclesLeft, TimeLeft, Become
  <1> QED BY <1>3, <1>5, <1>6 DEF Inv

(* What a pass leaves, given what it has executed by then.                 *)
PassKeepsTime ==
  KeepsTime(_8253_stat) /\ event' = "look"
    => CyclesLeft' = CyclesLeft - Wrap(cpu_tstates' - cpu_tstates)
                       + alarms' * cval * _8253_stat[1].counter_base

(* A pass that has executed x cycles and moved the timer by as many keeps  *)
(* the invariant and the time.                                             *)
LEMMA PassEnds ==
  ASSUME Inv, NEW q \in Between(2), NEW i \in Program, NEW d \in Cycles, NEW x \in Nat,
         Behind(q) \in 0 .. cval - 1 + d, x < Half, q.cpu = Wrap(cpu_tstates + x),
         ~SetsTimer(i) => Moves(Machine, q, x),
         Become(q), event' = IF SetsTimer(i) THEN "set" ELSE "look",
         bus' \in 0 .. ByteBase - 1
  PROVE  Inv' /\ PassKeepsTime
  <1>1. Inv' /\ CyclesLeft' = TimeLeft(q)
    BY Became
  <1>2. ASSUME KeepsTime(_8253_stat), event' = "look"
        PROVE  CyclesLeft' = CyclesLeft - Wrap(cpu_tstates' - cpu_tstates)
                               + alarms' * cval * _8253_stat[1].counter_base
    <2>1. ~SetsTimer(i)
      BY <1>2
    <2>2. cpu_tstates \in Clk /\ cpu_tstates + x + 0 = cpu_tstates + x
      BY Constants, MachineType DEF Between, Clk
    <2>3. Wrap(Wrap(cpu_tstates + x) - cpu_tstates) = x
      BY <2>2, TimePassed, x + 0 < Half
    <2>4. cpu_tstates' = Wrap(cpu_tstates + x) /\ alarms' = q.alarms /\ q.alarms - 0 = q.alarms
      BY DEF Become, Between
    <2> QED BY <1>1, <1>2, <2>1, <2>3, <2>4, MachineType DEF Moves
  <1> QED BY <1>1, <1>2 DEF PassKeepsTime

(* What a pass leaves on the bus is a byte.                                *)
LEMMA ReadOnBus ==
  ASSUME NEW n \in Nat, NEW m \in Between(n), NEW i \in Program, Inv,
         bus' = IF i.op = "read" THEN ByteRead(m.stat[i.a[1]]) ELSE bus
  PROVE  bus' \in 0 .. ByteBase - 1
  <1>1. bus \in 0 .. ByteBase - 1 /\ m.stat \in [Counter -> Stat]
    BY MachineType DEF Between
  <1>2. CASE i.op = "read"
    <2>1. i \in TimerInstr \cup CpuInstr
      BY TimerAssumption
    <2>2. i.a[1] \in Counter
      BY <1>2, <2>1, PitAssumption DEF TimerInstr, CpuInstr, Instr, Counter
    <2> QED BY <1>1, <1>2, <2>2, ReadByteType
  <1> QED BY <1>1, <1>2

(* Before the instruction the timer is behind by less than a beat.         *)
LEMMA PassBegins ==
  ASSUME Inv
  PROVE  /\ Z80_Interrupt(Machine) \in Between(1)
         /\ Behind(Z80_Interrupt(Machine)) \in 0 .. cval - 1
         /\ \E j \in {0, Nop, Rst} : /\ Z80_Interrupt(Machine).cpu = Wrap(cpu_tstates + j)
                                     /\ Moves(Machine, Z80_Interrupt(Machine), j)
  <1>1. PICK d \in Cycles : Behind(Machine) \in 0 .. cval - 1 + d
    BY MachineType
  <1>2. /\ d \in Nat \ {0} /\ cval - 1 \in Nat /\ d - 1 + Rst <= cval - 1
        /\ d - 1 + Nop <= cval - 1 /\ cval - 1 < Half
    BY Constants
  <1>3. Machine \in Between(0) /\ Machine.cpu = cpu_tstates /\ 0 + 1 = 1 /\ 0 \in Nat
    BY MachineType
  <1> HIDE DEF Machine
  <1>4. /\ Z80_Interrupt(Machine) \in Between(0 + 1)
        /\ Behind(Z80_Interrupt(Machine)) \in 0 .. cval - 1
        /\ \E j \in {0, Nop, Rst} : /\ Z80_Interrupt(Machine).cpu = Wrap(Machine.cpu + j)
                                    /\ Moves(Machine, Z80_Interrupt(Machine), j)
    BY <1>1, <1>2, <1>3, Z80_InterruptDoes
  <1> QED BY <1>3, <1>4

(* A machine with few alarms is one with two at most.                      *)
LEMMA Wider ==
  ASSUME NEW n \in 0 .. 2, NEW m \in Between(n)
  PROVE  m \in Between(2)
  BY DEF Between

(* An instruction that does not enable interrupts: the alarm, the          *)
(* instruction, the interrupt.                                             *)
LEMMA ExecuteDoes ==
  ASSUME Inv, NEW i \in Program, NEW d \in Cycles, Execute(i, d)
  PROVE  Inv' /\ PassKeepsTime
  <1> DEFINE m == Z80_Interrupt(Machine)
             timed == M_CSTATE(m, d)
             q == Obey(i, timed)
  <1>1. PICK j \in {0, Nop, Rst} : m.cpu = Wrap(cpu_tstates + j) /\ Moves(Machine, m, j)
    BY PassBegins
  <1>2. /\ m \in Between(1) /\ Behind(m) \in 0 .. cval - 1 /\ j \in Nat /\ d \in Nat
        /\ j + d <= cval /\ j + d < Half /\ Behind(m) + d < Half
    BY <1>1, PassBegins, Constants
  <1>3. /\ timed \in Between(1) /\ timed.cpu = Wrap(m.cpu + d)
        /\ Behind(timed) = Behind(m) + d /\ Moves(m, timed, d)
    <2> HIDE DEF m
    <2> QED BY <1>2, 1 \in Nat, Behind(m) \in Nat, Elapse
  <1>4. q \in Between(1) /\ q.cpu = timed.cpu /\ q.pit = timed.pit
    <2> HIDE DEF timed
    <2> QED BY <1>3, 1 \in Nat, ObeyDoes
  <1>5. ~SetsTimer(i) => Moves(timed, q, 0)
    <2> HIDE DEF timed
    <2> QED BY <1>3, 1 \in Nat, ObeyDoes, Unmoved
  <1>6. Machine \in Between(2) /\ m \in Between(2) /\ timed \in Between(2) /\ q \in Between(2)
    <2> HIDE DEF m, timed, q, Machine
    <2> QED BY <1>2, <1>3, <1>4, MachineType, Wider, 0 \in 0 .. 2, 1 \in 0 .. 2
  <1>7. q.cpu = Wrap(cpu_tstates + (j + d))
    <2>1. cpu_tstates \in Clk /\ cpu_tstates + j + d = cpu_tstates + (j + d)
      BY <1>2, MachineType, Constants DEF Between, Clk
    <2>2. Wrap(Wrap(cpu_tstates + j) + d) = Wrap(cpu_tstates + j + d)
      BY <1>2, <2>1, TimePassed
    <2> QED BY <1>1, <1>3, <1>4, <2>1, <2>2
  <1>8. ~SetsTimer(i) => Moves(Machine, q, j + d)
    <2> HIDE DEF m, timed, q, Machine
    <2>1. Moves(Machine, timed, j + d)
      BY <1>1, <1>2, <1>3, <1>6, MovesOn, 2 \in Nat
    <2>2. j + d \in Nat /\ (j + d) + 0 = j + d
      BY <1>2
    <2> QED BY <1>5, <1>6, <2>1, <2>2, MovesOn, 2 \in Nat, 0 \in Nat
  <1>9. Behind(q) \in 0 .. cval - 1 + d
    <2>1. Behind(q) = Behind(timed)
      BY <1>4 DEF Behind
    <2> QED BY <1>2, <1>3, <2>1, Constants
  <1>10. Become(q) /\ event' = IF SetsTimer(i) THEN "set" ELSE "look"
    BY DEF Execute
  <1>11. bus' \in 0 .. ByteBase - 1
    <2>1. bus' = IF i.op = "read" THEN ByteRead(m.stat[i.a[1]]) ELSE bus
      BY DEF Execute
    <2> HIDE DEF m
    <2> QED BY <1>2, <2>1, 1 \in Nat, ReadOnBus
  <1> HIDE DEF q
  <1> QED BY <1>2, <1>6, <1>7, <1>8, <1>9, <1>10, <1>11, j + d \in Nat, PassEnds

(* EI, which executes the next instruction in the same pass.               *)
LEMMA eiDoes ==
  ASSUME Inv, NEW i \in Program, NEW d \in Cycles, NEW e \in Cycles, ei(i, d, e)
  PROVE  Inv' /\ PassKeepsTime
  <1> DEFINE m == Z80_Interrupt(Machine)
             on == [m EXCEPT !.R.IFF1 = 1, !.R.IFF2 = 1]
             enabled == M_CSTATE(on, e)
             timed == M_CSTATE(enabled, d)
             obeyed == Obey(i, timed)
             q == Z80_Interrupt(obeyed)
  <1>1. PICK j \in {0, Nop, Rst} : m.cpu = Wrap(cpu_tstates + j) /\ Moves(Machine, m, j)
    BY PassBegins
  <1>2. /\ m \in Between(1) /\ Behind(m) \in 0 .. cval - 1 /\ j \in Nat /\ 1 \in Nat
        /\ d \in Nat \ {0} /\ e \in Nat \ {0} /\ j + e <= cval
        /\ Behind(m) \in Nat /\ Behind(m) + e < Half /\ Behind(m) + e + d < Half
    BY <1>1, PassBegins, Constants
  <1>3. /\ on \in Between(1) /\ on.cpu = m.cpu /\ Behind(on) = Behind(m)
        /\ Moves(m, on, 0)
    <2>1. /\ on \in Between(1) /\ on.cpu = m.cpu /\ on.pit = m.pit
          /\ on.stat = m.stat /\ on.alarms = m.alarms
      <3> HIDE DEF m
      <3> QED BY <1>2, Enabled
    <2>2. SameTime(m.stat[1], on.stat[1]) /\ SameTime(m.stat[2], on.stat[2])
      BY <2>1 DEF SameTime
    <2> HIDE DEF m, on
    <2> QED BY <1>2, <2>1, <2>2, Unmoved DEF Behind
  <1>4. /\ enabled \in Between(1) /\ enabled.cpu = Wrap(m.cpu + e)
        /\ Behind(enabled) = Behind(m) + e /\ Moves(on, enabled, e)
    <2> HIDE DEF m, on
    <2> QED BY <1>2, <1>3, Elapse
  <1>5. /\ timed \in Between(1) /\ timed.cpu = Wrap(enabled.cpu + d)
        /\ Behind(timed) = Behind(m) + e + d /\ Moves(enabled, timed, d)
    <2> HIDE DEF m, on, enabled
    <2>1. Behind(enabled) \in Nat /\ Behind(enabled) + d < Half
      BY <1>2, <1>4
    <2> QED BY <1>2, <1>4, <2>1, Elapse
  <1>6. /\ obeyed \in Between(1) /\ obeyed.cpu = timed.cpu /\ obeyed.pit = timed.pit
        /\ Behind(obeyed) = Behind(m) + e + d
    <2> HIDE DEF timed
    <2> QED BY <1>2, <1>5, ObeyDoes DEF Behind
  <1>7. ~SetsTimer(i) => Moves(timed, obeyed, 0)
    <2> HIDE DEF timed
    <2> QED BY <1>2, <1>5, ObeyDoes, Unmoved
  <1>8. /\ q \in Between(2) /\ Behind(q) \in 0 .. cval - 1 + d
        /\ \E l \in {0, Nop, Rst} : q.cpu = Wrap(obeyed.cpu + l) /\ Moves(obeyed, q, l)
    <2>1. /\ Behind(obeyed) \in 0 .. cval - 1 + (e + d) /\ e + d \in Nat \ {0}
          /\ cval - 1 + d \in Nat /\ cval - 1 <= cval - 1 + d /\ cval - 1 + d < Half
          /\ e + d - 1 + Rst <= cval - 1 + d /\ e + d - 1 + Nop <= cval - 1 + d
          /\ 1 + 1 = 2
      BY <1>2, <1>6, Constants
    <2>2. /\ q \in Between(1 + 1) /\ Behind(q) \in 0 .. cval - 1 + d
          /\ \E l \in {0, Nop, Rst} : q.cpu = Wrap(obeyed.cpu + l) /\ Moves(obeyed, q, l)
      <3> HIDE DEF obeyed
      <3> QED BY <1>2, <1>6, <2>1, Z80_InterruptDoes
    <2> HIDE DEF q
    <2> QED BY <2>1, <2>2
  <1>9. PICK l \in {0, Nop, Rst} : q.cpu = Wrap(obeyed.cpu + l) /\ Moves(obeyed, q, l)
    BY <1>8
  <1>10. l \in Nat /\ l + d <= cval /\ j + e + d + l < Half /\ j + e + d + l \in Nat
    BY <1>2, <1>9, Constants
  <1>11. /\ Machine \in Between(2) /\ m \in Between(2) /\ on \in Between(2)
         /\ enabled \in Between(2) /\ timed \in Between(2) /\ obeyed \in Between(2)
    <2> HIDE DEF m, on, enabled, timed, obeyed, Machine
    <2> QED BY <1>2, <1>3, <1>4, <1>5, <1>6, MachineType, Wider, 0 \in 0 .. 2, 1 \in 0 .. 2
  <1>12. q.cpu = Wrap(cpu_tstates + (j + e + d + l))
    <2>1. cpu_tstates \in Clk /\ cpu_tstates \in Int
      BY MachineType, Constants DEF Between, Clk
    <2>2. enabled.cpu = Wrap(cpu_tstates + (j + e))
      BY <1>1, <1>2, <1>3, <1>4, <2>1, Constants, TimePassed,
         cpu_tstates + j + e = cpu_tstates + (j + e)
    <2>3. timed.cpu = Wrap(cpu_tstates + (j + e + d))
      <3>1. /\ j + e \in Nat /\ (j + e) + d < Half /\ d \in Nat
            /\ cpu_tstates + (j + e) + d = cpu_tstates + (j + e + d)
        BY <1>2, <1>9, <1>10, <2>1, Constants
      <3>2. Wrap(Wrap(cpu_tstates + (j + e)) + d) = Wrap(cpu_tstates + (j + e) + d)
        BY <2>1, <3>1, TimePassed
      <3> QED BY <1>5, <2>2, <3>1, <3>2
    <2>4. /\ j + e + d \in Nat /\ (j + e + d) + l < Half
          /\ cpu_tstates + (j + e + d) + l = cpu_tstates + (j + e + d + l)
      BY <1>2, <1>10, <2>1
    <2>5. Wrap(Wrap(cpu_tstates + (j + e + d)) + l) = Wrap(cpu_tstates + (j + e + d) + l)
      BY <1>10, <2>1, <2>4, TimePassed
    <2> QED BY <1>6, <1>9, <2>3, <2>4, <2>5
  <1>13. ~SetsTimer(i) => Moves(Machine, q, j + e + d + l)
    <2> HIDE DEF m, on, enabled, timed, obeyed, q, Machine
    <2>1. Moves(Machine, on, j)
      BY <1>1, <1>2, <1>3, <1>11, MovesOn, 2 \in Nat, 0 \in Nat, j + 0 = j
    <2>2. Moves(Machine, enabled, j + e)
      BY <1>2, <1>4, <1>11, <2>1, MovesOn, 2 \in Nat
    <2>3. Moves(Machine, timed, j + e + d)
      BY <1>2, <1>5, <1>11, <2>2, MovesOn, 2 \in Nat, j + e \in Nat
    <2>4. ASSUME ~SetsTimer(i) PROVE Moves(Machine, obeyed, j + e + d)
      <3>1. j + e + d \in Nat /\ j + e + d + 0 = j + e + d
        BY <1>2
      <3> QED BY <1>7, <1>11, <2>3, <2>4, <3>1, MovesOn, 2 \in Nat, 0 \in Nat
    <2>5. j + e + d \in Nat
      BY <1>2
    <2> QED BY <1>8, <1>9, <1>10, <1>11, <2>4, MovesOn, 2 \in Nat, <2>5
  <1>14. Become(q) /\ event' = IF SetsTimer(i) THEN "set" ELSE "look"
    BY DEF ei
  <1>15. bus' \in 0 .. ByteBase - 1
    <2>1. bus' = IF i.op = "read" THEN ByteRead(m.stat[i.a[1]]) ELSE bus
      BY DEF ei
    <2> HIDE DEF m
    <2> QED BY <1>2, <2>1, ReadOnBus
  <1> HIDE DEF q
  <1> QED BY <1>8, <1>10, <1>12, <1>13, <1>14, <1>15, PassEnds

----------------------------------------------------------------------------
(* A timer reset is behind by nothing.                                     *)
LEMMA LagOfReset == \E d \in Cycles : 0 \in 0 .. cval - 1 + d
  <1>1. PICK d \in Cycles : TRUE
    BY TimerAssumption
  <1>2. 0 \in 0 .. cval - 1 + d
    BY <1>1, Constants
  <1> QED BY <1>2

(* The invariant holds at power-on.                                        *)
LEMMA InitInv == Init => Inv
  <1> SUFFICES ASSUME Init PROVE Inv
    OBVIOUS
  <1>1. PitTypeOK
    BY ResetType, TypeInvIsPitTypeOK DEF Init, PitInit, TypeInv
  <1>2. TypeOK
    BY <1>1, Constants DEF TypeOK, Init
  <1>3. Lag = 0
    BY Constants DEF Init, Lag, Wrap
  <1>4. TimerKeepsUp
    BY <1>3, LagOfReset DEF TimerKeepsUp
  <1> QED BY <1>2, <1>4 DEF Inv

(* A reset keeps the invariant.                                            *)
LEMMA ResetInv == Inv /\ Reset => Inv'
  <1> SUFFICES ASSUME Inv, Reset PROVE Inv'
    OBVIOUS
  <1>1. TypeInv'
    BY ResetType, MachineType DEF Reset, mz_reset, TypeInv
  <1>2. PitTypeOK'
    BY <1>1, TypeInvIsPitTypeOK, PTL
  <1>3. TypeOK'
    BY <1>2, Constants DEF TypeOK, Reset
  <1>4. Lag' = 0
    BY Constants DEF Reset, Lag, Wrap
  <1>5. TimerKeepsUp'
    BY <1>4, LagOfReset DEF TimerKeepsUp
  <1> QED BY <1>3, <1>5 DEF Inv

(* Every pass and every reset keep the invariant.                          *)
LEMMA StepInv == Inv /\ [Next]_timervars => Inv'
  <1> SUFFICES ASSUME Inv, [Next]_timervars PROVE Inv'
    OBVIOUS
  <1>1. ASSUME NEW i \in Program, NEW d \in Cycles, Execute(i, d) PROVE Inv'
    BY <1>1, ExecuteDoes
  <1>2. ASSUME NEW i \in Program, NEW d \in Cycles, NEW e \in Cycles, ei(i, d, e) PROVE Inv'
    BY <1>2, eiDoes
  <1>3. CASE Reset
    BY <1>3, ResetInv
  <1>4. CASE UNCHANGED timervars
    BY <1>4 DEF Inv, TypeOK, PitTypeOK, TimerKeepsUp, Lag, timervars, pitvars
  <1> QED BY <1>1, <1>2, <1>3, <1>4 DEF Next, Pass

(* Every pass moves the time by its cycles.                                *)
LEMMA StepKeepsTime ==
  Inv /\ [Next]_timervars => [PassKeepsTime]_timervars
  <1> SUFFICES ASSUME Inv, Next PROVE PassKeepsTime
    OBVIOUS
  <1>1. ASSUME NEW i \in Program, NEW d \in Cycles, Execute(i, d) PROVE PassKeepsTime
    BY <1>1, ExecuteDoes
  <1>2. ASSUME NEW i \in Program, NEW d \in Cycles, NEW e \in Cycles, ei(i, d, e)
        PROVE  PassKeepsTime
    BY <1>2, eiDoes
  <1>3. CASE Reset
    BY <1>3 DEF Reset, mz_reset, PassKeepsTime
  <1> QED BY <1>1, <1>2, <1>3 DEF Next, Pass

(* The invariant is inductive: types need the bound on the lag, so that no *)
(* sum of cycles wraps twice, and the bound needs the types.               *)
THEOREM TimerInvariance == Spec => []Inv
  BY InitInv, StepInv, PTL DEF Spec

(* Types of the CPU's part in interrupts: the 32-bit range of the cycle    *)
(* counters and at most two alarms to a pass, for every program.           *)
THEOREM TimerTypes == Spec => []TypeOK
  <1>1. Inv => TypeOK
    BY DEF Inv
  <1> QED BY <1>1, TimerInvariance, PTL

(* Z80_Interrupt gives the timer one beat at most before an instruction,   *)
(* and that is enough: however the program mixes instructions, EI, halts   *)
(* and interrupts, the timer is never behind by more than a beat and an    *)
(* instruction, wherever the 32-bit counters wrap.                         *)
THEOREM KeepsUp == Spec => []TimerKeepsUp
  <1>1. Inv => TimerKeepsUp
    BY DEF Inv
  <1> QED BY <1>1, TimerInvariance, PTL

(* A pass of Z80_Execute that does not set the timer takes exactly the     *)
(* cycles it executes off the time left before the alarm, which begins     *)
(* again with every alarm.                                                 *)
THEOREM TimeIsKept == Spec => TimeKept
  <1>1. [PassKeepsTime]_timervars => [ KeepsTime(_8253_stat) /\ event' = "look"
          => CyclesLeft' = CyclesLeft - Wrap(cpu_tstates' - cpu_tstates)
                             + alarms' * cval * _8253_stat[1].counter_base ]_timervars
    BY DEF PassKeepsTime
  <1> QED BY <1>1, StepKeepsTime, TimerInvariance, PTL DEF Spec, TimeKept
=============================================================================
